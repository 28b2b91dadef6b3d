------------------------------ MODULE Resolver ------------------------------
(***************************************************************************)
(* The resolver (lumen-lang, resolve.rs): which names a file declares,     *)
(* where they may be read, of what type and at what rate everything is;    *)
(* and the names the emitter (emit.rs) then looks up, in its own order.    *)
(*                                                                         *)
(* A resolver is [table, used, lets, wrong, fns, grid, fields, local].     *)
(* There is one flat table of symbols: what a block declares is withdrawn  *)
(* again when the block ends.  wrong is set by an error; warnings and      *)
(* wording are left out.                                                   *)
(***************************************************************************)
EXTENDS Parser

CONSTANT Library    \* the standard library by version: its functions and palettes

Once == 0
PerFrame == 1
PerPixel == 2

Width(ty) == CASE ty = "vec2" -> 2 [] ty \in {"vec3", "color"} -> 3 [] OTHER -> 1

Builtin(ty, rate, names) == [n \in names |-> [ty |-> ty, rate |-> rate]]
Builtins ==
  Builtin("float", PerFrame, {"t", "dt"}) @@ Builtin("int", PerFrame, {"n", "mapq"})
    @@ Builtin("float", PerPixel, {"x", "y", "z", "lx", "ly", "lz", "u"}) @@ Builtin("int", PerPixel, {"i"})
    @@ Builtin("vec3", PerPixel, {"pos"}) @@ Builtin("vec2", PerPixel, {"uv"})
    @@ Builtin("color", PerPixel, {"prev"})

CoreArity ==
  [f \in {"abs", "ceil", "round", "trunc", "sign", "tan", "normalize", "floor", "fract", "sqrt", "sin", "cos",
          "sin01", "cos01", "exp", "log", "noise1"} |-> {1}]
    @@ [f \in {"mod", "distance", "cross", "pow", "atan2", "min", "max", "step", "noise2", "dot", "vec2", "temp",
               "palette"} |-> {2}]
    @@ [f \in {"clamp", "smoothstep", "mix", "select", "noise3", "vec3", "rgb", "hsv"} |-> {3}]
    @@ [f \in {"length"} |-> {2, 3}]
CoreResult(f) ==
  CASE f = "vec2" -> "vec2" [] f \in {"vec3", "normalize", "cross"} -> "vec3"
    [] f \in {"rgb", "hsv", "temp", "palette"} -> "color" [] OTHER -> "float"

Lanes == [vec2 |-> {"x", "y", "u", "v"}, vec3 |-> {"x", "y", "z"}, color |-> {"r", "g", "b", "a"}]

Accessors ==
  [influence |-> [takes |-> <<"vec3", "float">>, gives |-> "float"],
   nearest |-> [takes |-> <<"vec3">>, gives |-> "float"],
   field |-> [takes |-> <<"vec3">>, gives |-> "vec3"]]

Comparisons == {"<", "<=", ">", ">=", "==", "!=", "&&", "||"}

-----------------------------------------------------------------------------
(* Expressions: a type and a rate, the names read, and whether it is wrong *)

Operands(e) ==
  CASE e[1] = "Field" -> <<e[2]>> [] e[1] = "Call" -> e[3] [] e[1] = "MethodCall" -> <<e[2]>> \o e[4]
    [] e[1] = "Unary" -> <<e[3]>> [] e[1] = "Binary" -> <<e[3], e[4]>> [] OTHER -> <<>>

Judged(ty, rate, wrong) == [ty |-> ty, rate |-> rate, wrong |-> wrong, used |-> {}]

Latest(js) == Max({Once} \cup {js[k].rate : k \in DOMAIN js})
Widths(tys) == [k \in DOMAIN tys |-> Width(tys[k])]

\* A sim names something to be asked, and is no value.
HasSim(js) == \E k \in DOMAIN js : js[k].ty = "sim"

JudgeName(s, n) ==
  CASE n \in DOMAIN Builtins -> Judged(Builtins[n].ty, Builtins[n].rate, n = "uv" /\ ~s.grid)
    [] n \notin DOMAIN Builtins /\ n \in DOMAIN s.table ->
         [Judged(s.table[n].ty, s.table[n].rate, FALSE) EXCEPT !.used = {n}]
    [] OTHER -> Judged("float", Once, TRUE)

JudgeField(s, base, f) ==
  CASE base.ty = "element" -> Judged("vec3", PerFrame, f \notin s.fields)
    [] base.ty = "sim" -> Judged("int", Once, f # "count")
    [] OTHER -> Judged("float", base.rate, ~(base.ty \in DOMAIN Lanes /\ f \in Lanes[base.ty]))

JudgeCall(s, f, args) ==
  LET own == f \in DOMAIN s.table /\ s.table[f].kind = "fn"
      arity == IF own THEN {Len(s.fns[s.table[f].index].formals)} ELSE {}
  IN  IF f \in DOMAIN CoreArity
      THEN Judged(CoreResult(f), Latest(args), HasSim(args) \/ Len(args) \notin CoreArity[f])
      ELSE Judged(IF own THEN s.table[f].ty ELSE "float", Latest(args), HasSim(args) \/ Len(args) \notin arity)

\* Arguments are compared by their widths; an accessor asks about this pixel.
JudgeMethod(base, m, args) ==
  IF base.ty # "sim" \/ m \notin DOMAIN Accessors THEN Judged("float", PerPixel, TRUE)
  ELSE Judged(Accessors[m].gives, PerPixel,
              Widths([k \in DOMAIN args |-> args[k].ty]) # Widths(Accessors[m].takes))

JudgeBinary(op, l, r) ==
  LET rate == Latest(<<l, r>>)
      clash == Width(l.ty) # Width(r.ty) /\ 1 \notin {Width(l.ty), Width(r.ty)}
  IN  IF op \in Comparisons THEN Judged("bool", rate, HasSim(<<l, r>>))
      ELSE Judged(IF Width(l.ty) >= Width(r.ty) THEN l.ty ELSE r.ty, rate, HasSim(<<l, r>>) \/ clash)

JudgeOf(s, e, js) ==
  CASE e[1] \in {"Number", "Str"} -> Judged("float", Once, FALSE)
    [] e[1] = "Color" -> Judged("color", Once, FALSE)
    [] e[1] = "Ident" -> JudgeName(s, e[2])
    [] e[1] = "Field" -> JudgeField(s, js[1], e[3])
    [] e[1] = "Call" -> JudgeCall(s, e[2], js)
    [] e[1] = "MethodCall" -> JudgeMethod(js[1], e[3], Tail(js))
    [] e[1] = "Binary" -> JudgeBinary(e[2], js[1], js[2])
    [] e[1] = "Unary" -> IF e[2] = "!" THEN Judged("bool", js[1].rate, FALSE) ELSE Judged(js[1].ty, js[1].rate, FALSE)

\* What is wrong with the operands, and what they read, is the whole's too.
WithOperands(j, js) ==
  [j EXCEPT !.wrong = @ \/ \E k \in DOMAIN js : js[k].wrong, !.used = @ \cup UNION {js[k].used : k \in DOMAIN js}]
JudgeFrom(s, e, js) == WithOperands(JudgeOf(s, e, js), js)

RECURSIVE Judge(_, _), JudgeAll(_, _)
Judge(s, e) == JudgeFrom(s, e, JudgeAll(s, Operands(e)))
JudgeAll(s, es) == [k \in DOMAIN es |-> Judge(s, es[k])]

\* const_value: how many lanes a constant fills.
NotConstant == -1
RECURSIVE ConstLanes(_)
ConstLanes(e) ==
  CASE e[1] = "Number" -> 1 [] e[1] = "Color" -> 3
    [] e[1] = "Unary" /\ e[2] = "-" -> ConstLanes(e[3])
    [] e[1] = "Call" /\ e[2] \in {"rgb", "vec3"} /\ (\A k \in DOMAIN e[3] : ConstLanes(e[3][k]) > 0) -> Len(e[3])
    [] OTHER -> NotConstant

-----------------------------------------------------------------------------
(* The table *)

Symbol(kind, ty, rate) == [kind |-> kind, ty |-> ty, rate |-> rate, index |-> 0]

Complain(s, bad) == [s EXCEPT !.wrong = @ \/ bad]
Declare(s, name, symbol) ==
  IF name \in DOMAIN s.table THEN Complain(s, TRUE) ELSE [s EXCEPT !.table = @ @@ (name :> symbol)]

StayDeclared(s, names) == s
Withdraw(s, names) == [s EXCEPT !.table = Restrict(@, DOMAIN @ \ names)]

KindOf(s, name) == IF name \in DOMAIN s.table THEN s.table[name].kind ELSE ""

Heed(s, j) == [s EXCEPT !.wrong = @ \/ j.wrong, !.used = @ \cup j.used]
Check(s, e) == Heed(s, Judge(s, e))

\* A binding, checked before its name is declared.
BindAs(s, b, j) == Declare(Heed(s, j), b.name, Symbol("let", j.ty, j.rate))
Bind(s, b) == BindAs(s, b, Judge(s, b.value))

NamesOf(bindings) == {bindings[k].name : k \in DOMAIN bindings}

-----------------------------------------------------------------------------
(* Declarations *)

Defaulting(option, value) == IF option = <<>> THEN value ELSE option[1]

DeclareFn(s, k) ==
  Declare(s, s.fns[k].name, [Symbol("fn", Defaulting(s.fns[k].ret, "float"), Once) EXCEPT !.index = k])

\* Who is called in an expression, and by the functions of some names.
RECURSIVE Callees(_)
Callees(e) ==
  (IF e[1] = "Call" THEN {e[2]} ELSE {})
    \cup UNION {Callees(Operands(e)[k]) : k \in DOMAIN Operands(e)}
CalledBy(fns, names) ==
  UNION {Callees(fns[k].result[1]) \cup UNION {Callees(fns[k].lets[i].value) : i \in DOMAIN fns[k].lets} :
           k \in {k \in DOMAIN fns : fns[k].name \in names}}

RECURSIVE Reached(_, _)
Reached(fns, names) ==
  LET more == names \cup CalledBy(fns, names) IN IF more = names THEN names ELSE Reached(fns, more)

CallsItself(fns, name) == name \in Reached(fns, CalledBy(fns, {name}))

DeclareParam(s, p) ==
  Declare(Complain(s, (p.ty = "float" /\ p.lo = <<>>) \/ ConstLanes(p.default[1]) = NotConstant),
          p.name, Symbol("param", p.ty, Once))

DeclareChannel(s, c) ==
  Declare(s, c.name, Symbol("channel", IF c.ty[1] \in {"vec3", "sim"} THEN c.ty[1] ELSE "float", PerFrame))

\* The arguments of a sim are numbers, and one of them says how many elements.
UnusableArg(a) == a[2][1] # "Number" \/ (a[1] = "count" /\ a[2][2] < One)
DeclareSim(s, x) ==
  Declare(Complain(s, (\E k \in DOMAIN x.args : UnusableArg(x.args[k]))
                        \/ \A k \in DOMAIN x.args : x.args[k][1] # "count"),
          x.name, Symbol("sim", "sim", PerFrame))

DeclareState(s, x) == Declare(s, x.name, Symbol("state", "color", PerPixel))

\* An effect's let, remembered with its rate.
Remember(s, b, j) == [BindAs(s, b, j) EXCEPT !.lets = Append(@, [of |-> b, rate |-> j.rate, used |-> FALSE])]
DeclareLet(s, b) == Remember(s, b, Judge(s, b.value))

MaskAs(s, b, j) == Declare(Heed(s, j), b.name, Symbol("mask", "bool", j.rate))
DeclareMask(s, b) == MaskAs(s, b, Judge(s, b.value))

-----------------------------------------------------------------------------
(* Layers and sims *)

\* A layer gives colour to color, or to a state.
Assigned(s, states, a, j) ==
  Complain(Heed(s, j),
    \/ a.target \notin {"color"} \cup states
    \/ a.target = "color" /\ a.field = "" /\ j.ty \notin {"color", "vec3"})
CheckAssign(s, states, a) == Assigned(s, states, a, Judge(s, a.value))

CheckLayer(s, states, l) ==
  LET masked == Complain(s, l.mask # <<>> /\ KindOf(s, l.mask[1]) # "mask")
      bound == FoldLeft(Bind, masked, l.lets)
      assigned == FoldLeft(LAMBDA r, a : CheckAssign(r, states, a), bound, l.assigns)
      left == Withdraw(Complain(assigned, \A k \in DOMAIN l.assigns : l.assigns[k].target # "color"),
                       NamesOf(l.lets))
  IN  FoldLeft(Check, left, l.opacity)

\* The fields a sim's statements set, or read from a name.
RECURSIVE ReadIn(_), FieldsIn(_)
ReadIn(e) ==
  (IF e[1] = "Field" /\ e[2][1] = "Ident" THEN {e[3]} ELSE {})
    \cup UNION {ReadIn(Operands(e)[k]) : k \in DOMAIN Operands(e)}
FieldsIn(stmts) ==
  UNION {LET x == stmts[k]
         IN  CASE x.kind = "let" -> ReadIn(x.value)
               [] x.kind = "assign" -> ReadIn(x.value) \cup (IF x.field = "" THEN {} ELSE {x.field})
               [] x.kind = "if" -> FieldsIn(x.then \o x.otherwise)
               [] x.kind = "foreach" -> FieldsIn(x.stmts) : k \in DOMAIN stmts}

Local(s, name) == [s EXCEPT !.local = @ \cup {name}]

RECURSIVE CheckStmts(_, _, _)
CheckStmt(s, sim, x) ==
  CASE x.kind = "let" -> Local(BindAs(s, x, [Judge(s, x.value) EXCEPT !.rate = PerFrame]), x.name)
    [] x.kind = "assign" ->
         Complain(Check(s, x.value),
                  IF x.field = "" THEN KindOf(s, x.target) = "" ELSE KindOf(s, x.target) # "element")
    [] x.kind = "if" -> CheckStmts(CheckStmts(Check(s, x.cond), sim, x.then), sim, x.otherwise)
    [] x.kind = "foreach" ->
         CheckStmts(Local(Declare(Complain(s, x.over # sim), x.binding, Symbol("element", "element", PerFrame)),
                          x.binding),
                    sim, x.stmts)
CheckStmts(s, sim, stmts) == FoldLeft(LAMBDA r, x : CheckStmt(r, sim, x), s, stmts)

WithdrawLocal(s) == [Withdraw(s, s.local) EXCEPT !.fields = {}]
CheckSim(s, x) ==
  WithdrawLocal(CheckStmts([s EXCEPT !.fields = FieldsIn(x.stmts), !.local = {}], x.name, x.stmts))

\* Only at the end is it known which lets anything reads.
Settled(s) ==
  LET settle(l) == [l EXCEPT !.used = l.of.name \in s.used]
  IN  [s EXCEPT !.lets = [k \in DOMAIN s.lets |-> settle(s.lets[k])]]

-----------------------------------------------------------------------------
(* Files *)

LanguageVersion == 1
DefaultStdlib == 1

DeclsOf(file, kind) == SelectSeq(file.decls, LAMBDA d : d.kind = kind)
Effect(file) == Head(DeclsOf(file, "effect"))

Stdlib(effect) == Defaulting(effect.stdlib, DefaultStdlib) % 65536

Start(effect) ==
  [table |-> <<>>, used |-> {}, lets |-> <<>>, wrong |-> FALSE, fns |-> effect.fns,
   grid |-> "grid" \in ToSet(effect.requires), fields |-> {}, local |-> {}]

Declared(effect, palettes, curves) ==
  LET named(s, kind, ds) == FoldLeft(LAMBDA r, d : Declare(r, d.name, Symbol(kind, kind, Once)), s, ds)
      libs == named(named(Start(effect), "palette", palettes), "curve", curves)
      fns == FoldLeft(DeclareFn, libs, [k \in DOMAIN effect.fns |-> k])
      params == FoldLeft(DeclareParam,
                         Complain(fns, \E n \in NamesOf(effect.fns) : CallsItself(effect.fns, n)), effect.params)
      sims == FoldLeft(DeclareSim, FoldLeft(DeclareChannel, params, effect.channels), effect.sims)
  IN  FoldLeft(DeclareState, sims, effect.states)

Checked(s, effect) ==
  LET masks == FoldLeft(DeclareMask, FoldLeft(DeclareLet, s, effect.lets), effect.masks)
      layers == FoldLeft(LAMBDA r, l : CheckLayer(r, NamesOf(effect.states), l), masks, effect.layers)
      states == FoldLeft(LAMBDA r, x : Check(Complain(r, x.ty # "color"), x.init), layers, effect.states)
  IN  FoldLeft(CheckSim, states, effect.sims)

Resolve(effect, palettes, curves) ==
  Settled(Complain(Checked(Declared(effect, palettes, curves), effect),
                   effect.layers = <<>> \/ Len(effect.states) > 1 \/ effect.fps = <<0>>))

\* link_stdlib: the library's functions first, then the file's, then the effect's own.
Linked(effect, file) ==
  [effect EXCEPT !.fns = Library[Stdlib(effect)].fns \o DeclsOf(file, "fn") \o @]

Refused == <<>>
Resolves(file) ==
  /\ file.version = LanguageVersion
  /\ DeclsOf(file, "effect") # <<>>
  /\ Stdlib(Effect(file)) \in DOMAIN Library

Palettes(file) == DeclsOf(file, "palette") \o Library[Stdlib(Effect(file))].palettes

\* compile, to where code is generated: the effect and what is known of it.
Ruling(effect, s) == IF s.wrong THEN Refused ELSE <<effect, s>>
CompileWith(effect, file) == Ruling(effect, Resolve(effect, Palettes(file), DeclsOf(file, "curve")))
Compile(file) == IF Resolves(file) THEN CompileWith(Linked(Effect(file), file), file) ELSE Refused

-----------------------------------------------------------------------------
(* The names the emitter looks up.  It keeps a list of its own, bound, of   *)
(* what is in a register where it has come to; lost is what it looked up   *)
(* and should have found there, or found nowhere.                          *)

\* Palettes and sims are named, not looked up as values.
RECURSIVE Sought(_)
Sought(e) ==
  CASE e[1] = "Ident" -> {e[2]}
    [] e[1] = "Call" /\ e[2] = "palette" -> Sought(e[3][2])
    [] e[1] = "MethodCall" -> UNION {Sought(e[4][k]) : k \in DOMAIN e[4]}
    [] OTHER -> UNION {Sought(Operands(e)[k]) : k \in DOMAIN Operands(e)}

Unbound(m, s, n) == n \notin m.bound /\ n \notin DOMAIN Builtins /\ KindOf(s, n) \in {"", "let"}
LookUp(m, s, e) == [m EXCEPT !.lost = @ \cup {n \in Sought(e) : Unbound(m, s, n)}]
Hold(m, s, b) == [LookUp(m, s, b.value) EXCEPT !.bound = @ \cup {b.name}]

\* Effect-level lets: those that are hoisted, then those of every pixel.
HoldLets(m, s, hoisted) ==
  LET emitted == SelectSeq(s.lets, LAMBDA l : l.used /\ (l.rate # PerPixel <=> hoisted))
  IN  FoldLeft(LAMBDA r, l : Hold(r, s, l.of), m, emitted)

\* What a layer evaluates once it has its lets: states, the first color, opacity.
LayerValues(effect, l) ==
  LET values(as) == [k \in DOMAIN as |-> as[k].value]
      states == SelectSeq(l.assigns, LAMBDA a : a.target \in NamesOf(effect.states) \ {"color"})
      colors == SelectSeq(l.assigns, LAMBDA a : a.target = "color")
  IN  values(Append(states, Head(colors))) \o l.opacity

LayerNames(m, s, effect, l) ==
  LET masks == SelectSeq(effect.masks, LAMBDA b : <<b.name>> = l.mask)
      masked == FoldLeft(LAMBDA r, b : LookUp(r, s, b.value), m, masks)
      bound == FoldLeft(LAMBDA r, b : Hold(r, s, b), masked, l.lets)
  IN  [FoldLeft(LAMBDA r, e : LookUp(r, s, e), bound, LayerValues(effect, l)) EXCEPT !.bound = m.bound]

EmittedNames(effect, s) ==
  LET lets == HoldLets(HoldLets([bound |-> {}, lost |-> {}], s, TRUE), s, FALSE)
  IN  FoldLeft(LAMBDA m, l : LayerNames(m, s, effect, l), lets, effect.layers)
=============================================================================
