---------------------------- MODULE Simulations -----------------------------
(***************************************************************************)
(* The sim block of an effect: its fields (resolve.rs), what one step of   *)
(* it means, and the program the sim master runs (emit.rs), whose loops    *)
(* are unrolled and whose branches are MASKTESTs.  And with that the whole *)
(* compiler, which makes one program for the pixels and one for the sim.   *)
(***************************************************************************)
EXTENDS Emit

\* The fields a simulation may have, in the order of their names.
FieldNames == <<"age", "pos", "vel">>

RECURSIVE ReadFields(_)
ReadFields(x) ==
  CASE x.kind = "elem" -> {x.field}
    [] x.kind = "field" -> ReadFields(x.arg)
    [] x.kind = "bin" -> ReadFields(x.l) \cup ReadFields(x.r)
    [] x.kind \in {"call", "ask"} -> UNION {ReadFields(a) : a \in Elems(x.args)}
    [] OTHER -> {}

RECURSIVE SetFields(_)
SetFields(body) ==
  UNION {CASE st.kind = "if" -> SetFields(st.then) \cup SetFields(st.otherwise)
           [] st.kind = "each" -> SetFields(st.body)
           [] st.kind = "set" -> {st.field}
           [] OTHER -> {} : st \in Elems(body)}

\* collect_fields: all that the body assigns or reads, but in its conditions.
\* The array of a field is its place; that of pos is exchanged with the first.
Fields(sim) ==
  LET all == SetFields(sim.body) \cup UNION {ReadFields(x) : x \in Values(sim.body)}
      sorted == SelectSeq(FieldNames, LAMBDA f : f \in all)
      at == {j \in DOMAIN sorted : sorted[j] = "pos"}
  IN  [j \in DOMAIN sorted |-> IF j = 1 /\ at # {} THEN "pos"
                               ELSE IF j \in at THEN sorted[1] ELSE sorted[j]]

\* The arrays a shell keeps for a simulation: three words an element.  One that
\* is only declared has positions.
Elements(effect) ==
  IF effect.sim = <<>> THEN NoArrays
  ELSE [a \in 1..Max({1, Len(Fields(effect.sim[1]))}) |->
          [w \in 1..(3 * effect.sim[1].count) |-> <<"E", a, w>>]]

-----------------------------------------------------------------------------
(* What a step means: the statements in order, on the elements themselves. *)

\* Names declared in an arm or a loop end with it.
Leave(s, inner) == [inner EXCEPT !.env = [n \in DOMAIN s.env |-> inner.env[n]]]

Words(k) == {3 * k + 1, 3 * k + 2, 3 * k + 3}
Wide(v) == [lane \in 1..3 |-> Pick(v, lane)]

\* Element k under a name, and what was assigned to it put back.
Visit(s, of, k, fields) ==
  [s EXCEPT !.env = FoldLeft(LAMBDA env, a : With(env, FieldName(of, fields[a]), SubSeq(s.bank[a], 3 * k + 1, 3 * k + 3)),
                             @, [a \in DOMAIN fields |-> a])]

PutBack(s, of, k, fields) ==
  [s EXCEPT !.bank = [a \in DOMAIN @ |-> [w \in DOMAIN @[a] |->
     IF w \in Words(k) /\ a \in DOMAIN fields THEN s.env[FieldName(of, fields[a])][w - 3 * k]
     ELSE @[a][w]]]]

\* An assignment keeps the lanes the name has.
Assigned(old, v) == [lane \in DOMAIN old |-> IF lane <= Len(v) THEN v[lane] ELSE old[lane]]

RECURSIVE Runs(_, _, _, _)
Runs(s, body, sim, fns) ==
  LET does(r, st) ==
        CASE st.kind = "let" -> [r EXCEPT !.env = With(@, st.name, Meaning(st.value, @, fns))]
          [] st.kind = "assign" ->
               [r EXCEPT !.env = With(@, st.name, Assigned(@[st.name], Meaning(st.value, @, fns)))]
          [] st.kind = "set" ->
               [r EXCEPT !.env = With(@, FieldName(st.of, st.field), Wide(Meaning(st.value, @, fns)))]
          [] st.kind = "if" ->
               Leave(r, IF IsZero(Meaning(st.cond, r.env, fns)[1]) THEN Runs(r, st.otherwise, sim, fns)
                        ELSE Runs(r, st.then, sim, fns))
          [] st.kind = "each" ->
               FoldLeft(LAMBDA q, k : Leave(q, PutBack(Runs(Visit(q, st.binding, k, Fields(sim)),
                                                            st.body, sim, fns),
                                                       st.binding, k, Fields(sim))),
                        r, [k \in 1..sim.count |-> k - 1])
  IN  FoldLeft(does, s, body)

\* One step of an effect's simulation at a time, with the lets that have a value by then.
SimMeaning(effect, bank, t, dt) ==
  LET rates == LetRates(effect)
      lets == SelectSeq(effect.lets, LAMBDA l : rates[l.name] # "pixel")
      inputs == [n \in {"t", "dt"} |-> IF n = "t" THEN <<<<"T", t>>>> ELSE <<<<"DT", dt>>>>]
      env == FoldLeft(LAMBDA e, l : With(e, l.name, Meaning(l.value, e, effect.fns)), inputs, lets)
  IN  IF effect.sim = <<>> THEN bank
      ELSE Runs([env |-> env, bank |-> bank], effect.sim[1].body, effect.sim[1], effect.fns).bank

-----------------------------------------------------------------------------
(* Its program.  In an emitter for it, frame is the sim's code. *)

Code(e, instructions) == Push(e, "frame", instructions)

\* The first width lanes of src into those of dst, moved or not.
Moves(dst, src, width) == [k \in 1..width |-> Ins("Mov", dst.base + k - 1, Lane(src, k - 1), 0)]

\* A let's register is taken beside the scratch, not above it.
KeepLet(p, v, name) == Bind(Code(p.e, Moves(p.v, v, v.width)), name, p.v)
LowerLocalLet(s, name) == KeepLet(Permanent(s.e, s.v.width), s.v, name)

Into(s, dst, width) == Code(s.e, Moves(dst, s.v, width))

\* patch_skip: a false condition skips the then arm, and the jump that ends it
\* if there is one.
\* Mistake: the jump is not counted, and is taken to be the else arm's first.
SkipWithoutJump(then, otherwise) == Len(then)

SkipThen(then, otherwise) == IF otherwise = <<>> THEN Len(then) ELSE Len(then) + 1

\* A register that holds zero makes MASKTEST a jump over the else arm.
Branch(cond, zero, then, otherwise) ==
  <<Ins("MaskTest", cond, SkipThen(then, otherwise), 0)>> \o then \o
  IF otherwise = <<>> THEN <<>> ELSE <<Ins("MaskTest", zero, Len(otherwise), 0)>> \o otherwise

\* Load and store of an element's fields, by one index register.
ElementCode(idx, slot, k, fields, word(_, _)) ==
  FlattenSeq([n \in 1..(3 * Len(fields)) |->
    LET a == (n - 1) \div 3
        lane == (n - 1) % 3
    IN  <<Ins("LoadK", idx, 2 * (3 * k + lane), 0), word(a, slot + n - 1)>>])

BindFields(e, of, slot, fields) ==
  [e EXCEPT !.bound = @ \o [a \in DOMAIN fields |->
     [name |-> FieldName(of, fields[a]), val |-> Val(slot + 3 * (a - 1), 3)]]]

RECURSIVE LowerBody(_, _, _, _)

\* sim_if, with the arms' code apart until their lengths are known: c is the
\* condition, after the register at e.temp was given the zero.
LowerIf(e, c, st, sim, fns) ==
  LET apart(s) == [s EXCEPT !.frame = <<>>]
      joined(then, otherwise) ==
        ReleaseTo([otherwise EXCEPT
          !.frame = c.e.frame \o Branch(c.v.base, e.temp, then.frame, otherwise.frame)], e.temp)
      arms(then) ==
        The({joined(then, s) : s \in {LowerBody(apart(then), st.otherwise, sim, fns)}})
  IN  The({arms(s) : s \in {LowerBody(apart(c.e), st.then, sim, fns)}})

\* sim_element: all fields in, the body, all fields out.
LowerElement(e, st, k, sim, fns) ==
  LET fields == Fields(sim)
      code(s, idx, slot, word(_, _)) == Code(s, ElementCode(idx, slot, k, fields, word))
      loaded(s, idx, slot) ==
        BindFields(code(s, idx, slot, LAMBDA a, r : Ins("ALoad", r, a, idx)), st.binding, slot, fields)
      stored(s, idx, slot) ==
        ReleaseTo([code(s, idx, slot, LAMBDA a, r : Ins("AStore", a, idx, r)) EXCEPT !.bound = e.bound],
                  e.temp)
      inside(idx, slots) ==
        The({stored(s, idx, slots.v.base) :
               s \in {LowerBody(loaded(slots.e, idx, slots.v.base), st.body, sim, fns)}})
      with(idx) == inside(idx.v.base, Temp(idx.e, 3 * Len(fields)))
  IN  with(Temp(e, 1))

\* What a statement works out first; an if takes a zero to jump with before it.
First(e, st, fns) ==
  Lower(IF st.kind = "if" THEN Constant(e, "frame", 0).e ELSE e, "frame",
        IF st.kind = "if" THEN st.cond ELSE st.value, fns)

\* What it then does with it.
Do(e, s, st, sim, fns) ==
  LET assign(dst) == Into(s, dst, Min({dst.width, s.v.width}))
  IN  CASE st.kind = "let" -> LowerLocalLet(s, st.name)
        [] st.kind = "assign" -> assign(FirstBound(e, st.name))
        [] st.kind = "set" -> Into(s, FirstBound(e, FieldName(st.of, st.field)), 3)
        [] st.kind = "if" -> LowerIf(e, s, st, sim, fns)

LowerStatement(e, st, sim, fns) ==
  IF st.kind = "each"
  THEN FoldLeft(LAMBDA s, k : LowerElement(s, st, k, sim, fns), e, [k \in 1..sim.count |-> k - 1])
  ELSE The({Do(e, s, st, sim, fns) : s \in {First(e, st, fns)}})

LowerBody(e, body, sim, fns) ==
  IF body = <<>> THEN e
  ELSE The({LowerBody(s, Tail(body), sim, fns) : s \in {LowerStatement(e, Head(body), sim, fns)}})

\* A sim's file of registers starts after the show time.
EmitSim(e, effect) ==
  IF effect.sim = <<>> THEN [e EXCEPT !.frame = <<>>]
  ELSE LowerBody([e EXCEPT !.frame = <<>>, !.perm = R_T + 1, !.floor = R_T + 1, !.temp = R_T + 1],
                 effect.sim[1].body, effect.sim[1], effect.fns)

-----------------------------------------------------------------------------
(* Compiling *)

\* The pixels' program, then the simulation's.
EmitAll(effect, base) ==
  The({[pixels |-> e, sim |-> EmitSim(e, effect)] : e \in {EmitFrom(effect, base)}})

\* Mistake: scratch starts at the register of dt, read or not.
FirstScratchAlwaysLow(probe) == R_SCRATCH_NO_DT

\* The probe pass: dt has a register in an effect that reads it, and fits with one.
FirstScratch(probe) == IF probe.sim.dt /\ ~probe.sim.failed THEN R_SCRATCH ELSE R_SCRATCH_NO_DT

Program(all, effect) ==
  [once |-> <<>>, frame |-> all.pixels.frame, pixel |-> all.pixels.pixel, sim |-> all.sim.frame,
   readsDt |-> all.sim.dt, elements |-> Elements(effect), effect |-> effect]

\* What an effect compiles to: one program, or none if it needs more registers.
Compile(effect) ==
  LET from == {[base \in {R_SCRATCH, R_SCRATCH_NO_DT} |-> EmitAll(effect, base)]}
      made == {emitted[FirstScratch(emitted[R_SCRATCH])] : emitted \in from}
  IN  {Program(all, effect) : all \in {a \in made : ~a.sim.failed}}
=============================================================================
