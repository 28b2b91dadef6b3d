------------------------------ MODULE MCEffects ------------------------------
(***************************************************************************)
(* Effects to compile: every expression of a few depths as the colour of a *)
(* single layer, and layers with lets, masks, blends, opacity and state.   *)
(***************************************************************************)
EXTENDS CompiledEffects, MCRender

NoFns == [f \in {} |-> Fn(<<>>, Lit(0))]
Wave == [f \in {"wave"} |-> Fn(<<"k">>, Bin("Mul", Ref("k"), Bin("Add", Ref("k"), Lit(1))))]
Here == [f \in {"here"} |-> Fn(<<>>, In("u"))]

Plain(color) == Layer(<<>>, <<>>, "normal", <<>>, <<>>, color)
OneLayer(color) == Effect(Wave, <<>>, <<Plain(color)>>)

\* Scalars: a constant and a built-in, and what one step makes of them.
Leaves == {Lit(3), In("u")}
Sums == {Bin("Add", l, r) : l \in Leaves, r \in Leaves} \cup
        {Bin("Rem", In("u"), Lit(3)), Bin("Ne", Lit(3), In("u"))}
Scalars == Leaves \cup Sums \cup
           {Call("round", <<In("u")>>), Call("mod", <<Lit(3), In("t")>>),
            Call("clamp", <<In("u"), Lit(1), Lit(2)>>), Apply("wave", <<Lit(3)>>)}
Few == Leaves \cup {Bin("Add", Lit(3), In("u")), Call("mod", <<Lit(3), In("t")>>)}
Fewer == {In("u"), Bin("Add", Lit(3), In("u"))}
Scaled(x) == Bin("Mul", x, Call("rgb", <<Lit(2), In("u"), In("t")>>))

Nested == {Bin(op, l, r) : op \in {"Sub", "Rem", "Ne"}, l \in Fewer, r \in Scalars}
Triples == {Call(f, <<a, b, c>>) : f \in {"clamp", "mix", "smoothstep", "noise3"},
                                  a \in Fewer, b \in Fewer, c \in Few}
Pairs == {Call(f, <<a, b>>) : f \in {"min", "step", "mod", "distance"}, a \in Fewer, b \in Few}

\* The intensity of temp is one that needs no register of its own.
Expressions ==
  {Scaled(x) : x \in Nested \cup Triples \cup Pairs} \cup
  {Call(f, <<a, b, c>>) : f \in {"rgb", "hsv"}, a \in Fewer, b \in Fewer, c \in Fewer} \cup
  {Call("palette", <<a>>) : a \in Few} \cup
  {Call("temp", <<a, In("u")>>) : a \in Scalars} \cup
  {Call("normalize", <<Scaled(a)>>) : a \in Few} \cup
  {Scaled(Call("distance", <<In("prev"), Scaled(a)>>)) : a \in Few}

AllExpressions == {OneLayer(x) : x \in Expressions}

-----------------------------------------------------------------------------

Rgb(x) == Call("rgb", <<x, In("t"), Lit(2)>>)
Lit1 == Bin("Gt", In("i"), Lit(0))

\* Chains of layer lets, so that registers die and are handed out again.
LetChains ==
  {<<>>, <<Let("a", In("u"))>>} \cup
  {<<Let("a", x), Let("b", y), Let("c", z)>> :
     x \in {In("u"), In("prev")},
     y \in {Bin("Add", Ref("a"), Lit(1)), In("t")},
     z \in {Bin("Add", Ref("b"), Ref("a")), Bin("Mul", Ref("b"), Lit(1)), Ref("a")}}

LetColors(lets) ==
  LET names == {lets[j].name : j \in DOMAIN lets}
  IN  {Bin("Mul", Rgb(In("u")), Ref(n)) : n \in names} \cup
      {Bin("Add", In("prev"), Ref(n)) : n \in names} \cup {Rgb(In("u"))}

Locals == UNION {{Layer(lets, <<>>, "normal", <<>>, <<>>, c) : c \in LetColors(lets)} : lets \in LetChains}

Blends == {"normal", "add", "difference", "screen", "overlay"}
Trails == {<<>>, <<Bin("Mul", In("prev"), Lit(1))>>, <<Rgb(Ref(State))>>}
Overlays ==
  {Layer(<<Let("a", Bin("Add", In("u"), Ref("slow")))>>, mask, blend, <<>>, trail, color) :
     mask \in {<<>>, <<Lit1>>}, blend \in Blends, trail \in Trails,
     color \in {Ref(State), Rgb(Ref("a"))}} \cup
  {Layer(<<>>, mask, "normal", <<Ref("slow")>>, trail, Rgb(Ref("per"))) :
     mask \in {<<>>, <<Lit1>>}, trail \in Trails}

\* One let the compiler hoists and one it cannot.
Shared(slow) == <<Let("slow", slow), Let("per", Bin("Add", In("u"), Ref("slow")))>>

LetEffects == {Effect(NoFns, <<>>, <<y, Plain(Rgb(In("u")))>>) : y \in Locals}
LayerEffects ==
  {Effect(NoFns, Shared(slow), <<Plain(Rgb(Lit(1))), y>>) :
     slow \in {Bin("Mul", In("t"), Lit(1)), Bin("Mul", In("dt"), Lit(1))}, y \in Overlays}


-----------------------------------------------------------------------------
(* Simulations of two elements, with accessors that read them. *)

Pos == Elem("p", "pos")
Vel == Elem("p", "vel")
Move == SetField("p", "pos", Bin("Add", Pos, Vel))
Fall == SetField("p", "vel", Bin("Sub", Vel, Bin("Mul", In("t"), Lit(1))))
Stop == SetField("p", "vel", Lit(0))
Low == Bin("Lt", Pos, Lit(0))
Late == Bin("Gt", In("t"), Lit(3))

\* Branches with and without else, in one another and round a loop.
Bounces ==
  {If(Low, then, otherwise) : then \in {<<Stop>>, <<Fall, Move>>}, otherwise \in {<<>>, <<Move>>, <<Fall, Stop>>}} \cup
  {If(Late, <<If(Low, <<Stop>>, <<Move>>)>>, <<Fall>>), If(Low, <<Move>>, <<If(Late, <<Stop>>, <<Fall>>)>>)}

Loops == {ForEach("p", body) : body \in {<<Move>>, <<Fall, Move>>, <<SetField("p", "age", In("t")), Move>>} \cup
                                         {<<b, Move>> : b \in Bounces}}

\* A let that the loop adds to, and reads.
Sum == Local("sum", Bin("Mul", In("t"), Lit(1)))
AddUp == ForEach("p", <<SetLocal("sum", Bin("Add", Ref("sum"), Pos)), SetField("p", "pos", Ref("sum"))>>)

Bodies == {<<>>} \cup {<<loop>> : loop \in Loops} \cup
          {<<Sum, AddUp>>, <<Sum, Local("kick", Call("rgb", <<In("t"), Ref("sum"), Lit(2)>>)),
                             ForEach("p", <<SetField("p", "vel", Bin("Add", Vel, Ref("kick"))), Move>>)>>,
           <<If(Late, <<ForEach("p", <<Fall>>)>>, <<ForEach("p", <<Stop>>)>>), ForEach("p", <<Move>>)>>}

Point == Call("rgb", <<In("u"), Lit(0), Lit(2)>>)
Asking ==
  {Rgb(Ask("nearest", <<Point>>)), Ask("field", <<Point>>),
   Bin("Mul", Rgb(Lit(1)), Ask("influence", <<Point, Bin("Add", In("u"), Lit(1))>>))}

SimEffects ==
  {WithSim(Effect(NoFns, <<>>, <<Plain(c)>>), Sim(2, <<ForEach("p", <<Move>>)>>)) : c \in Asking} \cup
  {WithSim(Effect(NoFns, <<>>, <<Plain(Ask("field", <<Point>>))>>), Sim(n, body)) : n \in {1, 2}, body \in Bodies}

AllEffects == AllExpressions \cup LetEffects \cup LayerEffects \cup SimEffects

AllPrograms == SmallPrograms \cup UNION {Compile(e) : e \in AllEffects}

-----------------------------------------------------------------------------
(* Effects the compiler accepts and gets wrong. *)

\* The intensity of temp needs a register of its own.
ComputedIntensity == Compile(OneLayer(Call("temp", <<Lit(3), Lit(1)>>)))

\* The bottom layer is masked: where it is dark there is nothing under it.
MaskedBase ==
  Compile(Effect(NoFns, <<>>, <<Layer(<<>>, <<Bin("Gt", In("i"), Lit(0))>>, "normal", <<>>, <<>>,
                                      Rgb(In("u")))>>))

\* The bottom layer adds.
AddedBase == Compile(Effect(NoFns, <<>>, <<Layer(<<>>, <<>>, "add", <<>>, <<>>, Rgb(In("u")))>>))

\* A let calls a function that reads where the pixel is.
HoistedFn == Compile(Effect(Here, <<Let("w", Apply("here", <<>>))>>, <<Plain(Rgb(Ref("w")))>>))

\* A simulation with a let in a loop, one with a let in an arm, one that reads
\* dt, and one that reads a let of the effect.
Stepping(lets, body) ==
  Compile(WithSim(Effect(NoFns, lets, <<Plain(Ask("field", <<Point>>))>>), Sim(2, body)))
LetInLoop == Stepping(<<>>, <<ForEach("p", <<Local("k", Bin("Mul", In("t"), Lit(1))),
                                             SetField("p", "pos", Bin("Add", Pos, Ref("k")))>>)>>)
LetInArm == Stepping(<<>>, <<If(Late, <<Local("k", In("t"))>>, <<ForEach("p", <<Move>>)>>)>>)
StepByDt == Stepping(<<>>, <<ForEach("p", <<SetField("p", "pos", Bin("Add", Pos, In("dt")))>>)>>)
StepByLet == Stepping(<<Let("k", Bin("Mul", In("t"), Lit(1)))>>,
                      <<ForEach("p", <<SetField("p", "pos", Bin("Add", Pos, Ref("k")))>>)>>)

\* It reads dt, and fits only without a register for it.
AtTheLimit ==
  LET three(x) == Call("rgb", <<x, In("t"), In("t")>>)
      scaled == Bin("Mul", In("dt"), Lit(1))
  IN  Compile(Effect(NoFns,
         <<Let("a", three(In("t"))), Let("b", three(In("dt"))), Let("c", three(Lit(1))),
           Let("d", scaled), Let("e", scaled)>>,
         <<Plain(three(Ref("d"))), Plain(three(Ref("e"))), Plain(Ref("c")),
           Plain(Bin("Add", Ref("a"), Ref("b")))>>))
=============================================================================
