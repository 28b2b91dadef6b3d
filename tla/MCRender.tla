------------------------------ MODULE MCRender ------------------------------
(***************************************************************************)
(* Every small program over a handful of registers: one scratch register,  *)
(* and the register that is dt or scratch.                                 *)
(***************************************************************************)
EXTENDS Render

S == R_SCRATCH

OnceSections == {<<>>, <<Ins("LoadK", S, 3, 0)>>, <<Ins("LoadK", R_DT, 3, 0)>>}

FrameSections ==
  {<<>>, <<Ins("Mov", S, R_T, 0)>>, <<Ins("Add", S, R_DT, R_T)>>,
   <<Ins("Mov", R_DT, R_T, 0)>>, <<Ins("ALoad", S, 0, R_T)>>}

\* A grey pixel, so that one register makes a colour.
Grey(r) == Ins("EmitRgb", r, r, r)

PixelSteps ==
  {Ins("Add", S, R_U, R_T), Ins("Add", S, S, R_U), Ins("Mov", S, R_PREV, 0),
   Grey(S), Grey(R_DT), Ins("PrevWrite", R_PREV, 0, 0), Ins("PrevWrite", R_T, 0, 0),
   Ins("MaskTest", R_I, 1, 0), Ins("Div", S, R_T, R_I), Ins("EmitCct", S, R_U, 0)}

PixelSections ==
  {Append(code, Grey(S)) : code \in UNION {[1..n -> PixelSteps] : n \in 0..2}}
    \cup [1..2 -> PixelSteps]

\* A once section, a frame section, or two that write the same register.
Preparations ==
  {<<o, f>> \in OnceSections \X FrameSections :
     o = <<>> \/ f = <<>> \/ Targets(o[1]) = Targets(f[1])}

\* Whether the header says the program reads dt matters to those that name it.
Names(code, r) == \E k \in DOMAIN code : r \in {code[k].a, code[k].b, code[k].c}

SmallPrograms ==
  {q \in [once : OnceSections, frame : FrameSections, pixel : PixelSections, sim : {<<>>},
           readsDt : BOOLEAN, elements : {<<>>}] :
     /\ <<q.once, q.frame>> \in Preparations
     /\ SkipsLand(q.pixel)
     /\ q.readsDt => Names(q.once \o q.frame \o q.pixel, R_DT)}

\* A trail in plain prev.
Trail ==
  {[once |-> <<>>, frame |-> <<>>, sim |-> <<>>, readsDt |-> FALSE, elements |-> <<>>,
    pixel |-> <<Ins("Add", S, R_PREV, R_U), Grey(S)>>]}

\* A constant made ready on activation.
Prepared ==
  {[once |-> <<Ins("LoadK", S, 3, 0)>>, frame |-> <<>>, sim |-> <<>>,
    readsDt |-> FALSE, elements |-> <<>>,
    pixel |-> <<Grey(S)>>]}
=============================================================================
