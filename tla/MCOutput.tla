------------------------------ MODULE MCOutput ------------------------------
(***************************************************************************)
(* Two LEDs at eight fractional bits and sixteen codes.  The supplies are  *)
(* one that covers everything, ones that must derate, one the reserve for  *)
(* rounding uses up and one the idle draw alone exceeds.                   *)
(***************************************************************************)
EXTENDS OutputStage

Lights == {-3, 0, 9, 128, 300}

MCFrames ==
  {<<a, a + 1, b, b, 0, 9>> : a, b \in Lights} \cup {<<a, a, c>> : a, c \in {10, 300}}

MCSupplies ==
  {[channel |-> 150, idle |-> 5, budget |-> b] : b \in {8, 40, 333}}
    \cup {[channel |-> 600, idle |-> 5, budget |-> 700]}
=============================================================================
