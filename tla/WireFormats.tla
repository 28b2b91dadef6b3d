---------------------------- MODULE WireFormats -----------------------------
(***************************************************************************)
(* The two formats Lumen puts bytes into: datagrams and program images.    *)
(* Neither codec keeps anything from one to the next, so a behaviour has   *)
(* one datagram or one image.                                              *)
(***************************************************************************)
EXTENDS WireCodec, ProgramImage

FormatsInit == Init /\ ImageInit

Datagrams == damage = "Idle" /\ Next /\ UNCHANGED imageVars
Images == sent = Nothing /\ result = Refused("None") /\ ImageNext /\ UNCHANGED vars

FormatsNext == Datagrams \/ Images

FormatsSpec == FormatsInit /\ [][FormatsNext]_<<vars, imageVars>>
=============================================================================
