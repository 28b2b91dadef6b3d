---------------------------- MODULE MCFixedPoint ----------------------------
(***************************************************************************)
(* Ten-bit words with six fractional bits, and the tables gen-tables.py    *)
(* would write for eight steps.                                            *)
(***************************************************************************)
EXTENDS FixedPointMachine

Table(entries) == [k \in 0..8 |-> entries[k + 1]]

MCSin == Table(<<0, 12, 24, 36, 45, 53, 59, 63, 64>>)
MCLog2 == Table(<<0, 11, 21, 29, 37, 45, 52, 58, 64>>)
MCExp2 == Table(<<0, 6, 12, 19, 27, 35, 44, 53, 64>>)
MCAtan == Table(<<0, 8, 16, 23, 30, 36, 41, 46, 50>>)

\* Any values below one will do.
MCHashed(x, y, z) == ((x * 37) + (y * 23) + (z * 51) + (x * y * 11) + 19) % One

MCPalettes == {<<0, 64, 0, 64>>, <<64, 5, 40, 3>>, <<7, 7, 7, 7>>}

\* The ends of the range, both sides of each whole number near zero, and halves.
MCOperands ==
  {MinWord, MinWord + 1, -320, -65, -64, -32, -1, 0, 1, 2, 31, 32, 33, 63, 64, 65, 128,
   300, MaxWord - 1, MaxWord}
=============================================================================
