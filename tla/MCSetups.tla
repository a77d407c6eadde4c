------------------------------- MODULE MCSetups -------------------------------
(* An instance of Setups for TLC: bars of every place, the trend on and off  *)
(* within and around them, with a narrow, a wide and a missing width.        *)
EXTENDS Setups

MCBar(place, stacked, width) == [place |-> place, stacked |-> stacked, width |-> width]

MCBars ==
  {MCBar("clear", TRUE, 3), MCBar("dip", TRUE, 1), MCBar("unknown", FALSE, None),
   MCBar("cross", TRUE, 2), MCBar("beyond", FALSE, 2), MCBar("dip", FALSE, 3)}
================================================================================
