------------------------------ MODULE MCDated ------------------------------
(* Dated for TLC: four days of four ticks, the third without a session. *)
EXTENDS Dated

MCTrading == {0, 1, 3, 4}
=============================================================================
