------------------------------- MODULE MCGate -------------------------------
(***************************************************************************)
(* Four requests at each of the four gates, sized with a bad limit (-1 and *)
(* 0 stand for one), with one, and with two slots; at most two may wait.   *)
(***************************************************************************)
EXTENDS Gate

MCSizes == {-1, 0, 1, 2}
=============================================================================
