------------------------------ MODULE MCProfile ------------------------------
(***************************************************************************)
(* A signup and two edits, or three, with two PINs to choose from.         *)
(***************************************************************************)
EXTENDS Profile, TLC

CONSTANTS r1, r2, r3, p1, p2

Interchangeable == Permutations(Requests) \cup Permutations(Pins)
=============================================================================
