--------------------------- MODULE MCSubmissions ---------------------------
(***************************************************************************)
(* One guest's uploads for one task, overlapping in every way, while the   *)
(* host moderates, edits and deletes.                                      *)
(***************************************************************************)
EXTENDS Submissions, TLC

CONSTANTS g1, t1, r1, r2

MCTarget == [r \in Requests |-> <<g1, t1>>]
Uploads  == Permutations(Requests)
=============================================================================
