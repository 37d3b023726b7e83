------------------------------- MODULE MCSync -------------------------------
(* The names of two consecutive synchronisations: different, and the same. *)
EXTENDS Sync
CONSTANTS n1, n2
TwoNames == {n1, n2}
Distinct == <<n1, n2>>
Reused == <<n1, n1>>
=============================================================================
