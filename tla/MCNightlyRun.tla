---------------------------- MODULE MCNightlyRun ----------------------------
(* A small instance of NightlyRun for TLC: two visits of one contract, a day apart. *)
EXTENDS NightlyRun, TLC

CONSTANTS v1, v2

ADayApart == [v \in Visits |-> IF v = v1 THEN 1 ELSE 2]
Interchangeable == Permutations(Workers)
=============================================================================
