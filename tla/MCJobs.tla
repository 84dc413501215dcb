------------------------------- MODULE MCJobs -------------------------------
(* A small instance of Jobs for TLC: one job, and one report a phone keeps replaying. *)
EXTENDS Jobs, TLC

CONSTANTS j1, t1, t2

Alone(t) == [primary |-> t, helpers |-> {}]
SmallCrews == {Alone(t1), Alone(None), [primary |-> t1, helpers |-> {t2}]}

\* The technician left for the site while his phone was offline.
OneReport == {[job |-> j1, to |-> "EN_ROUTE", key |-> 1]}

Interchangeable == Permutations(Workers)
=============================================================================
