---------------------------- MODULE MCBackOffice ----------------------------
(* A small instance of BackOffice for TLC.  Rows of different desks share     *)
(* their names, so that one permutation serves them all.                     *)
EXTENDS BackOffice, TLC

CONSTANTS a1, a2, b1, b2

\* An individual with a PAN, a small enterprise without an agreement.
OneVendor ==
    {[registered |-> FALSE, pan |-> TRUE, individual |-> TRUE,
      msme |-> "MICRO", trading |-> FALSE, agreement |-> FALSE]}

\* 31 January and 1 April 2026; and days of two periods, and one when a year is over.
TwoStarts == {30, 90}
ThreeDates == {31, 95, 455}

Interchangeable ==
    Permutations(Workers) \cup Permutations({a1, a2}) \cup Permutations({b1, b2})
=============================================================================
