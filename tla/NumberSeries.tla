---------------------------- MODULE NumberSeries ----------------------------
(***************************************************************************)
(* What a statutory series promises (Rule 46(b), section 31): numbers are    *)
(* spent one after the other within a financial year, and a number names at *)
(* most one document, once.  A number may be wasted; it is never reused.    *)
(***************************************************************************)
EXTENDS Naturals

CONSTANTS Documents, Years, None

VARIABLES
    last,     \* last[y]: the last number of year y that was spent
    drawn,    \* numbers spent that no document bears yet
    bearer    \* bearer[d]: the number document d bears

vars == <<last, drawn, bearer>>

Init ==
    /\ last = [y \in Years |-> 0]
    /\ drawn = {}
    /\ bearer = [d \in Documents |-> None]

Draw(y) ==
    /\ last' = [last EXCEPT ![y] = @ + 1]
    /\ drawn' = drawn \cup {[year |-> y, seq |-> last[y] + 1]}
    /\ UNCHANGED bearer

\* A document with no number takes one nobody else can take any more.
Bear(d, n) ==
    /\ n \in drawn
    /\ bearer[d] = None
    /\ bearer' = [bearer EXCEPT ![d] = n]
    /\ drawn' = drawn \ {n}
    /\ UNCHANGED last

\* Whoever drew it gave up: a hole in the series.
Waste(n) ==
    /\ n \in drawn
    /\ drawn' = drawn \ {n}
    /\ UNCHANGED <<last, bearer>>

\* The document is gone; its number does not come back.
Lose(d) ==
    /\ bearer[d] # None
    /\ bearer' = [bearer EXCEPT ![d] = None]
    /\ UNCHANGED <<last, drawn>>

Next ==
    \/ \E y \in Years : Draw(y)
    \/ \E n \in drawn : Waste(n) \/ \E d \in Documents : Bear(d, n)
    \/ \E d \in Documents : Lose(d)

Spec == Init /\ [][Next]_vars
=============================================================================
