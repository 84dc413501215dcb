------------------------------- MODULE Stock -------------------------------
(***************************************************************************)
(* Parts and where they are: src/routes/parts.ts, for one firm.  What is on  *)
(* hand is never stored; it is added up from a ledger of movements that can  *)
(* only be inserted into (drizzle/0009_stock.sql).  Movements are read in no *)
(* order, and no handler changes a part or a place once it is there, so that *)
(* each handler is one step.                                                *)
(***************************************************************************)
EXTENDS Integers, FiniteSets, FiniteSetsExt

CONSTANTS
    Parts,      \* names, unique in the firm
    Places,     \* names of stores and vans, unique in the firm
    Rows,       \* rows of stock_movements
    Quantities,
    Levels,     \* parts.reorder_level
    Shown,      \* undocumented issues a screen lists; 20 in the code
    None

StockConstants ==
    /\ Quantities \subseteq Nat \ {0} /\ Levels \subseteq Nat /\ Shown \in Nat
    /\ None \notin Places

VARIABLES
    part,       \* table parts: the reorder level of those in the catalogue
    place,      \* table stock_locations: their kind
    movement,   \* table stock_movements; at is the order they were inserted in
    fitted      \* names in table job_parts, written by jobs

vars == <<part, place, movement, fitted>>
-----------------------------------------------------------------------------
Kinds == {"RECEIPT", "ISSUE_TO_VAN", "RETURN_TO_STORE", "CONSUME", "ADJUSTMENT"}

Movement ==
    [part : Parts, kind : Kinds, from : Places \cup {None}, to : Places \cup {None},
     qty : Quantities, challan : BOOLEAN, at : Nat]

Catalogue == {p \in Parts : part[p] # None}
Locations == {l \in Places : place[l] # None}
Ledger == {m \in Rows : movement[m] # None}

\* One that is in the catalogue already is refused.
AddPart(p, level) ==
    /\ p \notin Catalogue
    /\ part' = [part EXCEPT ![p] = level]
    /\ UNCHANGED <<place, movement, fitted>>

AddPlace(l, kind) ==
    /\ l \notin Locations
    /\ place' = [place EXCEPT ![l] = kind]
    /\ UNCHANGED <<part, movement, fitted>>

\* From somewhere, to somewhere, or both; the kind is the caller's word for it.
Move(m, p, kind, from, to, qty, challan) ==
    /\ m \notin Ledger /\ p \in Catalogue
    /\ from # None \/ to # None
    /\ movement' = [movement EXCEPT ![m] =
            [part |-> p, kind |-> kind, from |-> from, to |-> to, qty |-> qty,
             challan |-> challan, at |-> Cardinality(Ledger)]]
    /\ UNCHANGED <<part, place, fitted>>

\* A report of a job names the parts it used, in the catalogue or not.
Fit(p) ==
    /\ fitted' = fitted \cup {p}
    /\ UNCHANGED <<part, place, movement>>
-----------------------------------------------------------------------------
(* GET /api/parts                                                           *)

\* Mutant: a movement within the firm is entered where it arrives only.
LeftForGood(m, l) == IF movement[m].from = l /\ movement[m].to = None THEN movement[m].qty ELSE 0

\* What one movement does to a place: it may be both ends of one.
Arrived(m, l) == IF movement[m].to = l THEN movement[m].qty ELSE 0
Left(m, l) == IF movement[m].from = l THEN movement[m].qty ELSE 0

Balance(p, l) ==
    MapThenSumSet(LAMBDA m : Arrived(m, l) - Left(m, l), {m \in Ledger : movement[m].part = p})

OnHand(p) == MapThenSumSet(LAMBDA l : Balance(p, l), Locations)

Reorder == {p \in Catalogue : part[p] > 0 /\ OnHand(p) <= part[p]}

Negative == {pl \in Catalogue \X Locations : Balance(pl[1], pl[2]) < 0}

Uncatalogued == fitted \ Catalogue

Undocumented == {m \in Ledger : movement[m].kind = "ISSUE_TO_VAN" /\ ~movement[m].challan}

\* The latest of them, as many as are shown.
Issues ==
    {m \in Undocumented :
        Cardinality({n \in Undocumented : movement[n].at > movement[m].at}) < Shown}
-----------------------------------------------------------------------------
Init ==
    /\ part = [p \in Parts |-> None]
    /\ place = [l \in Places |-> None]
    /\ movement = [m \in Rows |-> None]
    /\ fitted = {}

Next ==
    \/ \E p \in Parts : Fit(p) \/ \E level \in Levels : AddPart(p, level)
    \/ \E l \in Places, kind \in {"STORE", "VAN"} : AddPlace(l, kind)
    \/ \E m \in Rows, p \in Parts, kind \in Kinds, qty \in Quantities, challan \in BOOLEAN :
        \E from, to \in Locations \cup {None} : Move(m, p, kind, from, to, qty, challan)

Spec == Init /\ [][Next]_vars
-----------------------------------------------------------------------------
TypeOK ==
    /\ part \in [Parts -> Levels \cup {None}]
    /\ place \in [Places -> {"STORE", "VAN", None}]
    /\ movement \in [Rows -> Movement \cup {None}]
    /\ fitted \subseteq Parts

Total(rows) == MapThenSumSet(LAMBDA m : movement[m].qty, rows)

\* What came into the firm and did not leave it is in its places, wherever it was moved
\* between them, and a shortage shows: a part that more was taken of than was had is negative
\* somewhere, and one that is tracked and has run out is to be reordered (GET /api/parts adds
\* the balances up from the ledger).
StockConserved ==
    \A p \in Catalogue :
        LET rows == {m \in Ledger : movement[m].part = p}
            had == Total({m \in rows : movement[m].from = None})
            gone == Total({m \in rows : movement[m].to = None}) IN
        /\ OnHand(p) = had - gone
        /\ had < gone => \E l \in Locations : <<p, l>> \in Negative
        /\ part[p] > 0 /\ had <= gone => p \in Reorder
=============================================================================
