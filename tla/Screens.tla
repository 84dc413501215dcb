------------------------------- MODULE Screens -------------------------------
(***************************************************************************)
(* What is read off the billing tables while they are written: what is owed *)
(* on an invoice, on the money and morning screens, and the GST return of a *)
(* period and its export.  A screen is put together from several SELECTs,   *)
(* and the handlers of Billing run between them.                            *)
(***************************************************************************)
EXTENDS Billing

CONSTANTS
    Registered, \* customers with a GSTIN
    Period,     \* the days of the return's period
    LargeBill   \* above this, a bill to the unregistered is reported singly

ASSUME ScreensConstants ==
    Registered \subseteq Customers /\ Period \subseteq Days /\ LargeBill \in Nat

VARIABLE reader     \* the one screen being put together, or put together last

svars == <<vars, reader>>
-----------------------------------------------------------------------------
Closed == [pc |-> "closed"]

Floored(billed, gone) == IF gone >= billed THEN 0 ELSE billed - gone
-----------------------------------------------------------------------------
(* GET /money/overview, and the morning screen, which reads the same way:   *)
(* issued invoices and payments at once, in whichever order, then credits.  *)
(* The rows of the list do not depend on each other; one of them is followed. *)

\* When the screen is asked for: what was left of the invoice, if it was there.
MoneyBegin(i) ==
    /\ reader = Closed
    /\ reader' = [pc |-> "money", inv |-> i, issued |-> FALSE, paid |-> None,
                  owed |-> IF Present(i) THEN Outstanding(i) ELSE None]
    /\ UNCHANGED vars

\* Not issued: not on the list, whatever else is read.
MoneyIssued ==
    /\ reader.pc = "money" /\ ~reader.issued
    /\ reader' = IF invoice[reader.inv].status = "ISSUED"
                 THEN [reader EXCEPT !.issued = TRUE]
                 ELSE Closed
    /\ UNCHANGED vars

MoneyPaid ==
    /\ reader.pc = "money" /\ reader.paid = None
    /\ reader' = [reader EXCEPT !.paid = paid[reader.inv]]
    /\ UNCHANGED vars

\* Mutant: the balance without its credit notes.
AmountDueUncredited(i, received) == Floored(invoice[i].total, received)

AmountDue(i, received) == Floored(invoice[i].total, received + Credited(i))

\* On the chase list: what is issued and has something left on it.
MoneyCredited ==
    /\ reader.pc = "money" /\ reader.issued /\ reader.paid # None
    /\ reader' = IF AmountDue(reader.inv, reader.paid) > 0
                 THEN [pc |-> "shown", inv |-> reader.inv, owed |-> reader.owed,
                       due |-> AmountDue(reader.inv, reader.paid)]
                 ELSE Closed
    /\ UNCHANGED vars
-----------------------------------------------------------------------------
(* GET /gst/:period and GET /gst/:period/export                             *)

InPeriod == {i \in Invoices : Present(i) /\ invoice[i].date \in Period}

GstRows ==
    /\ reader = Closed
    /\ reader' = [pc |-> "gst_lines", rows |-> [i \in InPeriod |-> invoice[i].status]]
    /\ UNCHANGED vars

GstLines ==
    /\ reader.pc = "gst_lines"
    /\ reader' = [pc |-> "gst_notes", rows |-> reader.rows,
                  lined |-> {i \in DOMAIN reader.rows : invoice[i].lines}]
    /\ UNCHANGED vars

\* Issued notes of the period fill tables of their own, which hold nothing up.
GstNotes ==
    /\ reader.pc = "gst_notes"
    /\ reader' = [reader EXCEPT !.pc = "summary"]
    /\ UNCHANGED vars

\* What the tables of supplies add up: everything that is not a draft.
Supplied(r) == {i \in DOMAIN r.rows : r.rows[i] # "DRAFT"}

\* Mutant: a draft is left out of the return and holds nothing up.
NoDrafts(r) == {}

Drafts(r) == {i \in DOMAIN r.rows : r.rows[i] = "DRAFT"}

\* Supplies nothing can be reported for, which is also why a register would not foot: the
\* totals of an invoice were computed from its lines, and neither changes.
Unlined(r) == Supplied(r) \ r.lined

LargeUnregistered(i) ==
    invoice[i].target.customer \notin Registered /\ invoice[i].total > LargeBill

Blocked(r) ==
    Drafts(r) \cup Unlined(r) # {} \/ \E i \in Supplied(r) : LargeUnregistered(i)

\* The export reads the invoices of the period again.
GstExport ==
    /\ reader.pc = "summary" /\ ~Blocked(reader)
    /\ reader' = [pc |-> "exported", rows |-> reader.rows, exported |-> InPeriod]
    /\ UNCHANGED vars

Close ==
    /\ reader.pc \in {"shown", "summary", "exported"}
    /\ reader' = Closed
    /\ UNCHANGED vars
-----------------------------------------------------------------------------
Read ==
    \/ \E i \in Invoices : MoneyBegin(i)
    \/ MoneyIssued \/ MoneyPaid \/ MoneyCredited
    \/ GstRows \/ GstLines \/ GstNotes \/ GstExport
    \/ Close

ScreensInit == Init /\ reader = Closed

\* Bound: a finished screen is looked at before anything else happens.
ScreensNext ==
    \/ Read
    \/ reader.pc \notin {"shown", "exported"} /\ Next /\ UNCHANGED reader

ScreensSpec == ScreensInit /\ [][ScreensNext]_svars
-----------------------------------------------------------------------------
\* Nobody is chased for what is not owed: the amount on the list is no more than what was left
\* of the invoice when the screen was asked for, and no less than what is left now, although
\* invoices, payments and credits were read at three moments (money.ts, home.ts).
ShownIsOwed ==
    reader.pc = "shown" =>
        /\ reader.owed # None => reader.due <= reader.owed
        /\ invoice[reader.inv].status = "ISSUED" => reader.due >= Outstanding(reader.inv)

\* The working paper foots: whatever is created, issued and discarded between its three reads,
\* each supply in it has the lines its totals came from (gstPeriod).
PaperFoots == reader.pc = "summary" => Unlined(reader) = {}

\* An export holds every supply of the paper it was cleared on, and no draft and no large bill
\* to the unregistered that was there to be seen when it was (/:period/export reads again what
\* gstPeriod checked).
ExportIsReady ==
    reader.pc = "exported" =>
        /\ Supplied(reader) \subseteq reader.exported
        /\ \A i \in reader.exported \cap DOMAIN reader.rows :
            invoice[i].status # "DRAFT" /\ ~LargeUnregistered(i)
=============================================================================
