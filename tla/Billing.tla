------------------------------- MODULE Billing -------------------------------
(***************************************************************************)
(* The billing core: every handler that writes an invoice, a payment, a     *)
(* credit note or an advance, any of them at once, any of them dying        *)
(* between two statements.                                                  *)
(***************************************************************************)
EXTENDS InvoiceHandlers, SettlementHandlers

Next ==
    \/ NextDay
    \/ \E w \in Workers :
        \/ InvoiceStep(w)
        \/ SettlementStep(w)
        \/ Crash(w)

Spec == Init /\ [][Next]_vars
-----------------------------------------------------------------------------
TypeOK ==
    /\ invoice \in [Invoices -> InvoiceRow]
    /\ note \in [Notes -> NoteRow]
    /\ advance \in [Advances -> AdvanceRow]
    /\ paid \in [Invoices -> Nat]
    /\ counter \in [DocTypes -> [Years -> Nat]]
    /\ today \in Days
    /\ req \in [Workers -> Request]
-----------------------------------------------------------------------------
(* Statutory numbers.                                                       *)

Distinct(rows) ==
    \A x, y \in DOMAIN rows :
        rows[x].number # None /\ rows[x].number = rows[y].number => x = y

\* No two documents of a series share a number, however their handlers interleave
\* (the indexes invoices_series_uq, credit_notes_number_uq and the vouchers' are
\* never what stops them).
NumbersDistinct == Distinct(invoice) /\ Distinct(note) /\ Distinct(advance)

\* A number of series s is on a row, or with a request about to execute statement pc.
UsedOnce(rows, s, pc) ==
    /\ Distinct(rows)
    /\ \A x \in DOMAIN rows : rows[x].number # None =>
        rows[x].number.seq <= counter[s][rows[x].number.year]
    /\ \A w \in Workers : At(w, pc) =>
        /\ req[w].number.seq <= counter[s][req[w].number.year]
        /\ \A x \in DOMAIN rows : rows[x].number # req[w].number
    /\ \A v, w \in Workers : At(v, pc) /\ At(w, pc) /\ req[v].number = req[w].number => v = w

\* Every number drawn is borne or held by one party only, and no number is past the last
\* one spent: what keeps NumbersDistinct true from one statement to the next.
NumbersUsedOnce ==
    /\ UsedOnce(invoice, "invoice", "issue_update")
    /\ UsedOnce(note, "credit_note", "note_update")
    /\ UsedOnce(advance, "receipt_voucher", "record_insert")

\* The number a document bears is of the financial year of its date, although the
\* number is drawn after the date was taken and 1 April may come between the two.
NumberInYearOfDate ==
    /\ \A i \in Invoices : invoice[i].number # None =>
            invoice[i].number.year = FinancialYear(invoice[i].date)
    /\ \A n \in Notes : note[n].number # None =>
            note[n].number.year = FinancialYear(note[n].date)
    /\ \A a \in Advances : advance[a].number # None =>
            advance[a].number.year = FinancialYear(advance[a].date)

\* invoices_numbered_when_issued never has to refuse a statement: a row has a number
\* exactly when it was issued, and then it has lines to bill.
IssuedIsComplete ==
    \A i \in Invoices : Present(i) =>
        /\ invoice[i].number # None <=> invoice[i].status # "DRAFT"
        /\ invoice[i].status # "DRAFT" => invoice[i].lines

\* Once an invoice bears a number it bears that one for as long as the row exists,
\* and it never goes back to being a draft or from cancelled to issued.
NumberKept ==
    [][\A i \in Invoices : Present(i) /\ invoice[i].number # None /\ Present(i)' =>
        /\ invoice'[i].number = invoice[i].number
        /\ invoice[i].status = "CANCELLED" => invoice'[i].status = "CANCELLED"]_vars
-----------------------------------------------------------------------------
(* One bill per supply.                                                     *)

\* A job is billed by at most one row, a contract's instalment by at most one, and a
\* contract's period by at most one that is not cancelled - also when a cancelled
\* bill for the period is around while two clients bill it again.
NothingBilledTwice ==
    \A i, j \in {k \in Invoices : Present(k)} :
        LET t == invoice[i].target
            u == invoice[j].target
        IN  i # j =>
            /\ t.job = u.job => t.job = None
            /\ t.contract = u.contract /\ t.contract # None =>
                /\ t.point # u.point
                /\ t.period = u.period /\ t.period # None =>
                    "CANCELLED" \in {invoice[i].status, invoice[j].status}
-----------------------------------------------------------------------------
(* Money.                                                                   *)

\* A discarded draft takes no money with it: whatever a payment, a note or an advance
\* names is still there, although each handler checked that long before it wrote.
NothingOrphaned ==
    /\ \A i \in Invoices : paid[i] > 0 => Present(i)
    /\ \A n \in Notes : note[n].inv # None => Present(note[n].inv)
    /\ \A a \in Advances : advance[a].inv # None => Present(advance[a].inv)

\* An advance is spent once: on one invoice, of the customer who paid it, that no other
\* advance was spent on.
AdvanceSpentOnce ==
    /\ \A a \in Advances :
        /\ advance[a].status = "ADJUSTED" <=> advance[a].inv # None
        /\ advance[a].inv # None =>
            advance[a].customer = invoice[advance[a].inv].target.customer
    /\ \A a, b \in Advances :
        advance[a].inv # None /\ advance[a].inv = advance[b].inv => a = b

\* And a spent advance stays where it was spent.
AdvanceStaysSpent ==
    [][\A a \in Advances : advance[a].inv # None => advance'[a] = advance[a]]_vars

\* A payment never takes an invoice past its total, credits included. The code
\* keeps this while requests come one at a time.
PaymentWithinBalance ==
    [][\A i \in Invoices : paid'[i] > paid[i] =>
        paid'[i] + Credited(i) <= invoice[i].total]_vars

\* Numbers and dates of invoices run the same way: of two issued in a year, the one
\* with the smaller number has no later date. Kept while requests come one at a time.
DatesFollowNumbers ==
    \A i, j \in Invoices :
        /\ invoice[i].number # None
        /\ invoice[j].number # None
        /\ invoice[i].number.year = invoice[j].number.year
        /\ invoice[i].number.seq < invoice[j].number.seq
        => invoice[i].date <= invoice[j].date
-----------------------------------------------------------------------------
(* The invoice series and the voucher series are NumberSeries.  A number is  *)
(* drawn while the request that drew it has yet to write it.                *)

Drawn(pc) == {req[w].number : w \in {v \in Workers : At(v, pc)}}

InvoiceSeries == INSTANCE NumberSeries WITH
    Documents <- Invoices,
    last <- counter["invoice"],
    drawn <- Drawn("issue_update"),
    bearer <- [i \in Invoices |-> invoice[i].number]

VoucherSeries == INSTANCE NumberSeries WITH
    Documents <- Advances,
    last <- counter["receipt_voucher"],
    drawn <- Drawn("record_insert"),
    bearer <- [a \in Advances |-> advance[a].number]

\* Every step on the invoices draws a number, lets a document bear it for the first
\* time, wastes it, or loses the document with it: none is ever used again.
InvoiceSeriesSpec == InvoiceSeries!Spec

\* The same of receipt vouchers, which draw before their row exists.
VoucherSeriesSpec == VoucherSeries!Spec
=============================================================================
