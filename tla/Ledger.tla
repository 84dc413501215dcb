------------------------------- MODULE Ledger -------------------------------
(***************************************************************************)
(* The billing tables, and the requests in flight against them.            *)
(*                                                                         *)
(* The server reaches Postgres over Neon's HTTP driver: every SQL statement *)
(* is a transaction of its own, and no handler opens one that spans two.    *)
(* A handler is therefore a sequence of atomic statements, and between any  *)
(* two of them other handlers run, or the process dies.  A Worker stands    *)
(* for one request being served; req[w] holds its place in the handler and  *)
(* the values the handler has read and still needs.                        *)
(*                                                                         *)
(* One branch of one tenant is modelled: every statement filters on both,   *)
(* and the key of a series counter contains the branch.                     *)
(***************************************************************************)
EXTENDS Naturals, FiniteSets, FiniteSetsExt

CONSTANTS
    Workers,     \* requests the server handles at the same time
    Invoices,    \* ids of rows of invoices
    Notes,       \* ids of rows of credit_notes
    Advances,    \* ids of rows of advances
    Customers,
    Targets,     \* what an invoice may bill: see Target
    Totals,      \* grand totals of invoices and of credit notes, in paise
    Amounts,     \* amounts of payments, in paise
    MaxDay,      \* bound: the last day of the clock
    MaxNumber,   \* bound: the last number each series gives out in a year
    NewYear,     \* the day a new financial year begins (1 April)
    None         \* SQL NULL

ASSUME LedgerConstants ==
    /\ Totals \subseteq Nat \ {0}
    /\ Amounts \subseteq Nat \ {0}
    /\ MaxDay \in Nat
    /\ MaxNumber \in [{"invoice", "credit_note", "receipt_voucher"} -> Nat]
    /\ NewYear \in Nat
    /\ None \notin [year : {0, 1}, seq : Nat \ {0}]
    /\ None \notin Invoices

ASSUME FiniteTables == IsFiniteSet(Notes)

VARIABLES
    invoice,     \* table invoices, with whether invoice_lines has rows for it
    note,        \* table credit_notes, with its credit_note_lines
    advance,     \* table advances
    paid,        \* paid[i]: the sum of the payments rows of invoice i
    counter,     \* table series_counters: last_issued per document type and year
    today,       \* the date
    req          \* the requests in flight

vars == <<invoice, note, advance, paid, counter, today, req>>
-----------------------------------------------------------------------------
Days == 0 .. MaxDay
Years == {0, 1}

FinancialYear(day) == IF day >= NewYear THEN 1 ELSE 0

DocTypes == {"invoice", "credit_note", "receipt_voucher"}

\* A formatted number: prefix/26-27/0001 is its financial year and its place.
Number == [year : Years, seq : Nat \ {0}]

(***************************************************************************)
(* What an invoice bills.  A job, a contract's instalment (which may also   *)
(* say the period it covers), or neither: an ad-hoc repair.                 *)
(***************************************************************************)
IsAdHoc(t) == t.job = None /\ t.contract = None

SameInstalment(t, u) ==
    t.contract # None /\ u.contract = t.contract /\ u.point = t.point

SamePeriod(t, u) ==
    t.contract # None /\ u.contract = t.contract /\ t.period # None /\ u.period = t.period

\* Mutant: every index leaves cancelled rows out, as only the one on periods does.
SameLiveSupply(t, i) ==
    LET u == invoice[i].target
    IN  /\ invoice[i].status # "CANCELLED"
        /\ (t.job # None /\ u.job = t.job) \/ SameInstalment(t, u) \/ SamePeriod(t, u)

\* The three unique indexes of the table: the one on periods alone looks at status.
SameSupply(t, i) ==
    LET u == invoice[i].target
    IN  \/ t.job # None /\ u.job = t.job
        \/ SameInstalment(t, u)
        \/ SamePeriod(t, u) /\ invoice[i].status # "CANCELLED"
-----------------------------------------------------------------------------
(* Rows.  An id is ABSENT before its INSERT and DELETED after its DELETE:    *)
(* ids are UUIDs, so a deleted one never comes back.                        *)

InvoiceRow ==
    [status : {"ABSENT", "DRAFT", "ISSUED", "CANCELLED", "DELETED"},
     number : Number \cup {None},
     date   : Days,
     target : Targets \cup {None},
     total  : Totals \cup {0},
     lines  : BOOLEAN]

NoInvoice(s) == [status |-> s, number |-> None, date |-> 0,
                 target |-> None, total |-> 0, lines |-> FALSE]

NoteRow ==
    [status : {"ABSENT", "DRAFT", "ISSUED"},
     number : Number \cup {None},
     date   : Days,
     inv    : Invoices \cup {None},
     total  : Totals \cup {0},
     lines  : BOOLEAN]

AdvanceRow ==
    [status   : {"ABSENT", "OPEN", "ADJUSTED"},
     number   : Number \cup {None},
     date     : Days,
     customer : Customers \cup {None},
     inv      : Invoices \cup {None}]

Present(i) == invoice[i].status \in {"DRAFT", "ISSUED", "CANCELLED"}

\* A foreign key without ON DELETE: the rows that keep an invoice from being deleted.
Referenced(i) ==
    \/ paid[i] > 0
    \/ \E n \in Notes : note[n].inv = i
    \/ \E a \in Advances : advance[a].inv = i

\* creditedAgainst: issued notes only.
Credited(i) ==
    LET against == {n \in Notes : note[n].status = "ISSUED" /\ note[n].inv = i}
    IN  MapThenSumSet(LAMBDA n : note[n].total, against)

\* outstandingOf: the balance, floored at zero.
Outstanding(i) ==
    LET gone == paid[i] + Credited(i)
    IN  IF gone >= invoice[i].total THEN 0 ELSE invoice[i].total - gone

\* creditableRemaining, floored at zero.
Creditable(i) ==
    IF Credited(i) >= invoice[i].total THEN 0 ELSE invoice[i].total - Credited(i)
-----------------------------------------------------------------------------
(* Requests.  pc names the statement the handler executes next.             *)

Idle == [pc |-> "idle"]

CreateRequest ==
    [pc : {"create_check", "create_insert"}, target : Targets, total : Totals]
    \cup [pc : {"create_lines"}, inv : Invoices]

IssueRequest ==
    [pc : {"issue_count"}, inv : Invoices]
    \cup [pc : {"issue_draw"}, inv : Invoices, on : Days]
    \cup [pc : {"issue_update"}, inv : Invoices, on : Days, number : Number]

CancelRequest ==
    [pc : {"cancel_payments", "cancel_write"}, inv : Invoices, was : {"DRAFT", "ISSUED"}]

PayRequest ==
    [pc : {"pay_check"}, inv : Invoices, amount : Amounts, paid : Nat]
    \cup [pc : {"pay_insert"}, inv : Invoices, amount : Amounts]

RaiseRequest ==
    [pc : {"raise_check"}, inv : Invoices, total : Totals]
    \cup [pc : {"raise_insert"}, inv : Invoices, total : Totals, on : Days]
    \cup [pc : {"raise_lines"}, note : Notes]

NoteRequest ==
    [pc : {"note_draw"}, note : Notes, on : Days]
    \cup [pc : {"note_update"}, note : Notes, number : Number]

RecordRequest ==
    [pc : {"record_draw"}, customer : Customers, on : Days]
    \cup [pc : {"record_insert"}, customer : Customers, on : Days, number : Number]

AdjustRequest ==
    [pc : {"adjust_check", "adjust_update"}, inv : Invoices, advance : Advances]

Request ==
    {Idle} \cup CreateRequest \cup IssueRequest \cup CancelRequest \cup PayRequest
    \cup RaiseRequest \cup NoteRequest \cup RecordRequest \cup AdjustRequest

At(w, pc) == req[w].pc = pc

Goto(w, r) == req' = [req EXCEPT ![w] = r]

Finish(w) == Goto(w, Idle)

\* Bound: a request that will insert a row starts only while a row is left to insert.
RoomFor(table) == \E x \in DOMAIN table : table[x].status = "ABSENT"
-----------------------------------------------------------------------------
Init ==
    /\ invoice = [i \in Invoices |-> NoInvoice("ABSENT")]
    /\ note = [n \in Notes |-> [status |-> "ABSENT", number |-> None, date |-> 0,
                                inv |-> None, total |-> 0, lines |-> FALSE]]
    /\ advance = [a \in Advances |-> [status |-> "ABSENT", number |-> None, date |-> 0,
                                      customer |-> None, inv |-> None]]
    /\ paid = [i \in Invoices |-> 0]
    /\ counter = [s \in DocTypes |-> [y \in Years |-> 0]]
    /\ today = 0
    /\ req = [w \in Workers |-> Idle]

\* Mutant: the year of the series is the year of the draw, not of the document.
YearOfDraw(on) == FinancialYear(today)

\* The financial year whose series a document dated `on` is numbered in.
SeriesYear(on) == FinancialYear(on)

\* Mutant: the next number is one more than the numbered rows there are.
CountRows(s, y) ==
    LET numbers == {invoice[i].number : i \in Invoices}
        vouchers == {advance[a].number : a \in Advances}
        rows == IF s = "invoice" THEN numbers ELSE vouchers
    IN  1 + Cardinality({n \in rows \ {None} : n.year = y})

\* Mutant: the counter is read before it is moved.
LastIssued(s, y) == counter[s][y]

(***************************************************************************)
(* next_in_series: one INSERT ... ON CONFLICT DO UPDATE ... RETURNING, so   *)
(* reading the counter and moving it are one step.                         *)
(***************************************************************************)
NextInSeries(s, y) == counter[s][y] + 1

NumberFor(s, on) == [year |-> SeriesYear(on), seq |-> NextInSeries(s, SeriesYear(on))]

Spend(s, on) ==
    /\ counter[s][SeriesYear(on)] < MaxNumber[s]
    /\ counter' = [counter EXCEPT ![s][SeriesYear(on)] = @ + 1]

\* The process is killed, or the statement fails: the request stops where it is.
Crash(w) ==
    /\ req[w] # Idle
    /\ Finish(w)
    /\ UNCHANGED <<invoice, note, advance, paid, counter, today>>

NextDay ==
    /\ today < MaxDay
    /\ today' = today + 1
    /\ UNCHANGED <<invoice, note, advance, paid, counter, req>>
=============================================================================
