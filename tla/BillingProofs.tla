---------------------------- MODULE BillingProofs ----------------------------
(* Theorems about Billing, for every set of workers, documents and bounds: its *)
(* types, and the numbers of its series.                                       *)
EXTENDS Billing, TLAPS

\* Empty tables and no request: every variable has its type to begin with.
LEMMA InitTypeOK == Init => TypeOK
  BY LedgerConstants DEF Init, TypeOK, InvoiceRow, NoInvoice, NoteRow, AdvanceRow, DocTypes, Years,
         Days, Request, Idle

\* What is drawn from a series is a number, and leaves the counters numbers.
LEMMA DrawTypes ==
  ASSUME TypeOK, NEW s \in DocTypes, NEW on \in Days
  PROVE  /\ SeriesYear(on) \in Years
         /\ NumberFor(s, on) \in Number
         /\ Spend(s, on) => counter' \in [DocTypes -> [Years -> Nat]]
  BY DEF TypeOK, SeriesYear, FinancialYear, Years, Number, NumberFor, NextInSeries, Spend,
         DocTypes, Days

\* What a request still holds, by the statement it executes next.
LEMMA RequestFields ==
  ASSUME TypeOK, NEW w \in Workers
  PROVE  LET r == req[w] IN
    /\ At(w, "create_check") \/ At(w, "create_insert") => r.target \in Targets /\ r.total \in Totals
    /\ At(w, "create_lines") \/ At(w, "issue_count") => r.inv \in Invoices
    /\ At(w, "issue_draw") => r.inv \in Invoices /\ r.on \in Days
    /\ At(w, "issue_update") => r.inv \in Invoices /\ r.on \in Days /\ r.number \in Number
    /\ At(w, "cancel_payments") \/ At(w, "cancel_write") => r.inv \in Invoices /\ r.was \in {"DRAFT", "ISSUED"}
    /\ At(w, "pay_check") => r.inv \in Invoices /\ r.amount \in Amounts /\ r.paid \in Nat
    /\ At(w, "pay_insert") => r.inv \in Invoices /\ r.amount \in Amounts
    /\ At(w, "raise_check") => r.inv \in Invoices /\ r.total \in Totals
    /\ At(w, "raise_insert") => r.inv \in Invoices /\ r.total \in Totals /\ r.on \in Days
    /\ At(w, "raise_lines") => r.note \in Notes
    /\ At(w, "note_draw") => r.note \in Notes /\ r.on \in Days
    /\ At(w, "note_update") => r.note \in Notes /\ r.number \in Number
    /\ At(w, "record_draw") => r.customer \in Customers /\ r.on \in Days
    /\ At(w, "record_insert") => r.customer \in Customers /\ r.on \in Days /\ r.number \in Number
    /\ At(w, "adjust_check") \/ At(w, "adjust_update") => r.inv \in Invoices /\ r.advance \in Advances
<1> req[w] \in Request
  BY DEF TypeOK
<1> QED
  BY DEF At, Request, CreateRequest, IssueRequest, CancelRequest, PayRequest, RaiseRequest,
     NoteRequest, RecordRequest, AdjustRequest, Idle

\* A worker that goes to a request of the right shape leaves all of them well shaped.
LEMMA Moves ==
  ASSUME TypeOK, NEW w \in Workers, NEW r \in Request, Goto(w, r)
  PROVE  req' \in [Workers -> Request]
  BY DEF TypeOK, Goto

\* Every statement of the handlers of invoices keeps the types.
LEMMA InvoiceStepTypes ==
  ASSUME TypeOK, NEW w \in Workers, InvoiceStep(w)
  PROVE  TypeOK'
<1> USE DEF Others
<1>1. CASE CreateStart(w)
  BY <1>1 DEF CreateStart, TypeOK, At, Goto, Finish, Request, CreateRequest, IssueRequest, CancelRequest, PayRequest, RaiseRequest,
     NoteRequest, RecordRequest, AdjustRequest, Idle
<1>2. CASE CreateCheck(w)
  BY <1>2 DEF CreateCheck, TypeOK, At, Goto, Finish, Request, CreateRequest, IssueRequest, CancelRequest, PayRequest, RaiseRequest,
     NoteRequest, RecordRequest, AdjustRequest, Idle
<1>3. CASE CreateInsert(w)
  <2>1. req[w].target \in Targets /\ req[w].total \in Totals /\ today \in Days /\ invoice \in [Invoices -> InvoiceRow]
    BY <1>3, RequestFields DEF CreateInsert, TypeOK
  <2> DEFINE draft == [status |-> "DRAFT", number |-> None, date |-> today,
                       target |-> req[w].target, total |-> req[w].total, lines |-> FALSE]
  <2>4. draft \in InvoiceRow
    BY <2>1 DEF InvoiceRow
  <2>2. invoice' \in [Invoices -> InvoiceRow]
    BY <1>3, <2>1, <2>4 DEF CreateInsert
  <2>3. req' \in [Workers -> Request]
    BY <1>3, Moves DEF CreateInsert, Finish, Request, Idle, CreateRequest
  <2> QED
    BY <1>3, <2>2, <2>3 DEF CreateInsert, TypeOK
<1>4. CASE CreateLines(w)
  <2>1. req[w].inv \in Invoices /\ invoice \in [Invoices -> InvoiceRow]
    BY <1>4, RequestFields DEF CreateLines, TypeOK
  <2>2. invoice' \in [Invoices -> InvoiceRow]
    BY <1>4, <2>1, ZenonT(60) DEF CreateLines, InvoiceRow
  <2>3. req' \in [Workers -> Request]
    BY <1>4, Moves DEF CreateLines, Finish, Request, Idle, CreateRequest
  <2> QED
    BY <1>4, <2>2, <2>3 DEF CreateLines, TypeOK
<1>5. CASE IssueRead(w)
  BY <1>5 DEF IssueRead, TypeOK, At, Goto, Finish, Request, CreateRequest, IssueRequest, CancelRequest, PayRequest, RaiseRequest,
     NoteRequest, RecordRequest, AdjustRequest, Idle
<1>6. CASE IssueCount(w)
  BY <1>6 DEF IssueCount, TypeOK, At, Goto, Finish, Request, CreateRequest, IssueRequest, CancelRequest, PayRequest, RaiseRequest,
     NoteRequest, RecordRequest, AdjustRequest, Idle
<1>7. CASE IssueDraw(w)
  BY <1>7, DrawTypes DEF IssueDraw, DocTypes, TypeOK, At, Goto, Finish, Request, CreateRequest, IssueRequest, CancelRequest, PayRequest, RaiseRequest,
     NoteRequest, RecordRequest, AdjustRequest, Idle
<1>8. CASE IssueUpdate(w)
  <2>1. req[w].inv \in Invoices /\ req[w].on \in Days /\ req[w].number \in Number /\ invoice \in [Invoices -> InvoiceRow]
    BY <1>8, RequestFields DEF IssueUpdate, TypeOK
  <2>2. invoice' \in [Invoices -> InvoiceRow]
    BY <1>8, <2>1 DEF IssueUpdate, InvoiceRow, IssueDate, StillDraft
  <2>3. req' \in [Workers -> Request]
    BY <1>8, Moves DEF IssueUpdate, Finish, Request, Idle, IssueRequest
  <2> QED
    BY <1>8, <2>2, <2>3 DEF IssueUpdate, TypeOK
<1>9. CASE CancelRead(w)
  BY <1>9 DEF CancelRead, TypeOK, At, Goto, Finish, Request, CreateRequest, IssueRequest, CancelRequest, PayRequest, RaiseRequest,
     NoteRequest, RecordRequest, AdjustRequest, Idle
<1>10. CASE CancelPayments(w)
  BY <1>10 DEF CancelPayments, TypeOK, At, Goto, Finish, Request, CreateRequest, IssueRequest, CancelRequest, PayRequest, RaiseRequest,
     NoteRequest, RecordRequest, AdjustRequest, Idle
<1>11. CASE CancelDiscard(w)
  <2>1. req[w].inv \in Invoices /\ invoice \in [Invoices -> InvoiceRow]
    BY <1>11, RequestFields DEF CancelDiscard, TypeOK
  <2>2. invoice' \in [Invoices -> InvoiceRow]
    BY <1>11, <2>1, LedgerConstants DEF CancelDiscard, InvoiceRow, NoInvoice, Days
  <2>3. req' \in [Workers -> Request]
    BY <1>11, Moves DEF CancelDiscard, Finish, Request, Idle, CancelRequest
  <2> QED
    BY <1>11, <2>2, <2>3 DEF CancelDiscard, TypeOK
<1>12. CASE CancelUpdate(w)
  <2>1. req[w].inv \in Invoices /\ invoice \in [Invoices -> InvoiceRow]
    BY <1>12, RequestFields DEF CancelUpdate, TypeOK
  <2>2. invoice' \in [Invoices -> InvoiceRow]
    BY <1>12, <2>1 DEF CancelUpdate, InvoiceRow
  <2>3. req' \in [Workers -> Request]
    BY <1>12, Moves DEF CancelUpdate, Finish, Request, Idle, CancelRequest
  <2> QED
    BY <1>12, <2>2, <2>3 DEF CancelUpdate, TypeOK
<1> QED
  BY <1>1, <1>2, <1>3, <1>4, <1>5, <1>6, <1>7, <1>8, <1>9, <1>10, <1>11, <1>12 DEF InvoiceStep

\* Every statement of payments, credit notes and advances keeps the types.
LEMMA SettlementStepTypes ==
  ASSUME TypeOK, NEW w \in Workers, SettlementStep(w)
  PROVE  TypeOK'
<1> USE DEF Elsewhere
<1>1. CASE PayRead(w)
  BY <1>1 DEF PayRead, TypeOK, At, Goto, Finish, Request, CreateRequest, IssueRequest, CancelRequest, PayRequest, RaiseRequest,
     NoteRequest, RecordRequest, AdjustRequest, Idle
<1>2. CASE PayCheck(w)
  BY <1>2, SMTT(40) DEF PayCheck, TypeOK, At, Goto, Finish, Request, CreateRequest, IssueRequest, CancelRequest, PayRequest, RaiseRequest,
     NoteRequest, RecordRequest, AdjustRequest, Idle
<1>3. CASE PayInsert(w)
  <2>1. req[w].inv \in Invoices /\ req[w].amount \in Amounts /\ paid \in [Invoices -> Nat]
    BY <1>3, RequestFields DEF PayInsert, TypeOK
  <2>2. paid' \in [Invoices -> Nat]
    <3>1. req[w].amount \in Nat
      BY <2>1, LedgerConstants
    <3> QED
      BY <1>3, <2>1, <3>1 DEF PayInsert
  <2>3. req' \in [Workers -> Request]
    BY <1>3, Moves DEF PayInsert, Finish, Request, Idle, PayRequest
  <2> QED
    BY <1>3, <2>2, <2>3 DEF PayInsert, TypeOK
<1>4. CASE RaiseRead(w)
  BY <1>4 DEF RaiseRead, TypeOK, At, Goto, Finish, Request, CreateRequest, IssueRequest, CancelRequest, PayRequest, RaiseRequest,
     NoteRequest, RecordRequest, AdjustRequest, Idle
<1>5. CASE RaiseCheck(w)
  BY <1>5 DEF RaiseCheck, TypeOK, At, Goto, Finish, Request, CreateRequest, IssueRequest, CancelRequest, PayRequest, RaiseRequest,
     NoteRequest, RecordRequest, AdjustRequest, Idle
<1>6. CASE RaiseInsert(w)
  <2>1. req[w].inv \in Invoices /\ req[w].total \in Totals /\ req[w].on \in Days /\ note \in [Notes -> NoteRow]
    BY <1>6, RequestFields DEF RaiseInsert, TypeOK
  <2> DEFINE draft == [status |-> "DRAFT", number |-> None, date |-> req[w].on,
                       inv |-> req[w].inv, total |-> req[w].total, lines |-> FALSE]
  <2>4. draft \in NoteRow
    BY <2>1 DEF NoteRow
  <2>2. note' \in [Notes -> NoteRow]
    BY <1>6, <2>1, <2>4 DEF RaiseInsert
  <2>3. req' \in [Workers -> Request]
    BY <1>6, Moves DEF RaiseInsert, Finish, Request, Idle, RaiseRequest
  <2> QED
    BY <1>6, <2>2, <2>3 DEF RaiseInsert, TypeOK
<1>7. CASE RaiseLines(w)
  <2>1. req[w].note \in Notes /\ note \in [Notes -> NoteRow]
    BY <1>7, RequestFields DEF RaiseLines, TypeOK
  <2>2. note' \in [Notes -> NoteRow]
    BY <1>7, <2>1, ZenonT(60) DEF RaiseLines, NoteRow
  <2>3. req' \in [Workers -> Request]
    BY <1>7, Moves DEF RaiseLines, Finish, Request, Idle, RaiseRequest
  <2> QED
    BY <1>7, <2>2, <2>3 DEF RaiseLines, TypeOK
<1>8. CASE NoteRead(w)
  BY <1>8 DEF NoteRead, NoteRow, TypeOK, At, Goto, Finish, Request, CreateRequest, IssueRequest, CancelRequest, PayRequest, RaiseRequest,
     NoteRequest, RecordRequest, AdjustRequest, Idle
<1>9. CASE NoteDraw(w)
  BY <1>9, DrawTypes DEF NoteDraw, DocTypes, TypeOK, At, Goto, Finish, Request, CreateRequest, IssueRequest, CancelRequest, PayRequest, RaiseRequest,
     NoteRequest, RecordRequest, AdjustRequest, Idle
<1>10. CASE NoteUpdate(w)
  <2>1. req[w].note \in Notes /\ req[w].number \in Number /\ note \in [Notes -> NoteRow]
    BY <1>10, RequestFields DEF NoteUpdate, TypeOK
  <2>2. note' \in [Notes -> NoteRow]
    BY <1>10, <2>1 DEF NoteUpdate, NoteRow
  <2>3. req' \in [Workers -> Request]
    BY <1>10, Moves DEF NoteUpdate, Finish, Request, Idle, NoteRequest
  <2> QED
    BY <1>10, <2>2, <2>3 DEF NoteUpdate, TypeOK
<1>11. CASE RecordStart(w)
  BY <1>11 DEF RecordStart, TypeOK, At, Goto, Finish, Request, CreateRequest, IssueRequest, CancelRequest, PayRequest, RaiseRequest,
     NoteRequest, RecordRequest, AdjustRequest, Idle
<1>12. CASE RecordDraw(w)
  BY <1>12, DrawTypes DEF RecordDraw, DocTypes, TypeOK, At, Goto, Finish, Request, CreateRequest, IssueRequest, CancelRequest, PayRequest, RaiseRequest,
     NoteRequest, RecordRequest, AdjustRequest, Idle
<1>13. CASE RecordInsert(w)
  <2>1. req[w].customer \in Customers /\ req[w].on \in Days /\ req[w].number \in Number /\ advance \in [Advances -> AdvanceRow]
    BY <1>13, RequestFields DEF RecordInsert, TypeOK
  <2>2. advance' \in [Advances -> AdvanceRow]
    BY <1>13, <2>1 DEF RecordInsert, AdvanceRow
  <2>3. req' \in [Workers -> Request]
    BY <1>13, Moves DEF RecordInsert, Finish, Request, Idle, RecordRequest
  <2> QED
    BY <1>13, <2>2, <2>3 DEF RecordInsert, TypeOK
<1>14. CASE AdjustRead(w)
  BY <1>14 DEF AdjustRead, TypeOK, At, Goto, Finish, Request, CreateRequest, IssueRequest, CancelRequest, PayRequest, RaiseRequest,
     NoteRequest, RecordRequest, AdjustRequest, Idle
<1>15. CASE AdjustCheck(w)
  BY <1>15, SMTT(40) DEF AdjustCheck, TypeOK, At, Goto, Finish, Request, CreateRequest, IssueRequest, CancelRequest, PayRequest, RaiseRequest,
     NoteRequest, RecordRequest, AdjustRequest, Idle
<1>16. CASE AdjustUpdate(w)
  <2>1. req[w].inv \in Invoices /\ req[w].advance \in Advances /\ advance \in [Advances -> AdvanceRow]
    BY <1>16, RequestFields DEF AdjustUpdate, TypeOK
  <2>2. advance' \in [Advances -> AdvanceRow]
    BY <1>16, <2>1 DEF AdjustUpdate, AdvanceRow, Adjustable
  <2>3. req' \in [Workers -> Request]
    BY <1>16, Moves DEF AdjustUpdate, Finish, Request, Idle, AdjustRequest
  <2> QED
    BY <1>16, <2>2, <2>3 DEF AdjustUpdate, TypeOK
<1> QED
  BY <1>1, <1>2, <1>3, <1>4, <1>5, <1>6, <1>7, <1>8, <1>9, <1>10, <1>11, <1>12, <1>13, <1>14, <1>15, <1>16 DEF SettlementStep

\* Every row of the billing tables and every request in flight keeps its type, whatever
\* handlers run and wherever one of them dies.
THEOREM TypeCorrect == Spec => []TypeOK
<1>1. TypeOK /\ [Next]_vars => TypeOK'
  <2> SUFFICES ASSUME TypeOK, [Next]_vars PROVE TypeOK'
    OBVIOUS
  <2>1. CASE NextDay
    BY <2>1, LedgerConstants DEF NextDay, TypeOK, Days
  <2>2. ASSUME NEW w \in Workers, InvoiceStep(w) PROVE TypeOK'
    BY <2>2, InvoiceStepTypes
  <2>3. ASSUME NEW w \in Workers, SettlementStep(w) PROVE TypeOK'
    BY <2>3, SettlementStepTypes
  <2>4. ASSUME NEW w \in Workers, Crash(w) PROVE TypeOK'
    BY <2>4 DEF Crash, TypeOK, Finish, Goto, Request
  <2>5. CASE UNCHANGED vars
    BY <2>5 DEF vars, TypeOK
  <2> QED
    BY <2>1, <2>2, <2>3, <2>4, <2>5 DEF Next
<1> QED
  BY <1>1, InitTypeOK, PTL DEF Spec
-----------------------------------------------------------------------------
(***************************************************************************)
(* Numbers of a series are used once, for every set of workers, documents   *)
(* and bounds, and however often a request dies.                            *)
(***************************************************************************)
\* What a step may do to a series it neither draws from nor numbers a document in.
Quiet(rows, s, pc) ==
    /\ DOMAIN rows' = DOMAIN rows
    /\ \A x \in DOMAIN rows : rows'[x].number \in {rows[x].number, None}
    /\ \A w \in Workers : At(w, pc)' => At(w, pc) /\ req'[w].number = req[w].number
    /\ counter'[s] = counter[s]

\* A number that was drawn is not NULL.
LEMMA DrawnIsNumber ==
  ASSUME TypeOK, NEW w \in Workers,
         At(w, "issue_update") \/ At(w, "note_update") \/ At(w, "record_insert")
  PROVE  req[w].number \in Number /\ req[w].number # None
<1>1. req[w].number \in Number
  BY RequestFields
<1> QED
  BY <1>1, LedgerConstants DEF Number, Years

\* A step that touches no number and puts no request at the writing statement of invoices
\* leaves their series as it is.
LEMMA QuietInvoices ==
  ASSUME TypeOK, UsedOnce(invoice, "invoice", "issue_update"), Quiet(invoice, "invoice", "issue_update")
  PROVE  UsedOnce(invoice, "invoice", "issue_update")'
<1>1. Distinct(invoice)'
  BY DEF UsedOnce, Quiet, Distinct
<1>2. \A x \in DOMAIN invoice' : invoice'[x].number # None =>
        invoice'[x].number.seq <= counter'["invoice"][invoice'[x].number.year]
  BY DEF UsedOnce, Quiet
<1>3. ASSUME NEW v \in Workers, At(v, "issue_update")'
      PROVE  /\ At(v, "issue_update") /\ req'[v].number = req[v].number
             /\ req'[v].number.seq <= counter'["invoice"][req'[v].number.year]
             /\ \A x \in DOMAIN invoice : invoice[x].number # req'[v].number
  BY <1>3 DEF UsedOnce, Quiet
<1>4. ASSUME NEW v \in Workers, At(v, "issue_update")', NEW x \in DOMAIN invoice'
      PROVE  invoice'[x].number # req'[v].number
  BY <1>3, <1>4, DrawnIsNumber DEF Quiet
<1>5. ASSUME NEW v \in Workers, At(v, "issue_update")', NEW w \in Workers, At(w, "issue_update")',
             req'[v].number = req'[w].number
      PROVE  v = w
  BY <1>3, <1>5 DEF UsedOnce
<1> QED
  BY <1>1, <1>2, <1>3, <1>4, <1>5 DEF UsedOnce

\* A step that touches no number and puts no request at the writing statement of credit notes
\* leaves their series as it is.
LEMMA QuietNotes ==
  ASSUME TypeOK, UsedOnce(note, "credit_note", "note_update"), Quiet(note, "credit_note", "note_update")
  PROVE  UsedOnce(note, "credit_note", "note_update")'
<1>1. Distinct(note)'
  BY DEF UsedOnce, Quiet, Distinct
<1>2. \A x \in DOMAIN note' : note'[x].number # None =>
        note'[x].number.seq <= counter'["credit_note"][note'[x].number.year]
  BY DEF UsedOnce, Quiet
<1>3. ASSUME NEW v \in Workers, At(v, "note_update")'
      PROVE  /\ At(v, "note_update") /\ req'[v].number = req[v].number
             /\ req'[v].number.seq <= counter'["credit_note"][req'[v].number.year]
             /\ \A x \in DOMAIN note : note[x].number # req'[v].number
  BY <1>3 DEF UsedOnce, Quiet
<1>4. ASSUME NEW v \in Workers, At(v, "note_update")', NEW x \in DOMAIN note'
      PROVE  note'[x].number # req'[v].number
  BY <1>3, <1>4, DrawnIsNumber DEF Quiet
<1>5. ASSUME NEW v \in Workers, At(v, "note_update")', NEW w \in Workers, At(w, "note_update")',
             req'[v].number = req'[w].number
      PROVE  v = w
  BY <1>3, <1>5 DEF UsedOnce
<1> QED
  BY <1>1, <1>2, <1>3, <1>4, <1>5 DEF UsedOnce

\* A step that touches no number and puts no request at the writing statement of vouchers
\* leaves their series as it is.
LEMMA QuietAdvances ==
  ASSUME TypeOK, UsedOnce(advance, "receipt_voucher", "record_insert"), Quiet(advance, "receipt_voucher", "record_insert")
  PROVE  UsedOnce(advance, "receipt_voucher", "record_insert")'
<1>1. Distinct(advance)'
  BY DEF UsedOnce, Quiet, Distinct
<1>2. \A x \in DOMAIN advance' : advance'[x].number # None =>
        advance'[x].number.seq <= counter'["receipt_voucher"][advance'[x].number.year]
  BY DEF UsedOnce, Quiet
<1>3. ASSUME NEW v \in Workers, At(v, "record_insert")'
      PROVE  /\ At(v, "record_insert") /\ req'[v].number = req[v].number
             /\ req'[v].number.seq <= counter'["receipt_voucher"][req'[v].number.year]
             /\ \A x \in DOMAIN advance : advance[x].number # req'[v].number
  BY <1>3 DEF UsedOnce, Quiet
<1>4. ASSUME NEW v \in Workers, At(v, "record_insert")', NEW x \in DOMAIN advance'
      PROVE  advance'[x].number # req'[v].number
  BY <1>3, <1>4, DrawnIsNumber DEF Quiet
<1>5. ASSUME NEW v \in Workers, At(v, "record_insert")', NEW w \in Workers, At(w, "record_insert")',
             req'[v].number = req'[w].number
      PROVE  v = w
  BY <1>3, <1>5 DEF UsedOnce
<1> QED
  BY <1>1, <1>2, <1>3, <1>4, <1>5 DEF UsedOnce

\* The number drawn is past every number spent, so nothing bears it or holds it.
LEMMA DrawInvoices ==
  ASSUME TypeOK, UsedOnce(invoice, "invoice", "issue_update"),
         NEW w \in Workers, NEW on \in Days, Spend("invoice", on), UNCHANGED invoice,
         NEW r, Goto(w, r), r.pc = "issue_update", r.number = NumberFor("invoice", on)
  PROVE  UsedOnce(invoice, "invoice", "issue_update")'
<1> DEFINE last == counter["invoice"]
           n == NumberFor("invoice", on)
<1>1. /\ n \in Number /\ n.year \in Years /\ last \in [Years -> Nat]
      /\ n.seq = last[n.year] + 1
      /\ counter'["invoice"] = [last EXCEPT ![n.year] = @ + 1]
  BY DrawTypes DEF TypeOK, Spend, NumberFor, NextInSeries, Number, DocTypes
<1>2. ASSUME NEW m \in Number, m.seq <= last[m.year]
      PROVE  m # n /\ m.seq <= counter'["invoice"][m.year]
  BY <1>1, <1>2 DEF Number
<1>3. \A x \in Invoices : invoice[x].number \in Number \cup {None}
  BY DEF TypeOK, InvoiceRow
<1>4. \A x \in Invoices : invoice[x].number # None =>
        invoice[x].number # n /\ invoice[x].number.seq <= counter'["invoice"][invoice[x].number.year]
  BY <1>2, <1>3 DEF UsedOnce, TypeOK
<1>5. ASSUME NEW v \in Workers \ {w}, At(v, "issue_update")'
      PROVE  /\ At(v, "issue_update") /\ req'[v].number = req[v].number /\ req[v].number # n
             /\ req[v].number.seq <= counter'["invoice"][req[v].number.year]
  <2>1. At(v, "issue_update") /\ req'[v].number = req[v].number
    BY <1>5 DEF At, Goto, TypeOK
  <2> QED
    BY <2>1, <1>2, DrawnIsNumber DEF UsedOnce
<1>6. req'[w].number = n /\ n.seq <= counter'["invoice"][n.year] /\ n # None
  <2>1. req'[w] = r
    BY DEF Goto, TypeOK
  <2>2. n # None
    BY <1>1, LedgerConstants DEF Number, Years
  <2> QED
    BY <2>1, <2>2, <1>1
<1>7. Distinct(invoice)'
  BY DEF UsedOnce, Distinct
<1>8. ASSUME NEW v \in Workers, At(v, "issue_update")'
      PROVE  /\ req'[v].number.seq <= counter'["invoice"][req'[v].number.year]
             /\ \A x \in DOMAIN invoice' : invoice'[x].number # req'[v].number
  <2>1. CASE v = w
    BY <2>1, <1>4, <1>6 DEF TypeOK
  <2>2. CASE v # w
    BY <2>2, <1>5, <1>8 DEF UsedOnce
  <2> QED
    BY <2>1, <2>2
<1>9. ASSUME NEW u \in Workers, NEW v \in Workers, At(u, "issue_update")', At(v, "issue_update")',
             req'[u].number = req'[v].number
      PROVE  u = v
  <2>1. CASE u # w /\ v # w
    BY <2>1, <1>5, <1>9 DEF UsedOnce
  <2>2. CASE u = w \/ v = w
    BY <2>2, <1>5, <1>6, <1>9
  <2> QED
    BY <2>1, <2>2
<1> QED
  BY <1>4, <1>7, <1>8, <1>9 DEF UsedOnce, TypeOK

\* Who bears a drawn number is the only one to bear it, and nobody holds it any more.
LEMMA BearInvoices ==
  ASSUME TypeOK, UsedOnce(invoice, "invoice", "issue_update"),
         NEW w \in Workers, At(w, "issue_update"), Finish(w),
         counter'["invoice"] = counter["invoice"], DOMAIN invoice' = DOMAIN invoice,
         NEW z \in Invoices, invoice'[z].number = req[w].number,
         \A x \in Invoices \ {z} : invoice'[x].number = invoice[x].number
  PROVE  UsedOnce(invoice, "invoice", "issue_update")'
<1>1. DOMAIN invoice = Invoices
  BY DEF TypeOK
<1>2. ASSUME NEW v \in Workers, At(v, "issue_update")'
      PROVE  At(v, "issue_update") /\ req'[v].number = req[v].number /\ v # w
  BY <1>2 DEF At, Finish, Goto, Idle, TypeOK
<1>3. Distinct(invoice)'
  BY <1>1 DEF UsedOnce, Distinct
<1>4. \A x \in DOMAIN invoice' : invoice'[x].number # None =>
        invoice'[x].number.seq <= counter'["invoice"][invoice'[x].number.year]
  BY <1>1 DEF UsedOnce
<1>5. ASSUME NEW v \in Workers, At(v, "issue_update")'
      PROVE  /\ req'[v].number.seq <= counter'["invoice"][req'[v].number.year]
             /\ \A x \in DOMAIN invoice' : invoice'[x].number # req'[v].number
  BY <1>1, <1>2, <1>5 DEF UsedOnce
<1>6. ASSUME NEW u \in Workers, NEW v \in Workers, At(u, "issue_update")', At(v, "issue_update")',
             req'[u].number = req'[v].number
      PROVE  u = v
  BY <1>2, <1>6 DEF UsedOnce
<1> QED
  BY <1>3, <1>4, <1>5, <1>6 DEF UsedOnce

\* The number drawn is past every number spent, so nothing bears it or holds it.
LEMMA DrawNotes ==
  ASSUME TypeOK, UsedOnce(note, "credit_note", "note_update"),
         NEW w \in Workers, NEW on \in Days, Spend("credit_note", on), UNCHANGED note,
         NEW r, Goto(w, r), r.pc = "note_update", r.number = NumberFor("credit_note", on)
  PROVE  UsedOnce(note, "credit_note", "note_update")'
<1> DEFINE last == counter["credit_note"]
           n == NumberFor("credit_note", on)
<1>1. /\ n \in Number /\ n.year \in Years /\ last \in [Years -> Nat]
      /\ n.seq = last[n.year] + 1
      /\ counter'["credit_note"] = [last EXCEPT ![n.year] = @ + 1]
  BY DrawTypes DEF TypeOK, Spend, NumberFor, NextInSeries, Number, DocTypes
<1>2. ASSUME NEW m \in Number, m.seq <= last[m.year]
      PROVE  m # n /\ m.seq <= counter'["credit_note"][m.year]
  BY <1>1, <1>2 DEF Number
<1>3. \A x \in Notes : note[x].number \in Number \cup {None}
  BY DEF TypeOK, NoteRow
<1>4. \A x \in Notes : note[x].number # None =>
        note[x].number # n /\ note[x].number.seq <= counter'["credit_note"][note[x].number.year]
  BY <1>2, <1>3 DEF UsedOnce, TypeOK
<1>5. ASSUME NEW v \in Workers \ {w}, At(v, "note_update")'
      PROVE  /\ At(v, "note_update") /\ req'[v].number = req[v].number /\ req[v].number # n
             /\ req[v].number.seq <= counter'["credit_note"][req[v].number.year]
  <2>1. At(v, "note_update") /\ req'[v].number = req[v].number
    BY <1>5 DEF At, Goto, TypeOK
  <2> QED
    BY <2>1, <1>2, DrawnIsNumber DEF UsedOnce
<1>6. req'[w].number = n /\ n.seq <= counter'["credit_note"][n.year] /\ n # None
  <2>1. req'[w] = r
    BY DEF Goto, TypeOK
  <2>2. n # None
    BY <1>1, LedgerConstants DEF Number, Years
  <2> QED
    BY <2>1, <2>2, <1>1
<1>7. Distinct(note)'
  BY DEF UsedOnce, Distinct
<1>8. ASSUME NEW v \in Workers, At(v, "note_update")'
      PROVE  /\ req'[v].number.seq <= counter'["credit_note"][req'[v].number.year]
             /\ \A x \in DOMAIN note' : note'[x].number # req'[v].number
  <2>1. CASE v = w
    BY <2>1, <1>4, <1>6 DEF TypeOK
  <2>2. CASE v # w
    BY <2>2, <1>5, <1>8 DEF UsedOnce
  <2> QED
    BY <2>1, <2>2
<1>9. ASSUME NEW u \in Workers, NEW v \in Workers, At(u, "note_update")', At(v, "note_update")',
             req'[u].number = req'[v].number
      PROVE  u = v
  <2>1. CASE u # w /\ v # w
    BY <2>1, <1>5, <1>9 DEF UsedOnce
  <2>2. CASE u = w \/ v = w
    BY <2>2, <1>5, <1>6, <1>9
  <2> QED
    BY <2>1, <2>2
<1> QED
  BY <1>4, <1>7, <1>8, <1>9 DEF UsedOnce, TypeOK

\* Who bears a drawn number is the only one to bear it, and nobody holds it any more.
LEMMA BearNotes ==
  ASSUME TypeOK, UsedOnce(note, "credit_note", "note_update"),
         NEW w \in Workers, At(w, "note_update"), Finish(w),
         counter'["credit_note"] = counter["credit_note"], DOMAIN note' = DOMAIN note,
         NEW z \in Notes, note'[z].number = req[w].number,
         \A x \in Notes \ {z} : note'[x].number = note[x].number
  PROVE  UsedOnce(note, "credit_note", "note_update")'
<1>1. DOMAIN note = Notes
  BY DEF TypeOK
<1>2. ASSUME NEW v \in Workers, At(v, "note_update")'
      PROVE  At(v, "note_update") /\ req'[v].number = req[v].number /\ v # w
  BY <1>2 DEF At, Finish, Goto, Idle, TypeOK
<1>3. Distinct(note)'
  BY <1>1 DEF UsedOnce, Distinct
<1>4. \A x \in DOMAIN note' : note'[x].number # None =>
        note'[x].number.seq <= counter'["credit_note"][note'[x].number.year]
  BY <1>1 DEF UsedOnce
<1>5. ASSUME NEW v \in Workers, At(v, "note_update")'
      PROVE  /\ req'[v].number.seq <= counter'["credit_note"][req'[v].number.year]
             /\ \A x \in DOMAIN note' : note'[x].number # req'[v].number
  BY <1>1, <1>2, <1>5 DEF UsedOnce
<1>6. ASSUME NEW u \in Workers, NEW v \in Workers, At(u, "note_update")', At(v, "note_update")',
             req'[u].number = req'[v].number
      PROVE  u = v
  BY <1>2, <1>6 DEF UsedOnce
<1> QED
  BY <1>3, <1>4, <1>5, <1>6 DEF UsedOnce

\* The number drawn is past every number spent, so nothing bears it or holds it.
LEMMA DrawAdvances ==
  ASSUME TypeOK, UsedOnce(advance, "receipt_voucher", "record_insert"),
         NEW w \in Workers, NEW on \in Days, Spend("receipt_voucher", on), UNCHANGED advance,
         NEW r, Goto(w, r), r.pc = "record_insert", r.number = NumberFor("receipt_voucher", on)
  PROVE  UsedOnce(advance, "receipt_voucher", "record_insert")'
<1> DEFINE last == counter["receipt_voucher"]
           n == NumberFor("receipt_voucher", on)
<1>1. /\ n \in Number /\ n.year \in Years /\ last \in [Years -> Nat]
      /\ n.seq = last[n.year] + 1
      /\ counter'["receipt_voucher"] = [last EXCEPT ![n.year] = @ + 1]
  BY DrawTypes DEF TypeOK, Spend, NumberFor, NextInSeries, Number, DocTypes
<1>2. ASSUME NEW m \in Number, m.seq <= last[m.year]
      PROVE  m # n /\ m.seq <= counter'["receipt_voucher"][m.year]
  BY <1>1, <1>2 DEF Number
<1>3. \A x \in Advances : advance[x].number \in Number \cup {None}
  BY DEF TypeOK, AdvanceRow
<1>4. \A x \in Advances : advance[x].number # None =>
        advance[x].number # n /\ advance[x].number.seq <= counter'["receipt_voucher"][advance[x].number.year]
  BY <1>2, <1>3 DEF UsedOnce, TypeOK
<1>5. ASSUME NEW v \in Workers \ {w}, At(v, "record_insert")'
      PROVE  /\ At(v, "record_insert") /\ req'[v].number = req[v].number /\ req[v].number # n
             /\ req[v].number.seq <= counter'["receipt_voucher"][req[v].number.year]
  <2>1. At(v, "record_insert") /\ req'[v].number = req[v].number
    BY <1>5 DEF At, Goto, TypeOK
  <2> QED
    BY <2>1, <1>2, DrawnIsNumber DEF UsedOnce
<1>6. req'[w].number = n /\ n.seq <= counter'["receipt_voucher"][n.year] /\ n # None
  <2>1. req'[w] = r
    BY DEF Goto, TypeOK
  <2>2. n # None
    BY <1>1, LedgerConstants DEF Number, Years
  <2> QED
    BY <2>1, <2>2, <1>1
<1>7. Distinct(advance)'
  BY DEF UsedOnce, Distinct
<1>8. ASSUME NEW v \in Workers, At(v, "record_insert")'
      PROVE  /\ req'[v].number.seq <= counter'["receipt_voucher"][req'[v].number.year]
             /\ \A x \in DOMAIN advance' : advance'[x].number # req'[v].number
  <2>1. CASE v = w
    BY <2>1, <1>4, <1>6 DEF TypeOK
  <2>2. CASE v # w
    BY <2>2, <1>5, <1>8 DEF UsedOnce
  <2> QED
    BY <2>1, <2>2
<1>9. ASSUME NEW u \in Workers, NEW v \in Workers, At(u, "record_insert")', At(v, "record_insert")',
             req'[u].number = req'[v].number
      PROVE  u = v
  <2>1. CASE u # w /\ v # w
    BY <2>1, <1>5, <1>9 DEF UsedOnce
  <2>2. CASE u = w \/ v = w
    BY <2>2, <1>5, <1>6, <1>9
  <2> QED
    BY <2>1, <2>2
<1> QED
  BY <1>4, <1>7, <1>8, <1>9 DEF UsedOnce, TypeOK

\* Who bears a drawn number is the only one to bear it, and nobody holds it any more.
LEMMA BearAdvances ==
  ASSUME TypeOK, UsedOnce(advance, "receipt_voucher", "record_insert"),
         NEW w \in Workers, At(w, "record_insert"), Finish(w),
         counter'["receipt_voucher"] = counter["receipt_voucher"], DOMAIN advance' = DOMAIN advance,
         NEW z \in Advances, advance'[z].number = req[w].number,
         \A x \in Advances \ {z} : advance'[x].number = advance[x].number
  PROVE  UsedOnce(advance, "receipt_voucher", "record_insert")'
<1>1. DOMAIN advance = Advances
  BY DEF TypeOK
<1>2. ASSUME NEW v \in Workers, At(v, "record_insert")'
      PROVE  At(v, "record_insert") /\ req'[v].number = req[v].number /\ v # w
  BY <1>2 DEF At, Finish, Goto, Idle, TypeOK
<1>3. Distinct(advance)'
  BY <1>1 DEF UsedOnce, Distinct
<1>4. \A x \in DOMAIN advance' : advance'[x].number # None =>
        advance'[x].number.seq <= counter'["receipt_voucher"][advance'[x].number.year]
  BY <1>1 DEF UsedOnce
<1>5. ASSUME NEW v \in Workers, At(v, "record_insert")'
      PROVE  /\ req'[v].number.seq <= counter'["receipt_voucher"][req'[v].number.year]
             /\ \A x \in DOMAIN advance' : advance'[x].number # req'[v].number
  BY <1>1, <1>2, <1>5 DEF UsedOnce
<1>6. ASSUME NEW u \in Workers, NEW v \in Workers, At(u, "record_insert")', At(v, "record_insert")',
             req'[u].number = req'[v].number
      PROVE  u = v
  BY <1>2, <1>6 DEF UsedOnce
<1> QED
  BY <1>3, <1>4, <1>5, <1>6 DEF UsedOnce

\* No invoice handler touches the series of notes and of vouchers.
LEMMA InvoiceStepQuiet ==
  ASSUME TypeOK, NEW w \in Workers, InvoiceStep(w)
  PROVE  /\ Quiet(note, "credit_note", "note_update")
         /\ Quiet(advance, "receipt_voucher", "record_insert")
<1> USE DEF Quiet, Others, At, Goto, Finish, Idle, TypeOK
<1>1. CASE CreateStart(w)
  BY <1>1 DEF CreateStart
<1>2. CASE CreateCheck(w)
  BY <1>2 DEF CreateCheck
<1>3. CASE CreateInsert(w)
  BY <1>3 DEF CreateInsert
<1>4. CASE CreateLines(w)
  BY <1>4 DEF CreateLines
<1>5. CASE IssueRead(w)
  BY <1>5 DEF IssueRead
<1>6. CASE IssueCount(w)
  BY <1>6 DEF IssueCount
<1>7. CASE IssueDraw(w)
  BY <1>7 DEF IssueDraw, Spend, DocTypes
<1>8. CASE IssueUpdate(w)
  BY <1>8 DEF IssueUpdate
<1>9. CASE CancelRead(w)
  BY <1>9 DEF CancelRead
<1>10. CASE CancelPayments(w)
  BY <1>10 DEF CancelPayments
<1>11. CASE CancelDiscard(w)
  BY <1>11 DEF CancelDiscard
<1>12. CASE CancelUpdate(w)
  BY <1>12 DEF CancelUpdate
<1> QED
  BY <1>1, <1>2, <1>3, <1>4, <1>5, <1>6, <1>7, <1>8, <1>9, <1>10, <1>11, <1>12 DEF InvoiceStep

\* No settlement handler touches the series of invoices.
LEMMA SettlementStepQuiet ==
  ASSUME TypeOK, NEW w \in Workers, SettlementStep(w)
  PROVE  Quiet(invoice, "invoice", "issue_update")
<1> USE DEF Quiet, Elsewhere, At, Goto, Finish, Idle, TypeOK
<1>1. CASE PayRead(w)
  BY <1>1 DEF PayRead
<1>2. CASE PayCheck(w)
  BY <1>2 DEF PayCheck
<1>3. CASE PayInsert(w)
  BY <1>3 DEF PayInsert
<1>4. CASE RaiseRead(w)
  BY <1>4 DEF RaiseRead
<1>5. CASE RaiseCheck(w)
  BY <1>5 DEF RaiseCheck
<1>6. CASE RaiseInsert(w)
  BY <1>6 DEF RaiseInsert
<1>7. CASE RaiseLines(w)
  BY <1>7 DEF RaiseLines
<1>8. CASE NoteRead(w)
  BY <1>8 DEF NoteRead
<1>9. CASE NoteDraw(w)
  BY <1>9 DEF NoteDraw, Spend, DocTypes
<1>10. CASE NoteUpdate(w)
  BY <1>10 DEF NoteUpdate
<1>11. CASE RecordStart(w)
  BY <1>11 DEF RecordStart
<1>12. CASE RecordDraw(w)
  BY <1>12 DEF RecordDraw, Spend, DocTypes
<1>13. CASE RecordInsert(w)
  BY <1>13 DEF RecordInsert
<1>14. CASE AdjustRead(w)
  BY <1>14 DEF AdjustRead
<1>15. CASE AdjustCheck(w)
  BY <1>15 DEF AdjustCheck
<1>16. CASE AdjustUpdate(w)
  BY <1>16 DEF AdjustUpdate
<1> QED
  BY <1>1, <1>2, <1>3, <1>4, <1>5, <1>6, <1>7, <1>8, <1>9, <1>10, <1>11, <1>12, <1>13, <1>14, <1>15, <1>16 DEF SettlementStep

\* The invoice series: only the draw and the UPDATE that follows it are not quiet.
LEMMA InvoiceNumbersUsedOnce ==
  ASSUME TypeOK, TypeOK', UsedOnce(invoice, "invoice", "issue_update"), NEW w \in Workers, InvoiceStep(w)
  PROVE  UsedOnce(invoice, "invoice", "issue_update")'
<1> USE DEF TypeOK
<1>1. CASE CreateStart(w)
  BY <1>1, QuietInvoices DEF Quiet, At, Goto, Finish, Idle, CreateStart, Others
<1>2. CASE CreateCheck(w)
  BY <1>2, QuietInvoices DEF Quiet, At, Goto, Finish, Idle, CreateCheck, Others
<1>3. CASE CreateInsert(w)
  BY <1>3, QuietInvoices DEF Quiet, At, Goto, Finish, Idle, CreateInsert, Others
<1>4. CASE CreateLines(w)
  BY <1>4, QuietInvoices DEF Quiet, At, Goto, Finish, Idle, CreateLines, Others
<1>5. CASE IssueRead(w)
  BY <1>5, QuietInvoices DEF Quiet, At, Goto, Finish, Idle, IssueRead, Others
<1>6. CASE IssueCount(w)
  BY <1>6, QuietInvoices DEF Quiet, At, Goto, Finish, Idle, IssueCount, Others
<1>7. CASE IssueDraw(w)
  <2> DEFINE r == [pc |-> "issue_update", inv |-> req[w].inv, on |-> req[w].on,
                   number |-> NumberFor("invoice", req[w].on)]
  <2>1. req[w].on \in Days /\ Spend("invoice", req[w].on) /\ Goto(w, r) /\ UNCHANGED invoice
    BY <1>7, RequestFields DEF IssueDraw, Others
  <2> QED
    BY <2>1, DrawInvoices
<1>8. CASE IssueUpdate(w)
  <2> DEFINE i == req[w].inv
  <2>1. i \in Invoices /\ At(w, "issue_update") /\ Finish(w) /\ UNCHANGED counter
    BY <1>8, RequestFields DEF IssueUpdate
  <2>2. CASE StillDraft(i)
    <3>1. /\ DOMAIN invoice' = DOMAIN invoice
          /\ invoice'[i].number = req[w].number
          /\ \A x \in Invoices \ {i} : invoice'[x].number = invoice[x].number
      BY <1>8, <2>1, <2>2 DEF IssueUpdate, InvoiceRow
    <3> QED
      BY <2>1, <3>1, BearInvoices, SMTT(40)
  <2>3. CASE ~StillDraft(i)
    <3>1. UNCHANGED invoice
      BY <1>8, <2>3 DEF IssueUpdate
    <3> QED
      BY <2>1, <3>1, QuietInvoices DEF Quiet, At, Goto, Finish, Idle
  <2> QED
    BY <2>2, <2>3
<1>9. CASE CancelRead(w)
  BY <1>9, QuietInvoices DEF Quiet, At, Goto, Finish, Idle, CancelRead, Others
<1>10. CASE CancelPayments(w)
  BY <1>10, QuietInvoices DEF Quiet, At, Goto, Finish, Idle, CancelPayments, Others
<1>11. CASE CancelDiscard(w)
  BY <1>11, QuietInvoices DEF Quiet, At, Goto, Finish, Idle, CancelDiscard, Others, NoInvoice
<1>12. CASE CancelUpdate(w)
  BY <1>12, QuietInvoices DEF Quiet, At, Goto, Finish, Idle, CancelUpdate, Others
<1> QED
  BY <1>1, <1>2, <1>3, <1>4, <1>5, <1>6, <1>7, <1>8, <1>9, <1>10, <1>11, <1>12 DEF InvoiceStep

\* The series of credit notes: a note issued twice loses its first number to nobody.
LEMMA NoteNumbersUsedOnce ==
  ASSUME TypeOK, TypeOK', UsedOnce(note, "credit_note", "note_update"), NEW w \in Workers, SettlementStep(w)
  PROVE  UsedOnce(note, "credit_note", "note_update")'
<1> USE DEF TypeOK
<1>1. CASE PayRead(w)
  BY <1>1, QuietNotes DEF Quiet, At, Goto, Finish, Idle, PayRead, Elsewhere
<1>2. CASE PayCheck(w)
  BY <1>2, QuietNotes, SMTT(40) DEF Quiet, At, Goto, Finish, Idle, PayCheck, Elsewhere
<1>3. CASE PayInsert(w)
  BY <1>3, QuietNotes DEF Quiet, At, Goto, Finish, Idle, PayInsert, Elsewhere
<1>4. CASE RaiseRead(w)
  BY <1>4, QuietNotes DEF Quiet, At, Goto, Finish, Idle, RaiseRead, Elsewhere
<1>5. CASE RaiseCheck(w)
  BY <1>5, QuietNotes DEF Quiet, At, Goto, Finish, Idle, RaiseCheck, Elsewhere
<1>6. CASE RaiseInsert(w)
  BY <1>6, QuietNotes DEF Quiet, At, Goto, Finish, Idle, RaiseInsert, Elsewhere
<1>7. CASE RaiseLines(w)
  BY <1>7, QuietNotes DEF Quiet, At, Goto, Finish, Idle, RaiseLines, Elsewhere
<1>8. CASE NoteRead(w)
  BY <1>8, QuietNotes DEF Quiet, At, Goto, Finish, Idle, NoteRead, Elsewhere
<1>9. CASE NoteDraw(w)
  <2> DEFINE r == [pc |-> "note_update", note |-> req[w].note,
                   number |-> NumberFor("credit_note", req[w].on)]
  <2>1. req[w].on \in Days /\ Spend("credit_note", req[w].on) /\ Goto(w, r) /\ UNCHANGED note
    BY <1>9, RequestFields DEF NoteDraw
  <2> QED
    BY <2>1, DrawNotes
<1>10. CASE NoteUpdate(w)
  <2> DEFINE n == req[w].note
  <2>1. n \in Notes /\ At(w, "note_update") /\ Finish(w) /\ UNCHANGED counter
    BY <1>10, RequestFields DEF NoteUpdate
  <2>2. /\ DOMAIN note' = DOMAIN note
        /\ note'[n].number = req[w].number
        /\ \A x \in Notes \ {n} : note'[x].number = note[x].number
    BY <1>10, <2>1 DEF NoteUpdate, NoteRow
  <2> QED
    BY <2>1, <2>2, BearNotes
<1>11. CASE RecordStart(w)
  BY <1>11, QuietNotes DEF Quiet, At, Goto, Finish, Idle, RecordStart, Elsewhere
<1>12. CASE RecordDraw(w)
  BY <1>12, QuietNotes DEF Quiet, At, Goto, Finish, Idle, RecordDraw, Elsewhere, Spend, DocTypes
<1>13. CASE RecordInsert(w)
  BY <1>13, QuietNotes DEF Quiet, At, Goto, Finish, Idle, RecordInsert, Elsewhere
<1>14. CASE AdjustRead(w)
  BY <1>14, QuietNotes DEF Quiet, At, Goto, Finish, Idle, AdjustRead, Elsewhere
<1>15. CASE AdjustCheck(w)
  BY <1>15, QuietNotes, SMTT(40) DEF Quiet, At, Goto, Finish, Idle, AdjustCheck, Elsewhere
<1>16. CASE AdjustUpdate(w)
  BY <1>16, QuietNotes DEF Quiet, At, Goto, Finish, Idle, AdjustUpdate, Elsewhere
<1> QED
  BY <1>1, <1>2, <1>3, <1>4, <1>5, <1>6, <1>7, <1>8, <1>9, <1>10, <1>11, <1>12, <1>13, <1>14, <1>15, <1>16 DEF SettlementStep

\* The series of receipt vouchers, whose row is inserted with its number.
LEMMA VoucherNumbersUsedOnce ==
  ASSUME TypeOK, TypeOK', UsedOnce(advance, "receipt_voucher", "record_insert"), NEW w \in Workers, SettlementStep(w)
  PROVE  UsedOnce(advance, "receipt_voucher", "record_insert")'
<1> USE DEF TypeOK
<1>1. CASE PayRead(w)
  BY <1>1, QuietAdvances DEF Quiet, At, Goto, Finish, Idle, PayRead, Elsewhere
<1>2. CASE PayCheck(w)
  BY <1>2, QuietAdvances, SMTT(40) DEF Quiet, At, Goto, Finish, Idle, PayCheck, Elsewhere
<1>3. CASE PayInsert(w)
  BY <1>3, QuietAdvances DEF Quiet, At, Goto, Finish, Idle, PayInsert, Elsewhere
<1>4. CASE RaiseRead(w)
  BY <1>4, QuietAdvances DEF Quiet, At, Goto, Finish, Idle, RaiseRead, Elsewhere
<1>5. CASE RaiseCheck(w)
  BY <1>5, QuietAdvances DEF Quiet, At, Goto, Finish, Idle, RaiseCheck, Elsewhere
<1>6. CASE RaiseInsert(w)
  BY <1>6, QuietAdvances DEF Quiet, At, Goto, Finish, Idle, RaiseInsert, Elsewhere
<1>7. CASE RaiseLines(w)
  BY <1>7, QuietAdvances DEF Quiet, At, Goto, Finish, Idle, RaiseLines, Elsewhere
<1>8. CASE NoteRead(w)
  BY <1>8, QuietAdvances DEF Quiet, At, Goto, Finish, Idle, NoteRead, Elsewhere
<1>9. CASE NoteDraw(w)
  BY <1>9, QuietAdvances DEF Quiet, At, Goto, Finish, Idle, NoteDraw, Elsewhere, Spend, DocTypes
<1>10. CASE NoteUpdate(w)
  BY <1>10, QuietAdvances DEF Quiet, At, Goto, Finish, Idle, NoteUpdate, Elsewhere
<1>11. CASE RecordStart(w)
  BY <1>11, QuietAdvances DEF Quiet, At, Goto, Finish, Idle, RecordStart, Elsewhere
<1>12. CASE RecordDraw(w)
  <2> DEFINE r == [pc |-> "record_insert", customer |-> req[w].customer, on |-> req[w].on,
                   number |-> NumberFor("receipt_voucher", req[w].on)]
  <2>1. req[w].on \in Days /\ Spend("receipt_voucher", req[w].on) /\ Goto(w, r) /\ UNCHANGED advance
    BY <1>12, RequestFields DEF RecordDraw
  <2> QED
    BY <2>1, DrawAdvances
<1>13. CASE RecordInsert(w)
  <2>1. At(w, "record_insert") /\ Finish(w) /\ UNCHANGED counter
    BY <1>13 DEF RecordInsert
  <2>2. PICK a \in Advances :
          advance' = [advance EXCEPT ![a] =
                [status |-> "OPEN", number |-> req[w].number, date |-> req[w].on,
                 customer |-> req[w].customer, inv |-> None]]
    BY <1>13 DEF RecordInsert
  <2>3. /\ DOMAIN advance' = DOMAIN advance
        /\ advance'[a].number = req[w].number
        /\ \A x \in Advances \ {a} : advance'[x].number = advance[x].number
    BY <2>2
  <2> QED
    BY <2>1, <2>3, BearAdvances
<1>14. CASE AdjustRead(w)
  BY <1>14, QuietAdvances DEF Quiet, At, Goto, Finish, Idle, AdjustRead, Elsewhere
<1>15. CASE AdjustCheck(w)
  BY <1>15, QuietAdvances, SMTT(40) DEF Quiet, At, Goto, Finish, Idle, AdjustCheck, Elsewhere
<1>16. CASE AdjustUpdate(w)
  BY <1>16, QuietAdvances DEF Quiet, At, Goto, Finish, Idle, AdjustUpdate, Elsewhere
<1> QED
  BY <1>1, <1>2, <1>3, <1>4, <1>5, <1>6, <1>7, <1>8, <1>9, <1>10, <1>11, <1>12, <1>13, <1>14, <1>15, <1>16 DEF SettlementStep

\* A number is drawn once, held by one request or borne by one document, at every step of
\* every handler: next_in_series and the statements that write what it returned.
THEOREM NumbersAlwaysUsedOnce == Spec => []NumbersUsedOnce
<1>1. Init => NumbersUsedOnce
  BY DEF Init, NumbersUsedOnce, UsedOnce, Distinct, NoInvoice, At, Idle
<1>2. TypeOK /\ TypeOK' /\ NumbersUsedOnce /\ [Next]_vars => NumbersUsedOnce'
  <2> SUFFICES ASSUME TypeOK, TypeOK', NumbersUsedOnce, [Next]_vars PROVE NumbersUsedOnce'
    OBVIOUS
  <2>1. CASE NextDay
    BY <2>1 DEF NextDay, NumbersUsedOnce, UsedOnce, Distinct, At
  <2>2. ASSUME NEW w \in Workers, InvoiceStep(w) PROVE NumbersUsedOnce'
    BY <2>2, InvoiceStepQuiet, InvoiceNumbersUsedOnce, QuietNotes, QuietAdvances
       DEF NumbersUsedOnce
  <2>3. ASSUME NEW w \in Workers, SettlementStep(w) PROVE NumbersUsedOnce'
    BY <2>3, SettlementStepQuiet, NoteNumbersUsedOnce, VoucherNumbersUsedOnce, QuietInvoices
       DEF NumbersUsedOnce
  <2>4. ASSUME NEW w \in Workers, Crash(w) PROVE NumbersUsedOnce'
    <3>1. /\ Quiet(invoice, "invoice", "issue_update")
          /\ Quiet(note, "credit_note", "note_update")
          /\ Quiet(advance, "receipt_voucher", "record_insert")
      BY <2>4 DEF Crash, Quiet, At, Goto, Finish, Idle, TypeOK
    <3> QED
      BY <3>1, QuietInvoices, QuietNotes, QuietAdvances DEF NumbersUsedOnce
  <2>5. CASE UNCHANGED vars
    BY <2>5 DEF vars, NumbersUsedOnce, UsedOnce, Distinct, At
  <2> QED
    BY <2>1, <2>2, <2>3, <2>4, <2>5 DEF Next
<1> QED
  BY <1>1, <1>2, TypeCorrect, PTL DEF Spec

\* And so no two invoices, credit notes or vouchers ever bear one number.
THEOREM NumbersAlwaysDistinct == Spec => []NumbersDistinct
<1>1. NumbersUsedOnce => NumbersDistinct
  BY DEF NumbersUsedOnce, UsedOnce, NumbersDistinct
<1> QED
  BY <1>1, NumbersAlwaysUsedOnce, PTL
=============================================================================
