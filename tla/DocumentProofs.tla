---------------------------- MODULE DocumentProofs ---------------------------
(* What holds of the documents of the billing core, of the money on them and of *)
(* what is read off them, for every set of workers, documents, supplies and     *)
(* amounts.                                                                     *)
EXTENDS Screens, BillingProofs, FiniteSums

(***************************************************************************)
(* What each group of handlers never writes.                                *)
(***************************************************************************)

\* The handlers of invoices write invoices, and draw their numbers, only.
LEMMA InvoiceStepLeaves ==
  ASSUME NEW w \in Workers, InvoiceStep(w)
  PROVE  UNCHANGED <<note, advance, paid, today>>
  BY DEF InvoiceStep, Others, CreateStart, CreateCheck, CreateInsert, CreateLines, IssueRead,
     IssueCount, IssueDraw, IssueUpdate, CancelRead, CancelPayments, CancelDiscard, CancelUpdate

\* The handlers of payments, credit notes and advances write no invoice.
LEMMA SettlementStepLeaves ==
  ASSUME NEW w \in Workers, SettlementStep(w)
  PROVE  UNCHANGED <<invoice, today>>
  BY DEF SettlementStep, Elsewhere, PayRead, PayCheck, PayInsert, RaiseRead, RaiseCheck,
     RaiseInsert, RaiseLines, NoteRead, NoteDraw, NoteUpdate, RecordStart, RecordDraw, RecordInsert,
     AdjustRead, AdjustCheck, AdjustUpdate
-----------------------------------------------------------------------------
(***************************************************************************)
(* The inductive invariant: one predicate on the rows, one on what requests *)
(* in flight know of the rows they are about to write.                      *)
(***************************************************************************)

\* An invoice has a number, and lines, exactly when it was issued.
Numbered(i) ==
    /\ invoice[i].status \in {"ISSUED", "CANCELLED"} => invoice[i].number # None /\ invoice[i].lines
    /\ invoice[i].status \in {"ABSENT", "DRAFT", "DELETED"} => invoice[i].number = None

\* The row a request names was inserted; a draft about to be issued has its lines, and
\* what was read as issued is a draft no more.
NamesRow(w) ==
    /\ req[w].pc \in {"create_lines", "issue_count", "issue_draw", "issue_update",
                      "cancel_payments", "cancel_write", "adjust_check", "adjust_update"} =>
        invoice[req[w].inv].status # "ABSENT"
    /\ At(w, "issue_draw") \/ At(w, "issue_update") =>
        (invoice[req[w].inv].status = "DRAFT" => invoice[req[w].inv].lines)
    /\ At(w, "cancel_payments") \/ At(w, "cancel_write") =>
        (req[w].was = "ISSUED" => invoice[req[w].inv].status # "DRAFT")

Register ==
    /\ \A i \in Invoices : Numbered(i)
    /\ \A w \in Workers : NamesRow(w)
-----------------------------------------------------------------------------
\* Every statement on an invoice keeps the register.
LEMMA InvoiceStepRegister ==
  ASSUME TypeOK, Register, NEW w \in Workers, InvoiceStep(w)
  PROVE  Register'
<1> USE DEF Others, Register, Numbered, NamesRow, At, Goto, Finish, Idle
<1>0. invoice \in [Invoices -> InvoiceRow] /\ req \in [Workers -> Request]
  BY DEF TypeOK
<1>1. CASE CreateStart(w)
  BY <1>0, <1>1 DEF CreateStart
<1>2. CASE CreateCheck(w)
  BY <1>0, <1>2 DEF CreateCheck
<1>3. CASE CreateInsert(w)
  <2>1. CASE CreateConflict(w)
    BY <1>0, <1>3, <2>1 DEF CreateInsert
  <2>2. CASE ~CreateConflict(w)
    <3>1. PICK i \in Invoices :
            /\ invoice[i].status = "ABSENT"
            /\ invoice'[i].status = "DRAFT" /\ invoice'[i].number = None
            /\ \A x \in Invoices \ {i} : invoice'[x] = invoice[x]
            /\ req' = [req EXCEPT ![w] = [pc |-> "create_lines", inv |-> i]]
      BY <1>0, <1>3, <2>2 DEF CreateInsert
    <3> QED
      BY <1>0, <3>1, RequestFields
  <2> QED
    BY <2>1, <2>2
<1>4. CASE CreateLines(w)
  BY <1>0, <1>4 DEF CreateLines, InvoiceRow
<1>5. CASE IssueRead(w)
  BY <1>0, <1>5 DEF IssueRead
<1>6. CASE IssueCount(w)
  BY <1>0, <1>6 DEF IssueCount, HasLines
<1>7. CASE IssueDraw(w)
  BY <1>0, <1>7, SMTT(40) DEF IssueDraw
<1>8. CASE IssueUpdate(w)
  <2>1. req[w].inv \in Invoices /\ req[w].number # None
    BY <1>8, RequestFields, DrawnIsNumber, SMTT(40) DEF IssueUpdate
  <2>2. CASE StillDraft(req[w].inv)
    <3>1. /\ invoice[req[w].inv].lines
          /\ invoice' = [invoice EXCEPT ![req[w].inv] =
                [@ EXCEPT !.status = "ISSUED", !.number = req[w].number, !.date = req[w].on]]
      BY <1>0, <1>8, <2>1, <2>2 DEF IssueUpdate, StillDraft, InvoiceRow, IssueDate
    <3>2. /\ invoice'[req[w].inv].status = "ISSUED"
          /\ invoice'[req[w].inv].number # None /\ invoice'[req[w].inv].lines
          /\ \A i \in Invoices \ {req[w].inv} : invoice'[i] = invoice[i]
      BY <1>0, <2>1, <3>1 DEF InvoiceRow
    <3> QED
      BY <1>0, <1>8, <2>1, <3>2, RequestFields, ZenonT(60) DEF IssueUpdate
  <2> QED
    BY <1>0, <1>8, <2>1, <2>2 DEF IssueUpdate
<1>9. CASE CancelRead(w)
  BY <1>0, <1>9 DEF CancelRead
<1>10. CASE CancelPayments(w)
  BY <1>0, <1>10 DEF CancelPayments
<1>11. CASE CancelDiscard(w)
  BY <1>0, <1>11 DEF CancelDiscard, NoInvoice
<1>12. CASE CancelUpdate(w)
  BY <1>0, <1>12 DEF CancelUpdate, Present, InvoiceRow
<1> QED
  BY <1>1, <1>2, <1>3, <1>4, <1>5, <1>6, <1>7, <1>8, <1>9, <1>10, <1>11, <1>12 DEF InvoiceStep

\* A request of a settlement handler that names an invoice, if the row is needed, names one
\* that is there.
Settles(r) ==
    /\ r.pc \in {"adjust_check", "adjust_update"} => invoice[r.inv].status # "ABSENT"
    /\ r.pc \notin {"create_lines", "issue_count", "issue_draw", "issue_update",
                    "cancel_payments", "cancel_write"}

\* No settlement handler writes an invoice; one that adjusts an advance read it first.
LEMMA SettlementMoves ==
  ASSUME \A w \in Workers : NamesRow(w), NEW w \in Workers, SettlementStep(w)
  PROVE  UNCHANGED invoice /\ (UNCHANGED req \/ \E r : Goto(w, r) /\ Settles(r))
<1> USE DEF Elsewhere, Finish
<1>0. Settles(Idle) /\ NamesRow(w)
  BY DEF Settles, Idle
<1>1. CASE PayRead(w)
  BY <1>0, <1>1 DEF PayRead, Settles
<1>2. CASE PayCheck(w)
  <2>1. CASE Exceeds(req[w])
    BY <1>0, <1>2, <2>1 DEF PayCheck
  <2>2. CASE ~Exceeds(req[w])
    BY <1>2, <2>2 DEF PayCheck, Settles
  <2> QED
    BY <2>1, <2>2
<1>3. CASE PayInsert(w)
  BY <1>0, <1>3 DEF PayInsert, Settles
<1>4. CASE RaiseRead(w)
  BY <1>0, <1>4 DEF RaiseRead, Settles
<1>5. CASE RaiseCheck(w)
  <2>1. CASE req[w].total > Creditable(req[w].inv)
    BY <1>0, <1>5, <2>1 DEF RaiseCheck
  <2>2. CASE ~(req[w].total > Creditable(req[w].inv))
    BY <1>5, <2>2 DEF RaiseCheck, Settles
  <2> QED
    BY <2>1, <2>2
<1>6. CASE RaiseInsert(w)
  <2>1. CASE ~Present(req[w].inv)
    BY <1>0, <1>6, <2>1 DEF RaiseInsert
  <2>2. ASSUME NEW n \in Notes, Goto(w, [pc |-> "raise_lines", note |-> n])
        PROVE  \E r : Goto(w, r) /\ Settles(r)
    BY <2>2 DEF Settles
  <2> QED
    BY <1>6, <2>1, <2>2 DEF RaiseInsert
<1>7. CASE RaiseLines(w)
  BY <1>0, <1>7 DEF RaiseLines, Settles
<1>8. CASE NoteRead(w)
  BY <1>0, <1>8 DEF NoteRead, Settles
<1>9. CASE NoteDraw(w)
  BY <1>0, <1>9 DEF NoteDraw, Settles
<1>10. CASE NoteUpdate(w)
  BY <1>0, <1>10 DEF NoteUpdate, Settles
<1>11. CASE RecordStart(w)
  BY <1>0, <1>11 DEF RecordStart, Settles
<1>12. CASE RecordDraw(w)
  BY <1>0, <1>12 DEF RecordDraw, Settles
<1>13. CASE RecordInsert(w)
  BY <1>0, <1>13 DEF RecordInsert, Settles
<1>14. CASE AdjustRead(w)
  BY <1>0, <1>14 DEF AdjustRead, Settles, Present
<1>15. CASE AdjustCheck(w)
  BY <1>0, <1>15 DEF AdjustCheck, Settles, NamesRow, At
<1>16. CASE AdjustUpdate(w)
  BY <1>0, <1>16 DEF AdjustUpdate, Settles
<1> QED
  BY <1>1, <1>2, <1>3, <1>4, <1>5, <1>6, <1>7, <1>8, <1>9, <1>10, <1>11, <1>12, <1>13, <1>14, <1>15,
     <1>16 DEF SettlementStep

\* So every one of them keeps the register.
LEMMA SettlementStepRegister ==
  ASSUME TypeOK, Register, NEW w \in Workers, SettlementStep(w)
  PROVE  Register'
<1>1. UNCHANGED invoice /\ (UNCHANGED req \/ \E r : Goto(w, r) /\ Settles(r))
  BY SettlementMoves DEF Register
<1>2. CASE UNCHANGED req
  BY <1>1, <1>2 DEF Register, Numbered, NamesRow, At
<1>3. ASSUME NEW r, Goto(w, r), Settles(r)
      PROVE  Register'
  <2>1. req'[w] = r /\ \A v \in Workers \ {w} : req'[v] = req[v]
    BY <1>3 DEF Goto, TypeOK
  <2>2. \A v \in Workers : NamesRow(v)'
    BY <1>1, <1>3, <2>1 DEF Register, NamesRow, Settles, At
  <2> QED
    BY <1>1, <2>2 DEF Register, Numbered
<1> QED
  BY <1>1, <1>2, <1>3

\* The register holds from the empty tables on, wherever a request dies.
LEMMA RegisterKept == Spec => []Register
<1>1. Init => Register
  BY DEF Init, Register, Numbered, NamesRow, NoInvoice, At, Idle
<1>2. TypeOK /\ Register /\ [Next]_vars => Register'
  <2> SUFFICES ASSUME TypeOK, Register, [Next]_vars PROVE Register'
    OBVIOUS
  <2>1. CASE NextDay
    BY <2>1 DEF NextDay, Register, Numbered, NamesRow, At
  <2>2. ASSUME NEW w \in Workers, InvoiceStep(w) PROVE Register'
    BY <2>2, InvoiceStepRegister
  <2>3. ASSUME NEW w \in Workers, SettlementStep(w) PROVE Register'
    BY <2>3, SettlementStepRegister
  <2>4. ASSUME NEW w \in Workers, Crash(w) PROVE Register'
    BY <2>4 DEF Crash, Register, Numbered, NamesRow, At, Goto, Finish, Idle, TypeOK
  <2>5. CASE UNCHANGED vars
    BY <2>5 DEF vars, Register, Numbered, NamesRow, At
  <2> QED
    BY <2>1, <2>2, <2>3, <2>4, <2>5 DEF Next
<1> QED
  BY <1>1, <1>2, TypeCorrect, PTL DEF Spec

\* A row has a number exactly when it was issued, and then it has lines: POST /:id/issue
\* counts them several statements before it writes the number.
THEOREM IssuedAlwaysComplete == Spec => []IssuedIsComplete
<1>1. Register => IssuedIsComplete
  BY DEF Register, Numbered, IssuedIsComplete, Present
<1> QED
  BY <1>1, RegisterKept, PTL
-----------------------------------------------------------------------------
\* What one step may do to the number and the status of a row that has a number.
LEMMA NumberedRowMoves ==
  ASSUME TypeOK, Register, [Next]_vars, NEW i \in Invoices, Present(i), invoice[i].number # None
  PROVE  \/ invoice'[i].status = "DELETED"
         \/ /\ invoice'[i].number = invoice[i].number
            /\ invoice'[i].date = invoice[i].date
            /\ invoice'[i].status \in {invoice[i].status, "CANCELLED"}
<1> USE DEF Present
<1>0. invoice \in [Invoices -> InvoiceRow] /\ invoice[i].status \notin {"ABSENT", "DRAFT"}
  BY DEF TypeOK, Register, Numbered
<1>1. CASE UNCHANGED invoice
  BY <1>1
<1>2. ASSUME NEW w \in Workers, InvoiceStep(w), invoice' # invoice
      PROVE  \/ invoice'[i].status = "DELETED"
             \/ /\ invoice'[i].number = invoice[i].number
                /\ invoice'[i].date = invoice[i].date
                /\ invoice'[i].status \in {invoice[i].status, "CANCELLED"}
  <2>1. CASE CreateInsert(w)
    BY <1>0, <1>2, <2>1 DEF CreateInsert
  <2>2. CASE CreateLines(w)
    BY <1>0, <1>2, <2>2 DEF CreateLines, InvoiceRow
  <2>3. CASE IssueUpdate(w)
    BY <1>0, <1>2, <2>3 DEF IssueUpdate, StillDraft, InvoiceRow
  <2>4. CASE CancelDiscard(w)
    BY <1>0, <1>2, <2>4 DEF CancelDiscard, NoInvoice
  <2>5. CASE CancelUpdate(w)
    BY <1>0, <1>2, <2>5 DEF CancelUpdate, InvoiceRow
  <2> QED
    BY <1>2, <2>1, <2>2, <2>3, <2>4, <2>5 DEF InvoiceStep, CreateStart, CreateCheck, IssueRead,
       IssueCount, IssueDraw, CancelRead, CancelPayments
<1>3. ASSUME NEW w \in Workers, SettlementStep(w) PROVE UNCHANGED invoice
  BY <1>3, SettlementStepLeaves
<1>4. NextDay \/ (\E w \in Workers : Crash(w)) \/ UNCHANGED vars => UNCHANGED invoice
  BY DEF NextDay, Crash, vars
<1> QED
  BY <1>1, <1>2, <1>3, <1>4 DEF Next

\* An issued invoice keeps its number while its row exists, and a cancelled one stays
\* cancelled: no UPDATE of the three handlers renumbers or revives it.
THEOREM NumbersAlwaysKept == Spec => NumberKept
<1>1. TypeOK /\ Register /\ [Next]_vars =>
        [\A i \in Invoices : Present(i) /\ invoice[i].number # None /\ Present(i)' =>
            /\ invoice'[i].number = invoice[i].number
            /\ invoice[i].status = "CANCELLED" => invoice'[i].status = "CANCELLED"]_vars
  BY NumberedRowMoves DEF Present
<1> QED
  BY <1>1, TypeCorrect, RegisterKept, PTL DEF Spec, NumberKept
-----------------------------------------------------------------------------
(***************************************************************************)
(* The date a number was drawn for is the date its document bears.          *)
(***************************************************************************)

\* The date a request carries, or the date of the note it is issuing, chose the series.
DrawnFor(w) ==
    /\ At(w, "issue_update") \/ At(w, "record_insert") =>
        req[w].number.year = FinancialYear(req[w].on)
    /\ At(w, "note_draw") =>
        note[req[w].note].status # "ABSENT" /\ req[w].on = note[req[w].note].date
    /\ At(w, "note_update") =>
        /\ note[req[w].note].status # "ABSENT"
        /\ req[w].number.year = FinancialYear(note[req[w].note].date)

Calendar == NumberInYearOfDate /\ \A w \in Workers : DrawnFor(w)

\* Every statement on an invoice keeps the calendar.
LEMMA InvoiceStepCalendar ==
  ASSUME TypeOK, Calendar, NEW w \in Workers, InvoiceStep(w)
  PROVE  Calendar'
<1> USE DEF Others, Calendar, NumberInYearOfDate, DrawnFor, At, Goto, Finish, Idle
<1>0. /\ invoice \in [Invoices -> InvoiceRow] /\ req \in [Workers -> Request]
      /\ UNCHANGED <<note, advance>>
  BY InvoiceStepLeaves DEF TypeOK
<1>1. CASE CreateStart(w)
  BY <1>0, <1>1 DEF CreateStart
<1>2. CASE CreateCheck(w)
  BY <1>0, <1>2 DEF CreateCheck
<1>3. CASE CreateInsert(w)
  BY <1>0, <1>3 DEF CreateInsert, InvoiceRow
<1>4. CASE CreateLines(w)
  BY <1>0, <1>4 DEF CreateLines, InvoiceRow
<1>5. CASE IssueRead(w)
  BY <1>0, <1>5 DEF IssueRead
<1>6. CASE IssueCount(w)
  BY <1>0, <1>6 DEF IssueCount
<1>7. CASE IssueDraw(w)
  BY <1>0, <1>7 DEF IssueDraw, NumberFor, SeriesYear
<1>8. CASE IssueUpdate(w)
  BY <1>0, <1>8 DEF IssueUpdate, IssueDate, InvoiceRow
<1>9. CASE CancelRead(w)
  BY <1>0, <1>9 DEF CancelRead
<1>10. CASE CancelPayments(w)
  BY <1>0, <1>10 DEF CancelPayments
<1>11. CASE CancelDiscard(w)
  BY <1>0, <1>11 DEF CancelDiscard, NoInvoice
<1>12. CASE CancelUpdate(w)
  BY <1>0, <1>12, SMTT(40) DEF CancelUpdate, InvoiceRow
<1> QED
  BY <1>1, <1>2, <1>3, <1>4, <1>5, <1>6, <1>7, <1>8, <1>9, <1>10, <1>11, <1>12 DEF InvoiceStep

\* And every statement on a payment, a credit note or an advance.
LEMMA SettlementStepCalendar ==
  ASSUME TypeOK, Calendar, NEW w \in Workers, SettlementStep(w)
  PROVE  Calendar'
<1> USE DEF Elsewhere, Calendar, NumberInYearOfDate, DrawnFor, At, Goto, Finish, Idle
<1>0. /\ note \in [Notes -> NoteRow] /\ advance \in [Advances -> AdvanceRow]
      /\ req \in [Workers -> Request] /\ UNCHANGED invoice
  BY SettlementStepLeaves DEF TypeOK
<1>1. CASE PayRead(w)
  BY <1>0, <1>1 DEF PayRead
<1>2. CASE PayCheck(w)
  BY <1>0, <1>2 DEF PayCheck
<1>3. CASE PayInsert(w)
  BY <1>0, <1>3 DEF PayInsert
<1>4. CASE RaiseRead(w)
  BY <1>0, <1>4 DEF RaiseRead
<1>5. CASE RaiseCheck(w)
  BY <1>0, <1>5 DEF RaiseCheck
<1>6. CASE RaiseInsert(w)
  BY <1>0, <1>6, RequestFields DEF RaiseInsert
<1>7. CASE RaiseLines(w)
  BY <1>0, <1>7, RequestFields DEF RaiseLines, NoteRow
<1>8. CASE NoteRead(w)
  BY <1>0, <1>8 DEF NoteRead
<1>9. CASE NoteDraw(w)
  BY <1>0, <1>9, SMTT(40) DEF NoteDraw, NumberFor, SeriesYear
<1>10. CASE NoteUpdate(w)
  BY <1>0, <1>10, RequestFields DEF NoteUpdate, NoteRow
<1>11. CASE RecordStart(w)
  BY <1>0, <1>11 DEF RecordStart
<1>12. CASE RecordDraw(w)
  BY <1>0, <1>12 DEF RecordDraw, NumberFor, SeriesYear
<1>13. CASE RecordInsert(w)
  BY <1>0, <1>13 DEF RecordInsert
<1>14. CASE AdjustRead(w)
  BY <1>0, <1>14 DEF AdjustRead
<1>15. CASE AdjustCheck(w)
  BY <1>0, <1>15 DEF AdjustCheck
<1>16. CASE AdjustUpdate(w)
  BY <1>0, <1>16, RequestFields DEF AdjustUpdate, AdvanceRow
<1> QED
  BY <1>1, <1>2, <1>3, <1>4, <1>5, <1>6, <1>7, <1>8, <1>9, <1>10, <1>11, <1>12, <1>13, <1>14, <1>15,
     <1>16 DEF SettlementStep

\* The number a document bears is of the financial year of the date it bears, although
\* the date is taken statements before the number and 1 April may come in between.
THEOREM NumbersAlwaysOfTheirYear == Spec => []NumberInYearOfDate
<1>1. Init => Calendar
  BY DEF Init, Calendar, NumberInYearOfDate, DrawnFor, NoInvoice, At, Idle
<1>2. TypeOK /\ Calendar /\ [Next]_vars => Calendar'
  <2> SUFFICES ASSUME TypeOK, Calendar, [Next]_vars PROVE Calendar'
    OBVIOUS
  <2>1. CASE NextDay
    BY <2>1 DEF NextDay, Calendar, NumberInYearOfDate, DrawnFor, At
  <2>2. ASSUME NEW w \in Workers, InvoiceStep(w) PROVE Calendar'
    BY <2>2, InvoiceStepCalendar
  <2>3. ASSUME NEW w \in Workers, SettlementStep(w) PROVE Calendar'
    BY <2>3, SettlementStepCalendar
  <2>4. ASSUME NEW w \in Workers, Crash(w) PROVE Calendar'
    BY <2>4 DEF Crash, Calendar, NumberInYearOfDate, DrawnFor, At, Goto, Finish, Idle, TypeOK
  <2>5. CASE UNCHANGED vars
    BY <2>5 DEF vars, Calendar, NumberInYearOfDate, DrawnFor, At
  <2> QED
    BY <2>1, <2>2, <2>3, <2>4, <2>5 DEF Next
<1>3. Calendar => NumberInYearOfDate
  BY DEF Calendar
<1> QED
  BY <1>1, <1>2, <1>3, TypeCorrect, PTL DEF Spec
-----------------------------------------------------------------------------
(***************************************************************************)
(* One bill per supply.                                                     *)
(***************************************************************************)

\* What two rows that are there may not both bill: NothingBilledTwice of one pair.
Apart(i, j) ==
    LET t == invoice[i].target
        u == invoice[j].target
    IN  /\ t.job = u.job => t.job = None
        /\ t.contract = u.contract /\ t.contract # None =>
            /\ t.point # u.point
            /\ t.period = u.period /\ t.period # None =>
                "CANCELLED" \in {invoice[i].status, invoice[j].status}

\* A row that was there keeps what it bills, and if it was cancelled, stays so.
LEMMA SuppliesStay ==
  ASSUME TypeOK, NEW w \in Workers, InvoiceStep(w), ~CreateInsert(w), NEW i \in Invoices, Present(i)'
  PROVE  /\ Present(i) /\ invoice'[i].target = invoice[i].target
         /\ invoice[i].status = "CANCELLED" => invoice'[i].status = "CANCELLED"
<1> USE DEF Present
<1>0. invoice \in [Invoices -> InvoiceRow]
  BY DEF TypeOK
<1>1. CASE CreateLines(w)
  BY <1>0, <1>1 DEF CreateLines, InvoiceRow
<1>2. CASE IssueUpdate(w)
  BY <1>0, <1>2 DEF IssueUpdate, StillDraft, InvoiceRow
<1>3. CASE CancelDiscard(w)
  BY <1>0, <1>3 DEF CancelDiscard, NoInvoice
<1>4. CASE CancelUpdate(w)
  BY <1>0, <1>4 DEF CancelUpdate, InvoiceRow
<1>5. CASE UNCHANGED invoice
  BY <1>5
<1> QED
  BY <1>1, <1>2, <1>3, <1>4, <1>5 DEF InvoiceStep, CreateStart, CreateCheck, IssueRead,
     IssueCount, IssueDraw, CancelRead, CancelPayments, Others

\* What the unique indexes let in is apart from every row that is there.
LEMMA InsertedApart ==
  ASSUME TypeOK, NEW w \in Workers, CreateInsert(w), invoice' # invoice
  PROVE  \E i \in Invoices :
           /\ \A j \in Invoices \ {i} : invoice'[j] = invoice[j]
           /\ \A j \in Invoices \ {i} : Present(j) => Apart(i, j)' /\ Apart(j, i)'
<1>1. ~CreateConflict(w)
  BY DEF CreateInsert
<1>2. PICK i \in Invoices :
        /\ invoice[i].status = "ABSENT"
        /\ invoice' = [invoice EXCEPT ![i] =
                [status |-> "DRAFT", number |-> None, date |-> today,
                 target |-> req[w].target, total |-> req[w].total, lines |-> FALSE]]
  BY <1>1 DEF CreateInsert
<1>3. invoice'[i].target = req[w].target /\ \A j \in Invoices \ {i} : invoice'[j] = invoice[j]
  BY <1>2 DEF TypeOK
<1>4. ASSUME NEW j \in Invoices \ {i}, Present(j)
      PROVE  Apart(i, j)' /\ Apart(j, i)'
  <2>1. ~SameSupply(req[w].target, j)
    BY <1>1, <1>4 DEF CreateConflict, CreateInsert
  <2> QED
    BY <1>3, <2>1 DEF SameSupply, SameInstalment, SamePeriod, Apart
<1> QED
  BY <1>3, <1>4

\* A job, a contract's instalment and a contract's period are each billed by one live row:
\* the unique indexes, whatever the handlers read before they wrote.
THEOREM NeverBilledTwice == Spec => []NothingBilledTwice
<1>0. NothingBilledTwice <=>
        \A i, j \in Invoices : Present(i) /\ Present(j) /\ i # j => Apart(i, j)
  BY DEF NothingBilledTwice, Apart
<1>1. Init => NothingBilledTwice
  BY DEF Init, NothingBilledTwice, Present, NoInvoice
<1>2. TypeOK /\ NothingBilledTwice /\ [Next]_vars => NothingBilledTwice'
  <2> SUFFICES ASSUME TypeOK, NothingBilledTwice, [Next]_vars,
                      NEW i \in Invoices, NEW j \in Invoices, Present(i)', Present(j)', i # j
               PROVE  Apart(i, j)'
    BY DEF NothingBilledTwice, Apart
  <2>1. CASE UNCHANGED invoice
    BY <1>0, <2>1 DEF Apart, Present
  <2>2. ASSUME NEW w \in Workers, InvoiceStep(w), ~CreateInsert(w) PROVE Apart(i, j)'
    <3>1. Present(i) /\ Present(j) /\ Apart(i, j)
      BY <1>0, <2>2, SuppliesStay
    <3> QED
      BY <2>2, <3>1, SuppliesStay DEF Apart
  <2>3. ASSUME NEW w \in Workers, CreateInsert(w), invoice' # invoice PROVE Apart(i, j)'
    <3>1. PICK k \in Invoices :
            /\ \A x \in Invoices \ {k} : invoice'[x] = invoice[x]
            /\ \A x \in Invoices \ {k} : Present(x) => Apart(k, x)' /\ Apart(x, k)'
      BY <2>3, InsertedApart
    <3>2. CASE i # k /\ j # k
      BY <1>0, <3>1, <3>2 DEF Apart, Present
    <3>3. CASE i = k \/ j = k
      BY <3>1, <3>3 DEF Present
    <3> QED
      BY <3>2, <3>3
  <2>4. ASSUME NEW w \in Workers, SettlementStep(w) PROVE UNCHANGED invoice
    BY <2>4, SettlementStepLeaves
  <2>5. NextDay \/ (\E w \in Workers : Crash(w)) \/ UNCHANGED vars => UNCHANGED invoice
    BY DEF NextDay, Crash, vars
  <2> QED
    BY <2>1, <2>2, <2>3, <2>4, <2>5 DEF Next, InvoiceStep
<1> QED
  BY <1>1, <1>2, TypeCorrect, PTL DEF Spec
-----------------------------------------------------------------------------
(***************************************************************************)
(* Money and its invoice.                                                   *)
(***************************************************************************)

\* A foreign key on the row, in one statement with the write: no statement leaves a
\* payment, a note or an advance behind without its invoice.
THEOREM NeverOrphaned == Spec => []NothingOrphaned
<1> USE DEF NothingOrphaned, Present
<1>1. Init => NothingOrphaned
  BY DEF Init
<1>2. TypeOK /\ NothingOrphaned /\ [Next]_vars => NothingOrphaned'
  <2> SUFFICES ASSUME TypeOK, NothingOrphaned, [Next]_vars PROVE NothingOrphaned'
    OBVIOUS
  <2>0. /\ invoice \in [Invoices -> InvoiceRow] /\ note \in [Notes -> NoteRow]
        /\ advance \in [Advances -> AdvanceRow] /\ paid \in [Invoices -> Nat]
    BY DEF TypeOK
  <2>1. CASE UNCHANGED <<invoice, note, advance, paid>>
    BY <2>1
  <2>2. ASSUME NEW w \in Workers, InvoiceStep(w), ~CancelDiscard(w) PROVE NothingOrphaned'
    <3>1. UNCHANGED <<note, advance, paid>>
      BY <2>2, InvoiceStepLeaves
    <3>2. ASSUME NEW i \in Invoices, Present(i) PROVE Present(i)'
      <4>1. CASE CreateInsert(w)
        BY <2>0, <3>2, <4>1 DEF CreateInsert
      <4>2. CASE CreateLines(w)
        BY <2>0, <3>2, <4>2 DEF CreateLines, InvoiceRow
      <4>3. CASE IssueUpdate(w)
        BY <2>0, <3>2, <4>3 DEF IssueUpdate, InvoiceRow
      <4>4. CASE CancelUpdate(w)
        BY <2>0, <3>2, <4>4 DEF CancelUpdate, InvoiceRow
      <4>5. CASE UNCHANGED invoice
        BY <3>2, <4>5
      <4> QED
        BY <2>2, <4>1, <4>2, <4>3, <4>4, <4>5 DEF InvoiceStep, CreateStart, CreateCheck, IssueRead,
           IssueCount, IssueDraw, CancelRead, CancelPayments, Others
    <3> QED
      BY <2>0, <3>1, <3>2 DEF NoteRow, AdvanceRow
  <2>3. ASSUME NEW w \in Workers, CancelDiscard(w) PROVE NothingOrphaned'
    BY <2>0, <2>3 DEF CancelDiscard, Deletable, Referenced, NoInvoice, NoteRow, AdvanceRow, Others
  <2>4. ASSUME NEW w \in Workers, PayInsert(w) PROVE NothingOrphaned'
    BY <2>0, <2>4, RequestFields DEF PayInsert, Elsewhere
  <2>5. ASSUME NEW w \in Workers, RaiseInsert(w) PROVE NothingOrphaned'
    <3>1. UNCHANGED <<invoice, advance, paid>>
      BY <2>5 DEF RaiseInsert, Elsewhere
    <3>2. CASE UNCHANGED note
      BY <3>1, <3>2
    <3>3. CASE note' # note
      <4>1. PICK n \in Notes :
              note' = [note EXCEPT ![n] =
                        [status |-> "DRAFT", number |-> None, date |-> req[w].on,
                         inv |-> req[w].inv, total |-> req[w].total, lines |-> FALSE]]
        BY <2>5, <3>3 DEF RaiseInsert
      <4>2. Present(req[w].inv)
        BY <2>5, <3>3 DEF RaiseInsert
      <4> QED
        BY <2>0, <3>1, <4>1, <4>2
    <3> QED
      BY <3>2, <3>3
  <2>6. ASSUME NEW w \in Workers, RaiseLines(w) PROVE NothingOrphaned'
    BY <2>0, <2>6, RequestFields, SMTT(40) DEF RaiseLines, Elsewhere, NoteRow
  <2>7. ASSUME NEW w \in Workers, NoteUpdate(w) PROVE NothingOrphaned'
    BY <2>0, <2>7, RequestFields DEF NoteUpdate, Elsewhere, NoteRow
  <2>8. ASSUME NEW w \in Workers, RecordInsert(w) PROVE NothingOrphaned'
    BY <2>0, <2>8, SMTT(40) DEF RecordInsert, Elsewhere
  <2>9. ASSUME NEW w \in Workers, AdjustUpdate(w) PROVE NothingOrphaned'
    BY <2>0, <2>9, RequestFields, ZenonT(60) DEF AdjustUpdate, Adjustable, Elsewhere, AdvanceRow
  <2>10. ASSUME NEW w \in Workers, SettlementStep(w), ~PayInsert(w), ~RaiseInsert(w), ~RaiseLines(w),
                ~NoteUpdate(w), ~RecordInsert(w), ~AdjustUpdate(w)
         PROVE  UNCHANGED <<invoice, note, advance, paid>>
    BY <2>10 DEF SettlementStep, Elsewhere, PayRead, PayCheck, RaiseRead, RaiseCheck, NoteRead,
       NoteDraw, RecordStart, RecordDraw, AdjustRead, AdjustCheck
  <2>11. NextDay \/ (\E w \in Workers : Crash(w)) \/ UNCHANGED vars =>
           UNCHANGED <<invoice, note, advance, paid>>
    BY DEF NextDay, Crash, vars
  <2> QED
    BY <2>1, <2>2, <2>3, <2>4, <2>5, <2>6, <2>7, <2>8, <2>9, <2>10, <2>11 DEF Next
<1> QED
  BY <1>1, <1>2, TypeCorrect, PTL DEF Spec

\* An advance about to be spent was recorded, by the customer of the invoice.
OwnAdvance(w) ==
    At(w, "adjust_update") =>
        /\ advance[req[w].advance].status # "ABSENT"
        /\ Present(req[w].inv) =>
            advance[req[w].advance].customer = invoice[req[w].inv].target.customer

\* A voucher's number comes with its row.
NumberedWhenRecorded == \A a \in Advances : advance[a].status = "ABSENT" => advance[a].number = None

Spending == AdvanceSpentOnce /\ NumberedWhenRecorded /\ \A w \in Workers : OwnAdvance(w)

\* A row that was inserted, if it is still there, bills what it billed.
LEMMA InvoiceStepKeepsTargets ==
  ASSUME TypeOK, NEW w \in Workers, InvoiceStep(w),
         NEW i \in Invoices, invoice[i].status # "ABSENT", Present(i)'
  PROVE  Present(i) /\ invoice'[i].target = invoice[i].target
<1>1. CASE CreateInsert(w)
  BY <1>1 DEF CreateInsert, Present, TypeOK
<1>2. CASE ~CreateInsert(w)
  BY <1>2, SuppliesStay
<1> QED
  BY <1>1, <1>2

\* Statements on invoices spend nothing and leave what is spent where it is.
LEMMA InvoiceStepSpending ==
  ASSUME TypeOK, Register, NothingOrphaned, NothingOrphaned', Spending,
         NEW w \in Workers, InvoiceStep(w)
  PROVE  Spending'
<1>1. UNCHANGED advance /\ \A v \in Workers : At(v, "adjust_update")' =>
          At(v, "adjust_update") /\ req'[v] = req[v]
  BY DEF InvoiceStep, Others, At, Goto, Finish, Idle, TypeOK, CreateStart, CreateCheck, CreateInsert,
         CreateLines, IssueRead, IssueCount, IssueDraw, IssueUpdate, CancelRead, CancelPayments,
         CancelDiscard, CancelUpdate
<1>2. ASSUME NEW a \in Advances, advance[a].inv # None
      PROVE  invoice'[advance[a].inv].target = invoice[advance[a].inv].target
  <2>1. advance[a].inv \in Invoices /\ Present(advance[a].inv) /\ Present(advance[a].inv)'
    BY <1>1, <1>2 DEF TypeOK, AdvanceRow, NothingOrphaned
  <2> QED
    BY <1>1, <2>1, InvoiceStepKeepsTargets DEF Present
<1>3. AdvanceSpentOnce' /\ NumberedWhenRecorded'
  BY <1>1, <1>2 DEF AdvanceSpentOnce, NumberedWhenRecorded, Spending
<1>4. ASSUME NEW v \in Workers, At(v, "adjust_update")'
      PROVE  OwnAdvance(v)'
  <2>1. /\ At(v, "adjust_update") /\ req'[v] = req[v] /\ OwnAdvance(v)
        /\ req[v].inv \in Invoices /\ invoice[req[v].inv].status # "ABSENT"
    BY <1>1, <1>4, RequestFields DEF Spending, Register, NamesRow, At
  <2>2. Present(req[v].inv)' =>
          Present(req[v].inv) /\ invoice'[req[v].inv].target = invoice[req[v].inv].target
    BY <2>1, InvoiceStepKeepsTargets DEF Present
  <2> QED
    BY <1>1, <2>1, <2>2 DEF OwnAdvance, Present
<1> QED
  BY <1>3, <1>4 DEF Spending, OwnAdvance

\* An advance is spent by a statement that finds it open and the invoice without one.
LEMMA SettlementStepSpending ==
  ASSUME TypeOK, Spending, NEW w \in Workers, SettlementStep(w)
  PROVE  Spending'
<1> USE DEF Elsewhere, Spending, AdvanceSpentOnce, NumberedWhenRecorded, OwnAdvance, Present, At,
   Goto, Finish, Idle
<1>0. advance \in [Advances -> AdvanceRow] /\ req \in [Workers -> Request] /\ UNCHANGED invoice
  BY SettlementStepLeaves DEF TypeOK
<1>1. CASE UNCHANGED advance /\ \A v \in Workers : At(v, "adjust_update")' => req'[v] = req[v]
  BY <1>0, <1>1
<1>2. CASE RecordInsert(w)
  <2>1. PICK a \in Advances :
          /\ advance[a].status = "ABSENT"
          /\ advance'[a].status = "OPEN" /\ advance'[a].inv = None
          /\ \A b \in Advances \ {a} : advance'[b] = advance[b]
    BY <1>0, <1>2 DEF RecordInsert
  <2>2. \A v \in Workers : At(v, "adjust_update")' => At(v, "adjust_update") /\ req'[v] = req[v]
    BY <1>0, <1>2 DEF RecordInsert
  <2>3. AdvanceSpentOnce' /\ NumberedWhenRecorded'
    BY <1>0, <2>1
  <2>4. \A v \in Workers : OwnAdvance(v)'
    BY <1>0, <2>1, <2>2, RequestFields
  <2> QED
    BY <2>3, <2>4
<1>3. CASE AdjustCheck(w)
  BY <1>0, <1>3 DEF AdjustCheck
<1>4. CASE AdjustUpdate(w)
  <2> DEFINE a == req[w].advance
             i == req[w].inv
  <2>1. a \in Advances /\ i \in Invoices /\ i # None
    BY <1>4, RequestFields, LedgerConstants DEF AdjustUpdate
  <2>2. \A v \in Workers : At(v, "adjust_update")' => At(v, "adjust_update") /\ req'[v] = req[v]
    BY <1>0, <1>4 DEF AdjustUpdate
  <2>3. CASE ~Adjustable(a, i)
    BY <1>0, <1>4, <2>2, <2>3 DEF AdjustUpdate
  <2>4. CASE Adjustable(a, i)
    <3>1. /\ advance'[a].status = "ADJUSTED" /\ advance'[a].inv = i
          /\ advance'[a].customer = advance[a].customer /\ advance'[a].number = advance[a].number
          /\ \A b \in Advances \ {a} : advance'[b] = advance[b]
      BY <1>0, <1>4, <2>1, <2>4 DEF AdjustUpdate, AdvanceRow
    <3>2. advance[a].customer = invoice[i].target.customer /\ \A b \in Advances : advance[b].inv # i
      BY <1>4, <2>4 DEF AdjustUpdate, Adjustable
    <3>3. AdvanceSpentOnce' /\ NumberedWhenRecorded'
      BY <1>0, <2>1, <3>1, <3>2
    <3>4. \A v \in Workers : OwnAdvance(v)'
      BY <1>0, <2>1, <2>2, <3>1, RequestFields
    <3> QED
      BY <3>3, <3>4
  <2> QED
    BY <2>3, <2>4
<1>5. CASE ~RecordInsert(w) /\ ~AdjustCheck(w) /\ ~AdjustUpdate(w)
  <2>1. UNCHANGED advance /\ \A v \in Workers : At(v, "adjust_update")' => req'[v] = req[v]
    BY <1>0, <1>5 DEF SettlementStep, PayRead, PayCheck, PayInsert, RaiseRead, RaiseCheck,
       RaiseInsert, RaiseLines, NoteRead, NoteDraw, NoteUpdate, RecordStart, RecordDraw, AdjustRead
  <2> QED
    BY <1>1, <2>1
<1> QED
  BY <1>2, <1>3, <1>4, <1>5

\* The invariant that an advance is spent once, and by whom it may be, holds throughout.
LEMMA SpendingKept == Spec => []Spending
<1>1. Init => Spending
  BY DEF Init, Spending, AdvanceSpentOnce, NumberedWhenRecorded, OwnAdvance, At, Idle
<1>2. TypeOK /\ Register /\ NothingOrphaned /\ NothingOrphaned' /\ Spending /\ [Next]_vars => Spending'
  <2> SUFFICES ASSUME TypeOK, Register, NothingOrphaned, NothingOrphaned', Spending, [Next]_vars
               PROVE  Spending'
    OBVIOUS
  <2>1. CASE NextDay
    BY <2>1 DEF NextDay, Spending, AdvanceSpentOnce, NumberedWhenRecorded, OwnAdvance, Present, At
  <2>2. ASSUME NEW w \in Workers, InvoiceStep(w) PROVE Spending'
    BY <2>2, InvoiceStepSpending
  <2>3. ASSUME NEW w \in Workers, SettlementStep(w) PROVE Spending'
    BY <2>3, SettlementStepSpending
  <2>4. ASSUME NEW w \in Workers, Crash(w) PROVE Spending'
    BY <2>4 DEF Crash, Spending, AdvanceSpentOnce, NumberedWhenRecorded, OwnAdvance, Present, At,
       Goto, Finish, Idle, TypeOK
  <2>5. CASE UNCHANGED vars
    BY <2>5 DEF vars, Spending, AdvanceSpentOnce, NumberedWhenRecorded, OwnAdvance, Present, At
  <2> QED
    BY <2>1, <2>2, <2>3, <2>4, <2>5 DEF Next
<1> QED
  BY <1>1, <1>2, TypeCorrect, RegisterKept, NeverOrphaned, PTL DEF Spec

\* An advance is spent on one invoice, of the customer who paid it, that no other advance
\* was spent on, whoever else adjusts at the same time.
THEOREM AdvancesAlwaysSpentOnce == Spec => []AdvanceSpentOnce
<1>1. Spending => AdvanceSpentOnce
  BY DEF Spending
<1> QED
  BY <1>1, SpendingKept, PTL

\* And no statement moves or reopens a spent advance.
THEOREM AdvancesStaySpent == Spec => AdvanceStaysSpent
<1>1. TypeOK /\ Spending /\ [Next]_vars =>
        [\A a \in Advances : advance[a].inv # None => advance'[a] = advance[a]]_vars
  <2> SUFFICES ASSUME TypeOK, Spending, Next, NEW a \in Advances, advance[a].inv # None
               PROVE  advance'[a] = advance[a]
    OBVIOUS
  <2>0. advance \in [Advances -> AdvanceRow] /\ advance[a].status = "ADJUSTED"
    BY DEF TypeOK, Spending, AdvanceSpentOnce
  <2>1. ASSUME NEW w \in Workers, RecordInsert(w) PROVE advance'[a] = advance[a]
    BY <2>0, <2>1 DEF RecordInsert
  <2>2. ASSUME NEW w \in Workers, AdjustUpdate(w) PROVE advance'[a] = advance[a]
    BY <2>0, <2>2 DEF AdjustUpdate, Adjustable
  <2>3. ASSUME NEW w \in Workers, SettlementStep(w), ~RecordInsert(w), ~AdjustUpdate(w)
        PROVE  UNCHANGED advance
    BY <2>3 DEF SettlementStep, PayRead, PayCheck, PayInsert, RaiseRead, RaiseCheck, RaiseInsert,
       RaiseLines, NoteRead, NoteDraw, NoteUpdate, RecordStart, RecordDraw, AdjustRead, AdjustCheck
  <2>4. ASSUME NEW w \in Workers, InvoiceStep(w) PROVE UNCHANGED advance
    BY <2>4, InvoiceStepLeaves
  <2>5. NextDay \/ (\E w \in Workers : Crash(w)) => UNCHANGED advance
    BY DEF NextDay, Crash
  <2> QED
    BY <2>1, <2>2, <2>3, <2>4, <2>5 DEF Next
<1> QED
  BY <1>1, TypeCorrect, SpendingKept, PTL DEF Spec, AdvanceStaysSpent
-----------------------------------------------------------------------------
(***************************************************************************)
(* The series implement NumberSeries.  First, what a request that moves     *)
(* does to the numbers that are drawn and not yet borne.                    *)
(***************************************************************************)

\* It drew one.
LEMMA DrawnGains ==
  ASSUME TypeOK, NEW w \in Workers, NEW r, Goto(w, r), NEW pc, ~At(w, pc), r.pc = pc
  PROVE  Drawn(pc)' = Drawn(pc) \cup {r.number}
<1>1. req'[w] = r /\ \A v \in Workers \ {w} : req'[v] = req[v]
  BY DEF Goto, TypeOK
<1> QED
  BY <1>1 DEF Drawn, At

\* It wrote the one it had drawn, or let it go: nobody else held it.
LEMMA DrawnLoses ==
  ASSUME TypeOK, NEW w \in Workers, NEW r, Goto(w, r), NEW pc, At(w, pc), r.pc # pc,
         \A v \in Workers : At(v, pc) /\ req[v].number = req[w].number => v = w
  PROVE  req[w].number \in Drawn(pc) /\ Drawn(pc)' = Drawn(pc) \ {req[w].number}
<1>1. req'[w] = r /\ \A v \in Workers \ {w} : req'[v] = req[v]
  BY DEF Goto, TypeOK
<1> QED
  BY <1>1 DEF Drawn, At

\* It has nothing to do with this series.
LEMMA DrawnStays ==
  ASSUME TypeOK, NEW w \in Workers, NEW r, Goto(w, r), NEW pc, ~At(w, pc), r.pc # pc
  PROVE  Drawn(pc)' = Drawn(pc)
<1>1. req'[w] = r /\ \A v \in Workers \ {w} : req'[v] = req[v]
  BY DEF Goto, TypeOK
<1> QED
  BY <1>1 DEF Drawn, At

\* The two cases of a handler that neither draws from this series nor writes its numbers.
LEMMA DrawnUntouched ==
  ASSUME TypeOK, NEW w \in Workers, NEW pc, ~At(w, pc),
         UNCHANGED req \/ \E r : Goto(w, r) /\ r.pc # pc
  PROVE  Drawn(pc)' = Drawn(pc)
<1>1. CASE UNCHANGED req
  BY <1>1 DEF Drawn, At
<1>2. ASSUME NEW r, Goto(w, r), r.pc # pc PROVE Drawn(pc)' = Drawn(pc)
  BY <1>2, DrawnStays
<1> QED
  BY <1>1, <1>2

\* A step that moves no counter, number or drawn number of invoices is a stutter of their series.
LEMMA InvoiceSeriesStutters ==
  ASSUME TypeOK, TypeOK', counter'["invoice"] = counter["invoice"],
         \A i \in Invoices : invoice'[i].number = invoice[i].number,
         Drawn("issue_update")' = Drawn("issue_update")
  PROVE  UNCHANGED InvoiceSeries!vars
  BY DEF InvoiceSeries!vars

\* Every statement on an invoice is a step of the series, or none.
LEMMA InvoiceStepOfSeries ==
  ASSUME TypeOK, TypeOK', Register, NumbersUsedOnce, NEW w \in Workers, InvoiceStep(w)
  PROVE  [InvoiceSeries!Next]_(InvoiceSeries!vars)
<1> USE DEF Others
<1>0. /\ invoice \in [Invoices -> InvoiceRow] /\ invoice' \in [Invoices -> InvoiceRow]
      /\ counter \in [DocTypes -> [Years -> Nat]]
  BY DEF TypeOK
<1>1. CASE CreateStart(w)
  <2>1. UNCHANGED <<invoice, counter>> /\ ~At(w, "issue_update")
    BY <1>1 DEF CreateStart, At, Idle
  <2>2. UNCHANGED req \/ \E r : Goto(w, r) /\ r.pc # "issue_update"
    BY <1>1 DEF CreateStart, Finish, Idle
  <2>3. Drawn("issue_update")' = Drawn("issue_update")
    BY <2>1, <2>2, DrawnUntouched
  <2> QED
    BY <2>1, <2>3, InvoiceSeriesStutters
<1>2. CASE CreateCheck(w)
  <2>1. UNCHANGED <<invoice, counter>> /\ ~At(w, "issue_update")
    BY <1>2 DEF CreateCheck, At, Idle
  <2>2. UNCHANGED req \/ \E r : Goto(w, r) /\ r.pc # "issue_update"
    BY <1>2 DEF CreateCheck, Finish, Idle
  <2>3. Drawn("issue_update")' = Drawn("issue_update")
    BY <2>1, <2>2, DrawnUntouched
  <2> QED
    BY <2>1, <2>3, InvoiceSeriesStutters
<1>3. CASE CreateInsert(w)
  <2>1. UNCHANGED counter /\ ~At(w, "issue_update")
    BY <1>3 DEF CreateInsert, At
  <2>2. CASE CreateConflict(w)
    <3>1. UNCHANGED invoice /\ Goto(w, Idle) /\ Idle.pc # "issue_update"
      BY <1>3, <2>2 DEF CreateInsert, Finish, Idle
    <3> QED
      BY <2>1, <3>1, DrawnStays, InvoiceSeriesStutters
  <2>3. CASE ~CreateConflict(w)
    <3>1. PICK i \in Invoices :
            /\ invoice[i].status = "ABSENT"
            /\ invoice' = [invoice EXCEPT ![i] =
                        [status |-> "DRAFT", number |-> None, date |-> today,
                         target |-> req[w].target, total |-> req[w].total,
                         lines |-> FALSE]]
            /\ Goto(w, [pc |-> "create_lines", inv |-> i])
      BY <1>3, <2>3 DEF CreateInsert
    <3>2. \A x \in Invoices : invoice'[x].number = invoice[x].number
      BY <1>0, <3>1 DEF Register, Numbered
    <3>3. [pc |-> "create_lines", inv |-> i].pc # "issue_update"
      OBVIOUS
    <3> QED
      BY <2>1, <3>1, <3>2, <3>3, DrawnStays, InvoiceSeriesStutters
  <2> QED
    BY <2>2, <2>3
<1>4. CASE CreateLines(w)
  <2>1. \A i \in Invoices : invoice'[i].number = invoice[i].number
    BY <1>0, <1>4 DEF CreateLines, InvoiceRow
  <2>2. ~At(w, "issue_update") /\ Goto(w, Idle) /\ Idle.pc # "issue_update" /\ UNCHANGED counter
    BY <1>4 DEF CreateLines, At, Finish, Idle
  <2> QED
    BY <2>1, <2>2, DrawnStays, InvoiceSeriesStutters
<1>5. CASE IssueRead(w)
  <2>1. UNCHANGED <<invoice, counter>> /\ ~At(w, "issue_update")
    BY <1>5 DEF IssueRead, At, Idle
  <2>2. UNCHANGED req \/ \E r : Goto(w, r) /\ r.pc # "issue_update"
    BY <1>5 DEF IssueRead, Finish, Idle
  <2>3. Drawn("issue_update")' = Drawn("issue_update")
    BY <2>1, <2>2, DrawnUntouched
  <2> QED
    BY <2>1, <2>3, InvoiceSeriesStutters
<1>6. CASE IssueCount(w)
  <2>1. UNCHANGED <<invoice, counter>> /\ ~At(w, "issue_update")
    BY <1>6 DEF IssueCount, At, Idle
  <2>2. UNCHANGED req \/ \E r : Goto(w, r) /\ r.pc # "issue_update"
    BY <1>6 DEF IssueCount, Finish, Idle
  <2>3. Drawn("issue_update")' = Drawn("issue_update")
    BY <2>1, <2>2, DrawnUntouched
  <2> QED
    BY <2>1, <2>3, InvoiceSeriesStutters
<1>9. CASE CancelRead(w)
  <2>1. UNCHANGED <<invoice, counter>> /\ ~At(w, "issue_update")
    BY <1>9 DEF CancelRead, At, Idle
  <2>2. UNCHANGED req \/ \E r : Goto(w, r) /\ r.pc # "issue_update"
    BY <1>9 DEF CancelRead, Finish, Idle
  <2>3. Drawn("issue_update")' = Drawn("issue_update")
    BY <2>1, <2>2, DrawnUntouched
  <2> QED
    BY <2>1, <2>3, InvoiceSeriesStutters
<1>10. CASE CancelPayments(w)
  <2>1. UNCHANGED <<invoice, counter>> /\ ~At(w, "issue_update")
    BY <1>10 DEF CancelPayments, At, Idle
  <2>2. UNCHANGED req \/ \E r : Goto(w, r) /\ r.pc # "issue_update"
    BY <1>10 DEF CancelPayments, Finish, Idle
  <2>3. Drawn("issue_update")' = Drawn("issue_update")
    BY <2>1, <2>2, DrawnUntouched
  <2> QED
    BY <2>1, <2>3, InvoiceSeriesStutters
<1>12. CASE CancelUpdate(w)
  <2>1. \A i \in Invoices : invoice'[i].number = invoice[i].number
    BY <1>0, <1>12 DEF CancelUpdate, InvoiceRow
  <2>2. ~At(w, "issue_update") /\ Goto(w, Idle) /\ Idle.pc # "issue_update" /\ UNCHANGED counter
    BY <1>12 DEF CancelUpdate, At, Finish, Idle
  <2> QED
    BY <2>1, <2>2, DrawnStays, InvoiceSeriesStutters
<1>7. CASE IssueDraw(w)
  <2> DEFINE y == SeriesYear(req[w].on)
             r == [pc |-> "issue_update", inv |-> req[w].inv, on |-> req[w].on,
                   number |-> NumberFor("invoice", req[w].on)]
  <2>1. y \in Years /\ UNCHANGED invoice /\ Goto(w, r) /\ ~At(w, "issue_update")
    BY <1>7, RequestFields, DrawTypes DEF IssueDraw, DocTypes, At
  <2>2. r.number = [year |-> y, seq |-> counter["invoice"][y] + 1]
    BY DEF NumberFor, NextInSeries
  <2>3. counter'["invoice"] = [counter["invoice"] EXCEPT ![y] = @ + 1]
    BY <1>0, <1>7 DEF IssueDraw, Spend, DocTypes
  <2>4. Drawn("issue_update")' = Drawn("issue_update") \cup {[year |-> y, seq |-> counter["invoice"][y] + 1]}
    BY <2>1, <2>2, DrawnGains
  <2>5. InvoiceSeries!Draw(y)
    BY <2>1, <2>3, <2>4 DEF InvoiceSeries!Draw
  <2> QED
    BY <2>1, <2>5 DEF InvoiceSeries!Next
<1>8. CASE IssueUpdate(w)
  <2> DEFINE n == req[w].number
             i == req[w].inv
  <2>1. i \in Invoices /\ UNCHANGED counter /\ At(w, "issue_update") /\ Goto(w, Idle)
    BY <1>8, RequestFields DEF IssueUpdate, Finish
  <2>2. n \in Drawn("issue_update") /\ Drawn("issue_update")' = Drawn("issue_update") \ {n}
    BY <2>1, DrawnLoses DEF NumbersUsedOnce, UsedOnce, Idle
  <2>3. CASE StillDraft(i)
    <3>1. invoice[i].number = None
      BY <2>1, <2>3, SMTT(40) DEF StillDraft, Register, Numbered
    <3>2. invoice'[i].number = n /\ \A x \in Invoices \ {i} : invoice'[x].number = invoice[x].number
      BY <1>0, <1>8, <2>1, <2>3 DEF IssueUpdate, InvoiceRow
    <3>3. InvoiceSeries!Bear(i, n)
      BY <2>1, <2>2, <3>1, <3>2 DEF InvoiceSeries!Bear
    <3>4. InvoiceSeries!Next
      BY <2>1, <2>2, <3>3 DEF InvoiceSeries!Next, InvoiceSeries!Bear
    <3> QED
      BY <3>4
  <2>4. CASE ~StillDraft(i)
    <3>1. InvoiceSeries!Waste(n)
      BY <1>8, <2>1, <2>2, <2>4 DEF IssueUpdate, InvoiceSeries!Waste
    <3> QED
      BY <2>2, <3>1 DEF InvoiceSeries!Next
  <2> QED
    BY <2>3, <2>4
<1>11. CASE CancelDiscard(w)
  <2> DEFINE i == req[w].inv
  <2>1. /\ i \in Invoices /\ UNCHANGED counter /\ ~At(w, "issue_update")
        /\ Goto(w, Idle) /\ Idle.pc # "issue_update"
    BY <1>11, RequestFields DEF CancelDiscard, Finish, At, Idle
  <2>2. Drawn("issue_update")' = Drawn("issue_update")
    BY <2>1, DrawnStays
  <2>3. CASE UNCHANGED invoice
    BY <2>1, <2>2, <2>3, InvoiceSeriesStutters
  <2>4. CASE invoice' # invoice
    <3>1. invoice'[i].number = None /\ \A x \in Invoices \ {i} : invoice'[x] = invoice[x]
      BY <1>0, <1>11, <2>1, <2>4 DEF CancelDiscard, NoInvoice
    <3>2. CASE invoice[i].number = None
      BY <2>1, <2>2, <3>1, <3>2, InvoiceSeriesStutters
    <3>3. CASE invoice[i].number # None
      <4>1. InvoiceSeries!Lose(i)
        BY <2>1, <2>2, <3>1, <3>3 DEF InvoiceSeries!Lose
      <4>2. InvoiceSeries!Next
        BY <2>1, <4>1 DEF InvoiceSeries!Next, InvoiceSeries!Lose
      <4> QED
        BY <4>2
    <3> QED
      BY <3>2, <3>3
  <2> QED
    BY <2>3, <2>4
<1> QED
  BY <1>1, <1>2, <1>3, <1>4, <1>5, <1>6, <1>7, <1>8, <1>9, <1>10, <1>11, <1>12 DEF InvoiceStep

\* The register implements the series: every statement of every handler, and every crash,
\* draws a number, bears it, wastes it, loses it, or leaves the series alone.
THEOREM InvoiceSeriesImplemented == Spec => InvoiceSeriesSpec
<1>1. Init => InvoiceSeries!Init
  BY DEF Init, InvoiceSeries!Init, Drawn, At, Idle, NoInvoice, DocTypes
<1>2. TypeOK /\ TypeOK' /\ Register /\ NumbersUsedOnce /\ [Next]_vars =>
        [InvoiceSeries!Next]_(InvoiceSeries!vars)
  <2> SUFFICES ASSUME TypeOK, TypeOK', Register, NumbersUsedOnce, [Next]_vars
               PROVE  [InvoiceSeries!Next]_(InvoiceSeries!vars)
    OBVIOUS
  <2>1. CASE UNCHANGED <<invoice, counter, req>>
    <3>1. Drawn("issue_update")' = Drawn("issue_update")
      BY <2>1 DEF Drawn, At
    <3> QED
      BY <2>1, <3>1, InvoiceSeriesStutters
  <2>2. ASSUME NEW w \in Workers, InvoiceStep(w) PROVE [InvoiceSeries!Next]_(InvoiceSeries!vars)
    BY <2>2, InvoiceStepOfSeries
  <2>3. ASSUME NEW w \in Workers, SettlementStep(w) PROVE UNCHANGED InvoiceSeries!vars
    <3>1. UNCHANGED invoice /\ (UNCHANGED req \/ \E r : Goto(w, r) /\ Settles(r))
      BY <2>3, SettlementMoves DEF Register
    <3>2. ~At(w, "issue_update")
      BY <2>3 DEF At, Idle, SettlementStep, PayRead, PayCheck, PayInsert, RaiseRead, RaiseCheck,
         RaiseInsert, RaiseLines, NoteRead, NoteDraw, NoteUpdate, RecordStart, RecordDraw,
         RecordInsert, AdjustRead, AdjustCheck, AdjustUpdate
    <3>3. Drawn("issue_update")' = Drawn("issue_update")
      BY <3>1, <3>2, DrawnUntouched DEF Settles
    <3>4. counter'["invoice"] = counter["invoice"]
      BY <2>3, SettlementStepQuiet DEF Quiet
    <3> QED
      BY <3>1, <3>3, <3>4, InvoiceSeriesStutters
  <2>4. ASSUME NEW w \in Workers, Crash(w) PROVE [InvoiceSeries!Next]_(InvoiceSeries!vars)
    <3>1. UNCHANGED <<invoice, counter>> /\ Goto(w, Idle) /\ Idle.pc # "issue_update"
      BY <2>4 DEF Crash, Finish, Idle
    <3>2. CASE At(w, "issue_update")
      <4>1. /\ req[w].number \in Drawn("issue_update")
            /\ Drawn("issue_update")' = Drawn("issue_update") \ {req[w].number}
        BY <3>1, <3>2, DrawnLoses DEF NumbersUsedOnce, UsedOnce
      <4>2. InvoiceSeries!Waste(req[w].number)
        BY <3>1, <4>1 DEF InvoiceSeries!Waste
      <4> QED
        BY <4>1, <4>2 DEF InvoiceSeries!Next
    <3>3. CASE ~At(w, "issue_update")
      BY <3>1, <3>3, DrawnStays, InvoiceSeriesStutters
    <3> QED
      BY <3>2, <3>3
  <2> QED
    BY <2>1, <2>2, <2>3, <2>4 DEF Next, NextDay, vars
<1> QED
  BY <1>1, <1>2, TypeCorrect, RegisterKept, NumbersAlwaysUsedOnce, PTL
     DEF Spec, InvoiceSeriesSpec, InvoiceSeries!Spec

\* A step that moves no counter, number or drawn number of vouchers is a stutter of their series.
LEMMA VoucherSeriesStutters ==
  ASSUME TypeOK, TypeOK', counter'["receipt_voucher"] = counter["receipt_voucher"],
         \A a \in Advances : advance'[a].number = advance[a].number,
         Drawn("record_insert")' = Drawn("record_insert")
  PROVE  UNCHANGED VoucherSeries!vars
  BY DEF VoucherSeries!vars

\* No handler of invoices goes to the statement that inserts a voucher.
LEMMA InvoiceMoves ==
  ASSUME NEW w \in Workers, InvoiceStep(w)
  PROVE  /\ ~At(w, "record_insert")
         /\ UNCHANGED req \/ \E r : Goto(w, r) /\ r.pc # "record_insert"
<1> USE DEF At, Finish, Idle
<1>1. CASE CreateStart(w)
  <2>1. PICK t \in Targets, total \in Totals, pc \in {"create_check", "create_insert"} :
          Goto(w, [pc |-> pc, target |-> t, total |-> total])
    BY <1>1 DEF CreateStart
  <2> QED
    BY <1>1, <2>1 DEF CreateStart
<1>2. CASE CreateCheck(w)
  BY <1>2 DEF CreateCheck
<1>3. CASE CreateInsert(w)
  <2>1. ASSUME NEW i \in Invoices, Goto(w, [pc |-> "create_lines", inv |-> i])
        PROVE  \E r : Goto(w, r) /\ r.pc # "record_insert"
    BY <2>1
  <2>2. Goto(w, Idle) => \E r : Goto(w, r) /\ r.pc # "record_insert"
    OBVIOUS
  <2> QED
    BY <1>3, <2>1, <2>2 DEF CreateInsert
<1>4. CASE CreateLines(w)
  BY <1>4 DEF CreateLines
<1>5. CASE IssueRead(w)
  BY <1>5 DEF IssueRead
<1>6. CASE IssueCount(w)
  BY <1>6 DEF IssueCount
<1>7. CASE IssueDraw(w)
  BY <1>7 DEF IssueDraw
<1>8. CASE IssueUpdate(w)
  BY <1>8 DEF IssueUpdate
<1>9. CASE CancelRead(w)
  BY <1>9 DEF CancelRead
<1>10. CASE CancelPayments(w)
  BY <1>10 DEF CancelPayments
<1>11. CASE CancelDiscard(w)
  BY <1>11 DEF CancelDiscard
<1>12. CASE CancelUpdate(w)
  BY <1>12 DEF CancelUpdate
<1> QED
  BY <1>1, <1>2, <1>3, <1>4, <1>5, <1>6, <1>7, <1>8, <1>9, <1>10, <1>11, <1>12 DEF InvoiceStep

\* The settlement handlers that are not POST /advances neither draw nor write a voucher's number.
LEMMA SettlementKeepsVouchers ==
  ASSUME TypeOK, NEW w \in Workers, SettlementStep(w), ~RecordDraw(w), ~RecordInsert(w)
  PROVE  /\ counter'["receipt_voucher"] = counter["receipt_voucher"]
         /\ \A a \in Advances : advance'[a].number = advance[a].number
         /\ ~At(w, "record_insert")
         /\ UNCHANGED req \/ \E r : Goto(w, r) /\ r.pc # "record_insert"
<1> USE DEF At, Finish, Idle
<1>1. CASE PayRead(w)
  BY <1>1 DEF PayRead
<1>2. CASE PayCheck(w)
  <2>1. CASE Exceeds(req[w])
    BY <1>2, <2>1 DEF PayCheck
  <2>2. CASE ~(Exceeds(req[w]))
    BY <1>2, <2>2 DEF PayCheck
  <2> QED
    BY <2>1, <2>2
<1>3. CASE PayInsert(w)
  BY <1>3 DEF PayInsert
<1>4. CASE RaiseRead(w)
  BY <1>4 DEF RaiseRead
<1>5. CASE RaiseCheck(w)
  <2>1. CASE req[w].total > Creditable(req[w].inv)
    BY <1>5, <2>1 DEF RaiseCheck
  <2>2. CASE ~(req[w].total > Creditable(req[w].inv))
    BY <1>5, <2>2 DEF RaiseCheck
  <2> QED
    BY <2>1, <2>2
<1>6. CASE RaiseInsert(w)
  <2>1. ASSUME NEW n \in Notes, Goto(w, [pc |-> "raise_lines", note |-> n])
        PROVE  \E r : Goto(w, r) /\ r.pc # "record_insert"
    BY <2>1
  <2>2. Goto(w, Idle) => \E r : Goto(w, r) /\ r.pc # "record_insert"
    OBVIOUS
  <2> QED
    BY <1>6, <2>1, <2>2 DEF RaiseInsert
<1>7. CASE RaiseLines(w)
  BY <1>7 DEF RaiseLines
<1>8. CASE NoteRead(w)
  BY <1>8 DEF NoteRead
<1>9. CASE NoteDraw(w)
  <2>1. counter'["receipt_voucher"] = counter["receipt_voucher"]
    BY <1>9 DEF NoteDraw, Spend, DocTypes, TypeOK
  <2> QED
    BY <1>9, <2>1 DEF NoteDraw
<1>10. CASE NoteUpdate(w)
  BY <1>10 DEF NoteUpdate
<1>11. CASE RecordStart(w)
  BY <1>11 DEF RecordStart
<1>12. CASE AdjustRead(w)
  BY <1>12 DEF AdjustRead
<1>13. CASE AdjustCheck(w)
  BY <1>13 DEF AdjustCheck
<1>14. CASE AdjustUpdate(w)
  <2>1. req[w].advance \in Advances /\ advance \in [Advances -> AdvanceRow]
    BY <1>14, RequestFields DEF AdjustUpdate, TypeOK
  <2>2. \A a \in Advances : advance'[a].number = advance[a].number
    BY <1>14, <2>1 DEF AdjustUpdate, AdvanceRow
  <2>3. UNCHANGED counter /\ Goto(w, Idle) /\ ~At(w, "record_insert")
    BY <1>14 DEF AdjustUpdate
  <2> QED
    BY <2>2, <2>3
<1> QED
  BY <1>1, <1>2, <1>3, <1>4, <1>5, <1>6, <1>7, <1>8, <1>9, <1>10, <1>11, <1>12, <1>13, <1>14 DEF
     SettlementStep

\* POST /advances: the draw, and the INSERT that bears what was drawn.
LEMMA RecordStepOfSeries ==
  ASSUME TypeOK, TypeOK', Spending, NumbersUsedOnce, NEW w \in Workers, RecordDraw(w) \/ RecordInsert(w)
  PROVE  VoucherSeries!Next
<1>0. /\ advance \in [Advances -> AdvanceRow] /\ advance' \in [Advances -> AdvanceRow]
      /\ counter \in [DocTypes -> [Years -> Nat]]
  BY DEF TypeOK
<1>1. CASE RecordDraw(w)
  <2> DEFINE y == SeriesYear(req[w].on)
             r == [pc |-> "record_insert", customer |-> req[w].customer, on |-> req[w].on,
                   number |-> NumberFor("receipt_voucher", req[w].on)]
  <2>1. y \in Years /\ UNCHANGED advance /\ Goto(w, r) /\ ~At(w, "record_insert")
    BY <1>1, RequestFields, DrawTypes DEF RecordDraw, DocTypes, At
  <2>2. r.number = [year |-> y, seq |-> counter["receipt_voucher"][y] + 1]
    BY DEF NumberFor, NextInSeries
  <2>3. counter'["receipt_voucher"] = [counter["receipt_voucher"] EXCEPT ![y] = @ + 1]
    BY <1>0, <1>1 DEF RecordDraw, Spend, DocTypes
  <2>4. Drawn("record_insert")' =
          Drawn("record_insert") \cup {[year |-> y, seq |-> counter["receipt_voucher"][y] + 1]}
    BY <2>1, <2>2, DrawnGains
  <2>5. VoucherSeries!Draw(y)
    BY <2>1, <2>3, <2>4 DEF VoucherSeries!Draw
  <2> QED
    BY <2>1, <2>5 DEF VoucherSeries!Next
<1>2. CASE RecordInsert(w)
  <2> DEFINE n == req[w].number
  <2>1. UNCHANGED counter /\ At(w, "record_insert") /\ Goto(w, Idle)
    BY <1>2 DEF RecordInsert, Finish
  <2>2. n \in Drawn("record_insert") /\ Drawn("record_insert")' = Drawn("record_insert") \ {n}
    BY <2>1, DrawnLoses DEF NumbersUsedOnce, UsedOnce, Idle
  <2>3. PICK a \in Advances :
          /\ advance[a].status = "ABSENT"
          /\ advance'[a].number = n /\ \A b \in Advances \ {a} : advance'[b] = advance[b]
    BY <1>0, <1>2 DEF RecordInsert
  <2>4. advance[a].number = None
    BY <2>3 DEF Spending, NumberedWhenRecorded
  <2>5. VoucherSeries!Bear(a, n)
    BY <2>1, <2>2, <2>3, <2>4 DEF VoucherSeries!Bear
  <2> QED
    BY <2>2, <2>5 DEF VoucherSeries!Next, VoucherSeries!Bear
<1> QED
  BY <1>1, <1>2

\* Vouchers implement the series too, although their numbers are drawn before there is a
\* row to bear them; one whose request dies in between is a hole and nothing else.
THEOREM VoucherSeriesImplemented == Spec => VoucherSeriesSpec
<1>1. Init => VoucherSeries!Init
  BY DEF Init, VoucherSeries!Init, Drawn, At, Idle, DocTypes
<1>2. TypeOK /\ TypeOK' /\ Spending /\ NumbersUsedOnce /\ [Next]_vars =>
        [VoucherSeries!Next]_(VoucherSeries!vars)
  <2> SUFFICES ASSUME TypeOK, TypeOK', Spending, NumbersUsedOnce, [Next]_vars
               PROVE  [VoucherSeries!Next]_(VoucherSeries!vars)
    OBVIOUS
  <2>1. CASE UNCHANGED <<advance, counter, req>>
    <3>1. Drawn("record_insert")' = Drawn("record_insert")
      BY <2>1 DEF Drawn, At
    <3> QED
      BY <2>1, <3>1, VoucherSeriesStutters
  <2>2. ASSUME NEW w \in Workers, InvoiceStep(w) PROVE UNCHANGED VoucherSeries!vars
    <3>1. UNCHANGED advance
      BY <2>2, InvoiceStepLeaves
    <3>2. counter'["receipt_voucher"] = counter["receipt_voucher"]
      BY <2>2, InvoiceStepQuiet DEF Quiet
    <3>3. Drawn("record_insert")' = Drawn("record_insert")
      BY <2>2, InvoiceMoves, DrawnUntouched
    <3> QED
      BY <3>1, <3>2, <3>3, VoucherSeriesStutters
  <2>3. ASSUME NEW w \in Workers, RecordDraw(w) \/ RecordInsert(w) PROVE VoucherSeries!Next
    BY <2>3, RecordStepOfSeries
  <2>4. ASSUME NEW w \in Workers, SettlementStep(w), ~RecordDraw(w), ~RecordInsert(w)
        PROVE  UNCHANGED VoucherSeries!vars
    BY <2>4, SettlementKeepsVouchers, DrawnUntouched, VoucherSeriesStutters
  <2>5. ASSUME NEW w \in Workers, Crash(w) PROVE [VoucherSeries!Next]_(VoucherSeries!vars)
    <3>1. UNCHANGED <<advance, counter>> /\ Goto(w, Idle) /\ Idle.pc # "record_insert"
      BY <2>5 DEF Crash, Finish, Idle
    <3>2. CASE At(w, "record_insert")
      <4>1. /\ req[w].number \in Drawn("record_insert")
            /\ Drawn("record_insert")' = Drawn("record_insert") \ {req[w].number}
        BY <3>1, <3>2, DrawnLoses DEF NumbersUsedOnce, UsedOnce
      <4>2. VoucherSeries!Waste(req[w].number)
        BY <3>1, <4>1 DEF VoucherSeries!Waste
      <4> QED
        BY <4>1, <4>2 DEF VoucherSeries!Next
    <3>3. CASE ~At(w, "record_insert")
      BY <3>1, <3>3, DrawnStays, VoucherSeriesStutters
    <3> QED
      BY <3>2, <3>3
  <2> QED
    BY <2>1, <2>2, <2>3, <2>4, <2>5 DEF Next, NextDay, vars
<1> QED
  BY <1>1, <1>2, TypeCorrect, SpendingKept, NumbersAlwaysUsedOnce, PTL
     DEF Spec, VoucherSeriesSpec, VoucherSeries!Spec
-----------------------------------------------------------------------------
(***************************************************************************)
(* While requests come one at a time, dates follow numbers: the date is     *)
(* taken before the number, so two requests at once may cross.              *)
(***************************************************************************)

OneAtATime == \A v, w \in Workers : v = w

\* No document is dated after today.
PastDated == \A i \in Invoices : invoice[i].number # None => invoice[i].date <= today

\* The date taken is of today or before, and no earlier than any bill of its year; the number
\* drawn is past all of them.
NextInOrder(w) ==
    /\ At(w, "issue_draw") \/ At(w, "issue_update") => req[w].on <= today
    /\ At(w, "issue_draw") => \A i \in Invoices :
        invoice[i].number # None /\ invoice[i].number.year = FinancialYear(req[w].on) =>
            invoice[i].date <= req[w].on
    /\ At(w, "issue_update") => \A i \in Invoices :
        invoice[i].number # None /\ invoice[i].number.year = req[w].number.year =>
            invoice[i].date <= req[w].on /\ invoice[i].number.seq < req[w].number.seq

InOrder == PastDated /\ DatesFollowNumbers /\ \A w \in Workers : NextInOrder(w)

\* A statement that numbers nothing and takes no date leaves the order as it is.
LEMMA OrderStays ==
  ASSUME TypeOK, InOrder,
         \A i \in Invoices : invoice'[i].number # None =>
            invoice'[i].number = invoice[i].number /\ invoice'[i].date = invoice[i].date,
         today <= today', today' \in Days,
         \A w \in Workers : At(w, "issue_draw")' \/ At(w, "issue_update")' => req'[w] = req[w]
  PROVE  InOrder'
<1>1. today \in Nat /\ today' \in Nat /\ \A i \in Invoices : invoice[i].date \in Nat
  BY LedgerConstants DEF TypeOK, InvoiceRow, Days
<1>2. PastDated' /\ DatesFollowNumbers'
  BY <1>1 DEF InOrder, PastDated, DatesFollowNumbers
<1>3. ASSUME NEW w \in Workers PROVE NextInOrder(w)'
  <2>1. CASE ~(At(w, "issue_draw") \/ At(w, "issue_update"))'
    BY <2>1 DEF NextInOrder, At
  <2>2. CASE (At(w, "issue_draw") \/ At(w, "issue_update"))'
    <3>1. /\ req'[w] = req[w] /\ NextInOrder(w) /\ req[w].on \in Nat
          /\ At(w, "issue_draw") \/ At(w, "issue_update")
      BY <2>2, RequestFields, LedgerConstants DEF Days, InOrder, At
    <3>2. req[w].on <= today'
      BY <1>1, <3>1 DEF NextInOrder
    <3>3. ASSUME NEW i \in Invoices, invoice'[i].number # None
          PROVE  /\ invoice[i].number # None /\ invoice'[i].number = invoice[i].number
                 /\ invoice'[i].date = invoice[i].date
      BY <3>3
    <3> QED
      BY <3>1, <3>2, <3>3 DEF NextInOrder, At
  <2> QED
    BY <2>1, <2>2
<1> QED
  BY <1>2, <1>3 DEF InOrder

\* The three statements that take a date, draw a number and write both.
LEMMA IssueKeepsOrder ==
  ASSUME TypeOK, TypeOK', NumbersUsedOnce, InOrder, OneAtATime,
         NEW w \in Workers, IssueCount(w) \/ IssueDraw(w) \/ IssueUpdate(w)
  PROVE  InOrder'
<1>0. /\ today \in Nat /\ UNCHANGED today
      /\ \A i \in Invoices : invoice[i].date \in Nat /\ invoice[i].number \in Number \cup {None}
      /\ \A v \in Workers : v = w
  BY LedgerConstants DEF TypeOK, InvoiceRow, Days, OneAtATime, IssueCount, IssueDraw, IssueUpdate, Others
<1>1. CASE IssueCount(w)
  <2>1. UNCHANGED invoice /\ req'[w].pc # "issue_update"
    BY <1>1 DEF IssueCount, Finish, Goto, Idle, At, TypeOK
  <2>2. At(w, "issue_draw")' => req'[w].on = today
    BY <1>1 DEF IssueCount, Finish, Goto, Idle, At, TypeOK
  <2> QED
    BY <1>0, <2>1, <2>2 DEF InOrder, PastDated, DatesFollowNumbers, NextInOrder, At
<1>2. CASE IssueDraw(w)
  <2> DEFINE n == NumberFor("invoice", req[w].on)
  <2>1. /\ UNCHANGED invoice /\ req[w].on \in Nat /\ n \in Number
        /\ req'[w].pc = "issue_update" /\ req'[w].on = req[w].on /\ req'[w].number = n
    BY <1>2, RequestFields, DrawTypes, LedgerConstants DEF IssueDraw, Goto, TypeOK, DocTypes, Days
  <2>2. n.year = FinancialYear(req[w].on) /\ n.seq = counter["invoice"][n.year] + 1
    BY DEF NumberFor, NextInSeries, SeriesYear
  <2>3. \A i \in Invoices : invoice[i].number # None /\ invoice[i].number.year = n.year =>
          invoice[i].number.seq < n.seq
    BY <1>0, <2>1, <2>2 DEF NumbersUsedOnce, UsedOnce, TypeOK, Number, DocTypes
  <2>4. NextInOrder(w)'
    BY <1>0, <1>2, <2>1, <2>2, <2>3 DEF InOrder, NextInOrder, At, IssueDraw
  <2> QED
    BY <1>0, <2>1, <2>4 DEF InOrder, PastDated, DatesFollowNumbers
<1>3. CASE IssueUpdate(w)
  <2> DEFINE i == req[w].inv
  <2>1. /\ i \in Invoices /\ req[w].on \in Nat /\ req[w].number \in Number
        /\ req'[w].pc = "idle" /\ At(w, "issue_update")
    BY <1>3, RequestFields, LedgerConstants DEF IssueUpdate, Finish, Goto, Idle, TypeOK, Days
  <2>2. CASE ~StillDraft(i)
    BY <1>0, <1>3, <2>1, <2>2 DEF IssueUpdate, InOrder, PastDated, DatesFollowNumbers, NextInOrder, At
  <2>3. CASE StillDraft(i)
    <3>1. /\ invoice'[i].number = req[w].number /\ invoice'[i].date = req[w].on
          /\ \A x \in Invoices \ {i} : invoice'[x] = invoice[x]
      BY <1>3, <2>1, <2>3 DEF IssueUpdate, IssueDate, InvoiceRow, TypeOK
    <3>2. PastDated'
      BY <1>0, <2>1, <3>1 DEF InOrder, PastDated, NextInOrder
    <3>3. ASSUME NEW j \in Invoices, NEW k \in Invoices, invoice'[j].number # None,
                 invoice'[k].number # None, invoice'[j].number.year = invoice'[k].number.year,
                 invoice'[j].number.seq < invoice'[k].number.seq
          PROVE  invoice'[j].date <= invoice'[k].date
      <4>1. CASE j # i /\ k # i
        BY <3>1, <3>3, <4>1 DEF InOrder, DatesFollowNumbers
      <4>2. CASE j = i /\ k # i
        BY <1>0, <2>1, <3>1, <3>3, <4>2 DEF InOrder, NextInOrder, Number
      <4>3. CASE j # i /\ k = i
        BY <1>0, <2>1, <3>1, <3>3, <4>3 DEF InOrder, NextInOrder, Number
      <4>4. CASE j = i /\ k = i
        BY <2>1, <3>1, <4>4
      <4> QED
        BY <4>1, <4>2, <4>3, <4>4
    <3>4. DatesFollowNumbers'
      BY <3>3 DEF DatesFollowNumbers
    <3> QED
      BY <1>0, <2>1, <3>2, <3>4, SMTT(40) DEF InOrder, NextInOrder, At
  <2> QED
    BY <2>2, <2>3
<1> QED
  BY <1>1, <1>2, <1>3

\* Of two bills of a year the one with the smaller number has no later date, as long as the
\* server handles one request at a time.
THEOREM DatesFollowNumbersOneAtATime == OneAtATime => (Spec => []DatesFollowNumbers)
<1> SUFFICES ASSUME OneAtATime PROVE Spec => []DatesFollowNumbers
  OBVIOUS
<1>1. Init => InOrder
  BY DEF Init, InOrder, PastDated, DatesFollowNumbers, NextInOrder, NoInvoice, At, Idle
<1>2. TypeOK /\ TypeOK' /\ NumbersUsedOnce /\ InOrder /\ [Next]_vars => InOrder'
  <2> SUFFICES ASSUME TypeOK, TypeOK', NumbersUsedOnce, InOrder, [Next]_vars PROVE InOrder'
    OBVIOUS
  <2>0. today \in Nat /\ today' \in Days /\ invoice \in [Invoices -> InvoiceRow]
    BY LedgerConstants DEF TypeOK, Days
  <2>1. CASE NextDay
    BY <2>0, <2>1, OrderStays DEF NextDay
  <2>2. ASSUME NEW w \in Workers, IssueCount(w) \/ IssueDraw(w) \/ IssueUpdate(w) PROVE InOrder'
    BY <2>2, IssueKeepsOrder
  <2>3. ASSUME NEW w \in Workers, InvoiceStep(w), ~IssueCount(w), ~IssueDraw(w), ~IssueUpdate(w)
        PROVE  InOrder'
    <3>1. today' = today
      BY <2>3, InvoiceStepLeaves
    <3>2. \A v \in Workers : At(v, "issue_draw")' \/ At(v, "issue_update")' => req'[v] = req[v]
      BY <2>3 DEF InvoiceStep, At, Goto, Finish, Idle, TypeOK, CreateStart, CreateCheck,
         CreateInsert, CreateLines, IssueRead, CancelRead, CancelPayments, CancelDiscard,
         CancelUpdate
    <3>3. \A i \in Invoices : invoice'[i].number # None =>
            invoice'[i].number = invoice[i].number /\ invoice'[i].date = invoice[i].date
      <4>1. CASE CreateInsert(w)
        <5>1. CASE invoice' # invoice
          <6>1. PICK i \in Invoices : invoice' = [invoice EXCEPT ![i] =
                  [status |-> "DRAFT", number |-> None, date |-> today,
                   target |-> req[w].target, total |-> req[w].total, lines |-> FALSE]]
            BY <4>1, <5>1 DEF CreateInsert
          <6> QED
            BY <2>0, <6>1
        <5> QED
          BY <5>1
      <4>2. CASE CreateLines(w)
        BY <2>0, <4>2 DEF CreateLines, InvoiceRow
      <4>3. CASE CancelDiscard(w)
        BY <2>0, <4>3 DEF CancelDiscard, NoInvoice
      <4>4. CASE CancelUpdate(w)
        BY <2>0, <4>4 DEF CancelUpdate, InvoiceRow
      <4>5. CASE UNCHANGED invoice
        BY <4>5
      <4> QED
        BY <2>3, <4>1, <4>2, <4>3, <4>4, <4>5 DEF InvoiceStep, CreateStart, CreateCheck, IssueRead,
           CancelRead, CancelPayments
    <3> QED
      BY <2>0, <3>1, <3>2, <3>3, OrderStays
  <2>4. ASSUME NEW w \in Workers, SettlementStep(w) PROVE InOrder'
    <3>1. UNCHANGED <<invoice, today>>
      BY <2>4, SettlementStepLeaves
    <3>2. \A v \in Workers : At(v, "issue_draw")' \/ At(v, "issue_update")' => req'[v] = req[v]
      BY <2>4 DEF SettlementStep, At, Goto, Finish, Idle, TypeOK, PayRead, PayCheck, PayInsert,
         RaiseRead, RaiseCheck, RaiseInsert, RaiseLines, NoteRead, NoteDraw, NoteUpdate,
         RecordStart, RecordDraw, RecordInsert, AdjustRead, AdjustCheck, AdjustUpdate
    <3> QED
      BY <2>0, <3>1, <3>2, OrderStays
  <2>5. ASSUME NEW w \in Workers, Crash(w) PROVE InOrder'
    <3>1. \A v \in Workers : At(v, "issue_draw")' \/ At(v, "issue_update")' => req'[v] = req[v]
      BY <2>5 DEF Crash, At, Goto, Finish, Idle, TypeOK
    <3> QED
      BY <2>0, <2>5, <3>1, OrderStays DEF Crash
  <2>6. CASE UNCHANGED vars
    BY <2>0, <2>6, OrderStays DEF vars
  <2> QED
    BY <2>1, <2>2, <2>3, <2>4, <2>5, <2>6 DEF Next
<1>3. InOrder => DatesFollowNumbers
  BY DEF InOrder
<1> QED
  BY <1>1, <1>2, <1>3, TypeCorrect, NumbersAlwaysUsedOnce, PTL DEF Spec

-----------------------------------------------------------------------------
(***************************************************************************)
(* What is credited against an invoice is a sum, and sums are numbers.      *)
(***************************************************************************)

\* The issued notes of an invoice, in a table of notes, and what notes are for.
Against(rows, i) == {n \in Notes : rows[n].status = "ISSUED" /\ rows[n].inv = i}

NoteTotals(rows) == [n \in Notes |-> rows[n].total]

\* What is credited against an invoice is the sum of its issued notes, in any order.
LEMMA SumOfNotes ==
  ASSUME NEW rows, NEW i
  PROVE  MapThenSumSet(LAMBDA n : rows[n].total, Against(rows, i))
            = SumOver(NoteTotals(rows), Against(rows, i))
<1> DEFINE T == Against(rows, i)
           Adds(g) == g = [s \in SUBSET T |->
                IF s = {} THEN 0
                ELSE rows[CHOOSE x \in s : TRUE].total + g[s \ {CHOOSE x \in s : TRUE}]]
<1>1. T \in SUBSET Notes /\ IsFiniteSet(T)
  BY FiniteTables, FS_Subset DEF Against
<1>2. \A g : Adds(g) <=> Tabulates(g, NoteTotals(rows), T)
  BY <1>1, AnyIn DEF Tabulates, AnyOf, NoteTotals
<1>3. MapThenSumSet(LAMBDA n : rows[n].total, T) = (CHOOSE g : Adds(g))[T]
  BY DEF MapThenSumSet, MapThenFoldSet
<1>4. \E g : Tabulates(g, NoteTotals(rows), T)
  BY <1>1, TableExists
<1> HIDE DEF T, Adds
<1>5. Tabulates(CHOOSE g : Adds(g), NoteTotals(rows), T)
  BY <1>2, <1>4
<1>6. (CHOOSE g : Adds(g))[T] = SumOver(NoteTotals(rows), T)
  BY <1>1, <1>5, SumTabulated
<1> QED
  BY <1>3, <1>6 DEF T

\* So it is before a step and after it.
LEMMA CreditedIsSum ==
  ASSUME NEW i
  PROVE  /\ Credited(i) = SumOver(NoteTotals(note), Against(note, i))
         /\ Credited(i)' = SumOver(NoteTotals(note'), Against(note', i))
<1>1. Credited(i) = MapThenSumSet(LAMBDA n : note[n].total, Against(note, i))
  BY DEF Credited, Against
<1>2. Credited(i)' = MapThenSumSet(LAMBDA n : note'[n].total, Against(note', i))
  BY DEF Credited, Against, MapThenSumSet, MapThenFoldSet
<1> QED
  BY <1>1, <1>2, SumOfNotes

\* It is a number.
LEMMA CreditTypes ==
  ASSUME NEW rows \in [Notes -> NoteRow], NEW i
  PROVE  /\ IsFiniteSet(Against(rows, i)) /\ Against(rows, i) \in SUBSET Notes
         /\ \A n \in Notes : NoteTotals(rows)[n] \in Nat
         /\ SumOver(NoteTotals(rows), Against(rows, i)) \in Nat
<1>1. ASSUME NEW n \in Notes PROVE NoteTotals(rows)[n] \in Nat
  <2>1. rows[n].total \in Totals \cup {0}
    BY DEF NoteRow
  <2>2. Totals \cup {0} \subseteq Nat
    BY LedgerConstants
  <2> QED
    BY <2>1, <2>2 DEF NoteTotals
<1>2. Against(rows, i) \in SUBSET Notes /\ IsFiniteSet(Against(rows, i))
  BY FiniteTables, FS_Subset DEF Against
<1>3. SumOver(NoteTotals(rows), Against(rows, i)) \in Nat
  BY <1>1, <1>2, SumType
<1> QED
  BY <1>1, <1>2, <1>3

LEMMA CreditsAreNumbers == TypeOK => \A i : Credited(i) \in Nat
  BY CreditedIsSum, CreditTypes DEF TypeOK

\* It is never taken back: an issued note stays as it is, and no handler deletes one.
LEMMA CreditsGrow ==
  ASSUME TypeOK, TypeOK', [Next]_vars, NEW i
  PROVE  Credited(i) <= Credited(i)'
<1>1. ASSUME NEW n \in Notes, note[n].status = "ISSUED"
      PROVE  note'[n].status = "ISSUED" /\ note'[n].inv = note[n].inv /\ note'[n].total = note[n].total
  <2>0. note \in [Notes -> NoteRow]
    BY DEF TypeOK
  <2>1. CASE UNCHANGED note
    BY <1>1, <2>1
  <2>2. ASSUME NEW w \in Workers, RaiseInsert(w)
        PROVE  note'[n] = note[n]
    BY <1>1, <2>0, <2>2 DEF RaiseInsert
  <2>3. ASSUME NEW w \in Workers, RaiseLines(w) \/ NoteUpdate(w)
        PROVE  note'[n].status = "ISSUED" /\ note'[n].inv = note[n].inv /\ note'[n].total = note[n].total
    BY <1>1, <2>0, <2>3 DEF RaiseLines, NoteUpdate, NoteRow
  <2> QED
    BY <1>1, <2>1, <2>2, <2>3, InvoiceStepLeaves DEF Next, NextDay, Crash, vars, SettlementStep, PayRead, PayCheck,
       PayInsert, RaiseRead, RaiseCheck, NoteRead, NoteDraw, RecordStart, RecordDraw,
       RecordInsert, AdjustRead, AdjustCheck, AdjustUpdate
<1>2. PICK before, after \in [Notes -> NoteRow] : before = note /\ after = note'
  BY DEF TypeOK
<1>3. Against(before, i) \in SUBSET Against(after, i)
  BY <1>1, <1>2 DEF Against
<1>4. SumOver(NoteTotals(before), Against(before, i)) = SumOver(NoteTotals(after), Against(before, i))
  <2>1. \A n \in Against(before, i) : NoteTotals(before)[n] = NoteTotals(after)[n]
    BY <1>1, <1>2 DEF Against, NoteTotals
  <2> QED
    BY <2>1, CreditTypes, SumAgree
<1>5. SumOver(NoteTotals(after), Against(before, i)) <= SumOver(NoteTotals(after), Against(after, i))
  <2>1. IsFiniteSet(Against(after, i)) /\ \A n \in Against(after, i) : NoteTotals(after)[n] \in Nat
    BY CreditTypes
  <2> QED
    BY <1>3, <2>1, SumGrows
<1> QED
  BY <1>2, <1>4, <1>5, CreditedIsSum, SMTT(40)

\* What is credited changes with the notes only.
LEMMA CreditsStay ==
  ASSUME UNCHANGED note, NEW i \in Invoices
  PROVE  Credited(i)' = Credited(i)
  BY DEF Credited, MapThenSumSet, MapThenFoldSet

-----------------------------------------------------------------------------
(***************************************************************************)
(* Payments, while requests come one at a time.                             *)
(***************************************************************************)

\* What a payment's requests add up: numbers all.
LEMMA PayTypes ==
  ASSUME TypeOK, NEW w \in Workers, At(w, "pay_check") \/ At(w, "pay_insert")
  PROVE  /\ req[w].inv \in Invoices /\ req[w].amount \in Nat
         /\ At(w, "pay_check") => req[w].paid \in Nat
         /\ Credited(req[w].inv) \in Nat /\ paid[req[w].inv] \in Nat
         /\ invoice[req[w].inv].total \in Nat
<1>1. /\ req[w].inv \in Invoices /\ req[w].amount \in Amounts
      /\ At(w, "pay_check") => req[w].paid \in Nat
  BY RequestFields
<1>2. invoice[req[w].inv].total \in Totals \cup {0} /\ paid[req[w].inv] \in Nat
  BY <1>1 DEF TypeOK, InvoiceRow
<1>3. Amounts \subseteq Nat /\ Totals \cup {0} \subseteq Nat
  BY LedgerConstants
<1>4. PICK i \in Invoices : i = req[w].inv
  BY <1>1
<1>5. Credited(i) \in Nat
  BY CreditsAreNumbers
<1> QED
  BY <1>1, <1>2, <1>3, <1>4, <1>5

\* What the one request at work read of its invoice still holds.
BalanceRead(w) ==
    /\ At(w, "pay_check") => req[w].paid = paid[req[w].inv]
    /\ At(w, "pay_insert") =>
        paid[req[w].inv] + Credited(req[w].inv) + req[w].amount <= invoice[req[w].inv].total

BalancesRead == \A w \in Workers : BalanceRead(w)

\* A payment never takes an invoice past its total, credits included, as long as the server
\* handles one request at a time: what POST /payments read is what it writes against.
THEOREM PaymentsWithinBalanceOneAtATime ==
  OneAtATime => (Spec => PaymentWithinBalance)
<1> SUFFICES ASSUME OneAtATime PROVE Spec => PaymentWithinBalance
  OBVIOUS
<1>1. Init => BalancesRead
  BY DEF Init, BalancesRead, BalanceRead, At, Idle
<1>2. TypeOK /\ BalancesRead /\ [Next]_vars => BalancesRead'
  <2> SUFFICES ASSUME TypeOK, [Next]_vars, BalancesRead, NEW w \in Workers
               PROVE  BalanceRead(w)'
    BY DEF BalancesRead
  <2>0. /\ paid \in [Invoices -> Nat] /\ req \in [Workers -> Request]
        /\ BalanceRead(w) /\ \A v \in Workers : v = w
    BY DEF TypeOK, OneAtATime, BalancesRead
  <2>1. CASE UNCHANGED <<invoice, note, paid, req>>
    <3>1. At(w, "pay_insert") => Credited(req[w].inv)' = Credited(req[w].inv)
      <4>1. \A i \in Invoices : Credited(i)' = Credited(i)
        BY <2>1, CreditsStay
      <4> QED
        BY <2>1, <4>1, PayTypes
    <3> QED
      BY <2>0, <2>1, <3>1 DEF BalanceRead, At
  <2>2. CASE PayRead(w)
    <3>1. UNCHANGED <<invoice, note, paid>>
      BY <2>2 DEF PayRead, Elsewhere
    <3>2. PICK i \in Invoices, a \in Amounts :
            IF Present(i)
            THEN Goto(w, [pc |-> "pay_check", inv |-> i, amount |-> a, paid |-> paid[i]])
            ELSE UNCHANGED req
      BY <2>2 DEF PayRead
    <3>3. CASE Present(i)
      <4>1. req'[w] = [pc |-> "pay_check", inv |-> i, amount |-> a, paid |-> paid[i]]
        BY <2>0, <3>2, <3>3 DEF Goto
      <4> QED
        BY <3>1, <4>1 DEF BalanceRead, At
    <3> QED
      BY <2>1, <3>1, <3>2, <3>3
  <2>3. CASE PayCheck(w)
    <3>1. CASE Exceeds(req[w])
      BY <2>0, <2>3, <3>1 DEF PayCheck, BalanceRead, At, Goto, Finish, Idle
    <3>2. CASE ~Exceeds(req[w])
      <4>1. /\ req'[w] = [pc |-> "pay_insert", inv |-> req[w].inv, amount |-> req[w].amount]
            /\ UNCHANGED <<invoice, note, paid>>
        BY <2>0, <2>3, <3>2 DEF PayCheck, Goto, Elsewhere
      <4>2. /\ req[w].amount \in Nat /\ req[w].paid \in Nat /\ Credited(req[w].inv) \in Nat
            /\ req[w].paid = paid[req[w].inv] /\ req[w].inv \in Invoices
            /\ invoice[req[w].inv].total \in Nat
        BY <2>0, <2>3, PayTypes DEF PayCheck, BalanceRead
      <4>3. \A i \in Invoices : Credited(i)' = Credited(i)
        BY <4>1, CreditsStay
      <4>4. req[w].paid + Credited(req[w].inv) + req[w].amount <= invoice[req[w].inv].total
        BY <3>2, <4>2 DEF Exceeds
      <4>5. PICK i \in Invoices : i = req[w].inv /\ i = req'[w].inv
        BY <4>1, <4>2
      <4>6. paid'[i] + Credited(i)' + req'[w].amount <= invoice'[i].total
        BY <4>1, <4>2, <4>3, <4>4, <4>5
      <4>7. req'[w].pc = "pay_insert" /\ paid'[req'[w].inv] + Credited(req[w].inv)' + req'[w].amount
                                        <= invoice'[req'[w].inv].total
        BY <4>1, <4>5, <4>6
      <4> QED
        BY <4>7 DEF BalanceRead, At
    <3> QED
      BY <3>1, <3>2
  <2>4. ASSUME NEW v \in Workers, InvoiceStep(v) \/ SettlementStep(v) \/ Crash(v),
               ~PayRead(v), ~PayCheck(v)
        PROVE  BalanceRead(w)'
    <3>1. v = w
      BY <2>0
    <3>2. CASE InvoiceStep(v)
      <4>1. req'[w].pc \notin {"pay_check", "pay_insert"}
        BY <2>0, <3>1, <3>2, SMTT(40) DEF InvoiceStep, At, Goto, Finish, Idle, CreateStart, CreateCheck,
           CreateInsert, CreateLines, IssueRead, IssueCount, IssueDraw, IssueUpdate, CancelRead,
           CancelPayments, CancelDiscard, CancelUpdate
      <4> QED
        BY <4>1 DEF BalanceRead, At
    <3>3. CASE SettlementStep(v)
      <4>1. req'[w].pc \notin {"pay_check", "pay_insert"}
        BY <2>0, <2>4, <3>1, <3>3 DEF SettlementStep, At, Goto, Finish, Idle, PayInsert, RaiseRead,
           RaiseCheck, RaiseInsert, RaiseLines, NoteRead, NoteDraw, NoteUpdate, RecordStart,
           RecordDraw, RecordInsert, AdjustRead, AdjustCheck, AdjustUpdate
      <4> QED
        BY <4>1 DEF BalanceRead, At
    <3>4. CASE Crash(v)
      BY <2>0, <3>1, <3>4 DEF Crash, BalanceRead, At, Goto, Finish, Idle
    <3> QED
      BY <2>4, <3>2, <3>3, <3>4
  <2> QED
    BY <2>0, <2>1, <2>2, <2>3, <2>4 DEF Next, NextDay, vars
<1>3. TypeOK /\ BalancesRead /\ [Next]_vars =>
        [\A i \in Invoices : paid'[i] > paid[i] => paid'[i] + Credited(i) <= invoice[i].total]_vars
  <2> SUFFICES ASSUME TypeOK, BalancesRead, Next, NEW i \in Invoices,
                      paid'[i] > paid[i]
               PROVE  paid'[i] + Credited(i) <= invoice[i].total
    OBVIOUS
  <2>0. paid \in [Invoices -> Nat]
    BY SMTT(40) DEF TypeOK
  <2>1. PICK w \in Workers : PayInsert(w)
    <3>1. paid' # paid
      BY <2>0
    <3>2. \A w \in Workers : ~InvoiceStep(w)
      BY <3>1, InvoiceStepLeaves
    <3> QED
      BY <3>1, <3>2 DEF Next, NextDay, Crash, SettlementStep, PayRead, PayCheck, RaiseRead, RaiseCheck,
         RaiseInsert, RaiseLines, NoteRead, NoteDraw, NoteUpdate, RecordStart, RecordDraw,
         RecordInsert, AdjustRead, AdjustCheck, AdjustUpdate
  <2>2. /\ req[w].amount \in Nat /\ req[w].inv \in Invoices /\ Credited(req[w].inv) \in Nat
        /\ paid[req[w].inv] \in Nat /\ invoice[req[w].inv].total \in Nat
    BY <2>1, PayTypes DEF PayInsert
  <2>3. req[w].inv = i /\ paid'[i] = paid[i] + req[w].amount
    BY <2>0, <2>1, <2>2 DEF PayInsert
  <2>4. paid[i] + Credited(i) + req[w].amount <= invoice[i].total
    BY <2>1, <2>3 DEF BalancesRead, BalanceRead, PayInsert
  <2> QED
    BY <2>2, <2>3, <2>4
<1> QED
  BY <1>1, <1>2, <1>3, TypeCorrect, PTL DEF Spec, PaymentWithinBalance
-----------------------------------------------------------------------------
(***************************************************************************)
(* What is read off the tables while they are written.                      *)
(***************************************************************************)

\* A screen only reads: to the tables, every step of it is a stutter, so that what is proved
\* of the billing core holds while screens are read.
THEOREM ScreensOnlyRead == ScreensSpec => Spec
<1>1. ScreensInit => Init
  BY DEF ScreensInit
<1>2. [ScreensNext]_svars => [Next]_vars
  BY DEF ScreensNext, Read, svars, MoneyBegin, MoneyIssued, MoneyPaid, MoneyCredited, GstRows,
     GstLines, GstNotes, GstExport, Close
<1> QED
  BY <1>1, <1>2, PTL DEF ScreensSpec, Spec
-----------------------------------------------------------------------------
(***************************************************************************)
(* Discarding a draft, one request at a time, discards no document.         *)
(***************************************************************************)

\* What a request read as a draft, to discard it, is a draft still.
StillToDiscard(w) ==
    (At(w, "cancel_payments") \/ At(w, "cancel_write")) /\ req[w].was = "DRAFT"
        => invoice[req[w].inv].status = "DRAFT"

NothingOvertaken == \A w \in Workers : StillToDiscard(w)

\* No statement but those of the request itself comes between its read and its write.
LEMMA OvertakenStays ==
  ASSUME OneAtATime, TypeOK, NothingOvertaken, [Next]_vars
  PROVE  NothingOvertaken'
<1> USE DEF NothingOvertaken, StillToDiscard, At, Goto, Finish, Idle
<1>0. req \in [Workers -> Request]
  BY DEF TypeOK
<1>1. CASE NextDay \/ UNCHANGED vars
  BY <1>1 DEF NextDay, vars
<1>2. ASSUME NEW w \in Workers, InvoiceStep(w) \/ SettlementStep(w) \/ Crash(w)
      PROVE  StillToDiscard(w)'
  <2>1. CASE CancelRead(w)
    BY <1>0, <2>1 DEF CancelRead
  <2>2. CASE CancelPayments(w)
    BY <1>0, <2>2 DEF CancelPayments
  <2>3. CASE Crash(w)
    BY <1>0, <2>3 DEF Crash
  <2>4. CASE InvoiceStep(w) /\ ~CancelRead(w) /\ ~CancelPayments(w)
    <3>1. req'[w].pc \notin {"cancel_payments", "cancel_write"} \/ UNCHANGED <<req, invoice>>
      BY <1>0, <2>4 DEF InvoiceStep, CreateStart, CreateCheck, CreateInsert, CreateLines,
         IssueRead, IssueCount, IssueDraw, IssueUpdate, CancelDiscard, CancelUpdate
    <3> QED
      BY <3>1
  <2>5. CASE SettlementStep(w)
    <3>1. req'[w].pc \notin {"cancel_payments", "cancel_write"} \/ UNCHANGED req
      BY <1>0, <2>5 DEF SettlementStep, PayRead, PayCheck, PayInsert, RaiseRead, RaiseCheck,
         RaiseInsert, RaiseLines, NoteRead, NoteDraw, NoteUpdate, RecordStart, RecordDraw,
         RecordInsert, AdjustRead, AdjustCheck, AdjustUpdate
    <3> QED
      BY <2>5, <3>1, SettlementStepLeaves
  <2> QED
    BY <1>2, <2>1, <2>2, <2>3, <2>4, <2>5
<1>3. \A w \in Workers : Workers = {w}
  BY DEF OneAtATime
<1> QED
  BY <1>1, <1>2, <1>3 DEF Next

\* Issued or cancelled: what the return calls a supply.
Document(i) == invoice[i].status \in {"ISSUED", "CANCELLED"}

\* A document stays one, and keeps its date.
LEMMA DocumentsStay ==
  ASSUME OneAtATime, TypeOK, Register, NothingOvertaken, [Next]_vars,
         NEW i \in Invoices, Document(i)
  PROVE  Document(i)' /\ invoice'[i].date = invoice[i].date
<1>0. /\ invoice[i].number # None /\ Present(i)
      /\ invoice \in [Invoices -> InvoiceRow]
  BY DEF Register, Numbered, Document, Present, TypeOK
<1>1. invoice'[i].status # "DELETED"
  <2> SUFFICES ASSUME invoice'[i].status = "DELETED" PROVE FALSE
    OBVIOUS
  <2>0. invoice' # invoice /\ invoice[i].status # "DELETED"
    BY DEF Document
  <2>1. PICK w \in Workers : InvoiceStep(w)
    BY <2>0, SettlementStepLeaves DEF Next, NextDay, Crash, vars
  <2>2. CancelDiscard(w)
    <3>1. ~CreateInsert(w)
      <4> SUFFICES ASSUME CreateInsert(w) PROVE FALSE
        OBVIOUS
      <4>1. PICK j \in Invoices : invoice[j].status = "ABSENT" /\ invoice'[j].status = "DRAFT"
                                  /\ \A x \in Invoices \ {j} : invoice'[x] = invoice[x]
        <5>1. ~CreateConflict(w)
          BY <2>0 DEF CreateInsert
        <5> QED
          BY <1>0, <5>1 DEF CreateInsert, Goto, Finish, At, Others
      <4> QED
        BY <2>0, <4>1
    <3>2. ~CreateLines(w)
      BY <1>0, <2>0 DEF CreateLines, InvoiceRow
    <3>3. ~IssueUpdate(w)
      BY <1>0, <2>0 DEF IssueUpdate, StillDraft, InvoiceRow
    <3>4. ~CancelUpdate(w)
      BY <1>0, <2>0 DEF CancelUpdate, InvoiceRow
    <3> QED
      BY <2>0, <2>1, <3>1, <3>2, <3>3, <3>4 DEF InvoiceStep, CreateStart, CreateCheck, IssueRead,
         IssueCount, IssueDraw, CancelRead, CancelPayments
  <2>3. req[w].inv \in Invoices /\ invoice[req[w].inv].status = "DRAFT"
    BY <2>2, RequestFields DEF CancelDiscard, NothingOvertaken, StillToDiscard
  <2>4. req[w].inv = i
    BY <1>0, <2>0, <2>2, <2>3 DEF CancelDiscard
  <2> QED
    BY <2>3, <2>4 DEF Document
<1>2. /\ invoice'[i].date = invoice[i].date
      /\ invoice'[i].status \in {invoice[i].status, "CANCELLED"}
  BY <1>0, <1>1, NumberedRowMoves
<1> QED
  BY <1>2 DEF Document
-----------------------------------------------------------------------------
(***************************************************************************)
(* The return, from its first read to its export.                           *)
(***************************************************************************)

Returning == {"gst_lines", "gst_notes", "summary"}

\* Each supply the return read is a document of the period still; and once the lines are read,
\* each has them.
PaperStands ==
    /\ reader.pc \in Returning =>
        /\ DOMAIN reader.rows \subseteq Invoices
        /\ \A i \in Supplied(reader) : Document(i) /\ invoice[i].date \in Period
    /\ reader.pc \in {"gst_notes", "summary"} => Unlined(reader) = {}

\* What an export rests on, nothing else having happened since.
ReturnStands == PaperStands /\ ExportIsReady

LEMMA ReturnInit == ScreensInit => ReturnStands /\ NothingOvertaken
  BY DEF ScreensInit, Init, ReturnStands, PaperStands, ExportIsReady, Closed, Returning,
     NothingOvertaken, StillToDiscard, At, Idle

\* The handlers run on, and take no supply from a return under way.
LEMMA ReturnOutlasts ==
  ASSUME OneAtATime, TypeOK, Register, NothingOvertaken, ReturnStands,
         [Next]_vars, UNCHANGED reader, reader.pc # "exported"
  PROVE  ReturnStands'
<1>1. \A i \in Invoices : Document(i) => Document(i)' /\ invoice'[i].date = invoice[i].date
  BY DocumentsStay
<1>2. ExportIsReady'
  BY DEF ExportIsReady
<1> QED
  BY <1>1, <1>2 DEF ReturnStands, PaperStands, Supplied, Unlined, Document

\* Each read of the return finds what the one before left it.
LEMMA ReturnReads ==
  ASSUME TypeOK, Register, ReturnStands, Read
  PROVE  ReturnStands'
<1> USE DEF ReturnStands, PaperStands, Returning, Closed
<1>0. UNCHANGED vars
  BY DEF Read, MoneyBegin, MoneyIssued, MoneyPaid, MoneyCredited, GstRows, GstLines, GstNotes,
     GstExport, Close
<1>1. CASE \/ \E i \in Invoices : MoneyBegin(i)
           \/ MoneyIssued \/ MoneyPaid \/ MoneyCredited \/ Close
  <2>1. reader'.pc \notin Returning \cup {"exported"}
    <3>1. CASE MoneyIssued
      BY <3>1 DEF MoneyIssued
    <3>2. CASE MoneyPaid
      BY <3>2 DEF MoneyPaid
    <3>3. CASE MoneyCredited
      BY <3>3 DEF MoneyCredited
    <3> QED
      BY <1>1, <3>1, <3>2, <3>3 DEF MoneyBegin, Close
  <2> QED
    BY <2>1 DEF ExportIsReady
<1>2. CASE GstRows
  <2>1. /\ reader'.pc = "gst_lines"
        /\ reader'.rows = [i \in InPeriod |-> invoice[i].status]
    BY <1>2 DEF GstRows
  <2>2. DOMAIN reader'.rows \subseteq Invoices
    BY <2>1 DEF InPeriod
  <2>3. ASSUME NEW i \in Supplied(reader') PROVE Document(i) /\ invoice[i].date \in Period
    BY <2>1, <2>3 DEF Supplied, InPeriod, Present, Document
  <2> QED
    BY <1>0, <2>1, <2>2, <2>3 DEF ExportIsReady, Document, vars
<1>3. CASE GstLines
  <2>1. /\ reader'.pc = "gst_notes" /\ reader'.rows = reader.rows
        /\ reader'.lined = {i \in DOMAIN reader.rows : invoice[i].lines}
        /\ reader.pc = "gst_lines"
    BY <1>3 DEF GstLines
  <2>2. Supplied(reader') = Supplied(reader)
    BY <2>1 DEF Supplied
  <2>3. Unlined(reader') = {}
    BY <2>1, <2>2 DEF Unlined, Supplied, Document, Register, Numbered
  <2> QED
    BY <1>0, <2>1, <2>2, <2>3 DEF ExportIsReady, Document, vars
<1>4. CASE GstNotes
  <2>1. /\ reader'.pc = "summary" /\ reader'.rows = reader.rows /\ reader'.lined = reader.lined
        /\ reader.pc = "gst_notes"
    BY <1>4 DEF GstNotes
  <2> QED
    BY <1>0, <2>1 DEF ExportIsReady, Document, vars, Supplied, Unlined
<1>5. CASE GstExport
  <2>1. /\ reader'.pc = "exported" /\ reader'.rows = reader.rows /\ reader'.exported = InPeriod
        /\ reader.pc = "summary" /\ ~Blocked(reader)
    BY <1>5 DEF GstExport
  <2>2. Supplied(reader') = Supplied(reader)
    BY <2>1 DEF Supplied
  <2>3. Supplied(reader) \subseteq InPeriod
    BY <2>1 DEF InPeriod, Present, Document, Supplied
  <2>4. ASSUME NEW i \in InPeriod \cap DOMAIN reader.rows
        PROVE  invoice[i].status # "DRAFT" /\ ~LargeUnregistered(i)
    <3>1. i \in Supplied(reader)
      BY <2>1 DEF Blocked, Drafts, Supplied
    <3> QED
      BY <2>1, <3>1 DEF Blocked, Document
  <2> QED
    BY <1>0, <2>1, <2>2, <2>3, <2>4 DEF ExportIsReady, LargeUnregistered, vars
<1> QED
  BY <1>1, <1>2, <1>3, <1>4, <1>5 DEF Read

\* One request and one screen at a time, a return under way loses none of its supplies.
LEMMA ReturnKept == OneAtATime => (ScreensSpec => []ReturnStands)
<1> SUFFICES ASSUME OneAtATime PROVE ScreensSpec => []ReturnStands
  OBVIOUS
<1>1. TypeOK /\ NothingOvertaken /\ [Next]_vars => NothingOvertaken'
  BY OvertakenStays
<1>2. Init => NothingOvertaken
  BY DEF Init, NothingOvertaken, StillToDiscard, At, Idle
<1>3. TypeOK /\ Register /\ NothingOvertaken /\ ReturnStands /\ [ScreensNext]_svars => ReturnStands'
  <2> SUFFICES ASSUME TypeOK, Register, NothingOvertaken, ReturnStands, [ScreensNext]_svars
               PROVE  ReturnStands'
    OBVIOUS
  <2>1. CASE Read
    BY <2>1, ReturnReads
  <2>2. CASE reader.pc \notin {"shown", "exported"} /\ Next /\ UNCHANGED reader
    BY <2>2, ReturnOutlasts
  <2>3. CASE UNCHANGED svars
    BY <2>3 DEF svars, vars, ReturnStands, PaperStands, ExportIsReady, Document, LargeUnregistered,
       Supplied, Unlined
  <2> QED
    BY <2>1, <2>2, <2>3 DEF ScreensNext
<1>4. Spec => []NothingOvertaken
  BY <1>1, <1>2, TypeCorrect, PTL DEF Spec
<1> QED
  BY <1>3, <1>4, ReturnInit, ScreensOnlyRead, TypeCorrect, RegisterKept, PTL DEF ScreensSpec

\* The paper foots while the server handles one request at a time: what is issued, billed or
\* discarded between its three reads leaves each supply in it with its lines.
THEOREM PaperAlwaysFoots == OneAtATime => (ScreensSpec => []PaperFoots)
<1>1. ReturnStands => PaperFoots
  BY DEF ReturnStands, PaperStands, PaperFoots
<1> QED
  BY <1>1, ReturnKept, PTL

\* And so it holds every supply of the paper it was cleared on, and nothing that was seen to
\* hold it up, although the export reads the invoices a second time.
THEOREM ExportAlwaysReady == OneAtATime => (ScreensSpec => []ExportIsReady)
<1>1. ReturnStands => ExportIsReady
  BY DEF ReturnStands
<1> QED
  BY <1>1, ReturnKept, PTL
-----------------------------------------------------------------------------
(***************************************************************************)
(* What is owed, read while it is paid and credited.                        *)
(***************************************************************************)

\* A bill is for what it was for, or gone; what was paid on it stays.
LEMMA BalancesMove ==
  ASSUME TypeOK, [Next]_vars, NEW i \in Invoices
  PROVE  /\ paid[i] <= paid'[i]
         /\ invoice[i].status # "ABSENT" =>
                invoice'[i].status # "ABSENT" /\ invoice'[i].total \in {invoice[i].total, 0}
<1>0. invoice \in [Invoices -> InvoiceRow] /\ paid \in [Invoices -> Nat]
  BY SMTT(40) DEF TypeOK
<1>1. paid[i] <= paid'[i]
  <2>1. ASSUME NEW w \in Workers, PayInsert(w) PROVE paid[i] <= paid'[i]
    <3>1. req[w].inv \in Invoices /\ req[w].amount \in Nat
      BY <2>1, PayTypes DEF PayInsert
    <3> QED
      BY <1>0, <2>1, <3>1 DEF PayInsert
  <2>2. ASSUME UNCHANGED paid PROVE paid[i] <= paid'[i]
    BY <1>0, <2>2
  <2> QED
    BY <2>1, <2>2, InvoiceStepLeaves DEF Next, NextDay, Crash, vars, SettlementStep, PayRead, PayCheck, RaiseRead,
       RaiseCheck, RaiseInsert, RaiseLines, NoteRead, NoteDraw, NoteUpdate, RecordStart, RecordDraw,
       RecordInsert, AdjustRead, AdjustCheck, AdjustUpdate
<1>2. ASSUME invoice[i].status # "ABSENT"
      PROVE  invoice'[i].status # "ABSENT" /\ invoice'[i].total \in {invoice[i].total, 0}
  <2>1. ASSUME NEW w \in Workers, CreateInsert(w) PROVE invoice'[i] = invoice[i]
    BY <1>0, <1>2, <2>1 DEF CreateInsert
  <2>2. ASSUME NEW w \in Workers, CreateLines(w) \/ IssueUpdate(w) \/ CancelUpdate(w)
        PROVE  invoice'[i].status # "ABSENT" /\ invoice'[i].total = invoice[i].total
    BY <1>0, <1>2, <2>2 DEF CreateLines, IssueUpdate, CancelUpdate, InvoiceRow
  <2>3. ASSUME NEW w \in Workers, CancelDiscard(w)
        PROVE  invoice'[i] = invoice[i] \/ invoice'[i] = NoInvoice("DELETED")
    BY <1>0, <2>3 DEF CancelDiscard
  <2>4. CASE UNCHANGED invoice
    BY <1>2, <2>4
  <2>5. ASSUME NEW w \in Workers, InvoiceStep(w), ~(UNCHANGED invoice)
        PROVE  CreateInsert(w) \/ CreateLines(w) \/ IssueUpdate(w) \/ CancelUpdate(w) \/ CancelDiscard(w)
    BY <2>5 DEF InvoiceStep, CreateStart, CreateCheck, IssueRead, IssueCount, IssueDraw,
       CancelRead, CancelPayments
  <2> QED
    BY <1>2, <2>1, <2>2, <2>3, <2>4, <2>5, SettlementStepLeaves DEF Next, NextDay, Crash, vars, NoInvoice
<1> QED
  BY <1>1, <1>2

MoneyRow == [pc : {"money"}, inv : Invoices, issued : BOOLEAN, paid : Nat \cup {None},
             owed : Nat \cup {None}]

\* The payments the due amount is worked out from: those that were read, or would be now.
Received(r) == IF r.paid = None THEN paid[r.inv] ELSE r.paid

\* What was read as paid was paid; what is due by it is no more than what was owed at first.
RowFollowed ==
    reader.pc = "money" =>
        /\ reader \in MoneyRow
        /\ Received(reader) <= paid[reader.inv]
        /\ reader.owed # None => /\ invoice[reader.inv].status # "ABSENT"
                                 /\ AmountDue(reader.inv, Received(reader)) <= reader.owed

LEMMA DueTypes ==
  ASSUME TypeOK, NEW i \in Invoices
  PROVE  /\ invoice[i].total \in Nat /\ paid[i] \in Nat /\ Credited(i) \in Nat
         /\ Outstanding(i) = AmountDue(i, paid[i])
         /\ \A p \in Nat : AmountDue(i, p) \in Nat
<1>1. invoice[i].total \in Totals \cup {0} /\ paid[i] \in Nat
  BY DEF TypeOK, InvoiceRow
<1>2. Totals \cup {0} \subseteq Nat
  BY LedgerConstants
<1>3. invoice[i].total \in Nat
  BY <1>1, <1>2
<1>4. Credited(i) \in Nat
  BY CreditsAreNumbers
<1>5. Outstanding(i) = AmountDue(i, paid[i])
  BY DEF Outstanding, AmountDue, Floored
<1>6. \A p \in Nat : AmountDue(i, p) \in Nat
  BY <1>3, <1>4 DEF AmountDue, Floored
<1> QED
  BY <1>1, <1>3, <1>4, <1>5, <1>6

\* The more is received, credited or discarded, the less is due.
LEMMA DueFalls ==
  ASSUME NEW billed \in Nat, NEW later \in {billed, 0}, NEW gone \in Nat, NEW more \in Nat, gone <= more
  PROVE  Floored(later, more) <= Floored(billed, gone)
  BY DEF Floored

\* What is proved of a row being followed outlasts the handlers.
LEMMA RowOutlasts ==
  ASSUME TypeOK, TypeOK', RowFollowed, [Next]_vars, UNCHANGED reader
  PROVE  RowFollowed'
<1> SUFFICES ASSUME reader.pc = "money" PROVE RowFollowed'
  BY DEF RowFollowed
<1>1. PICK i \in Invoices, p \in Nat \cup {None}, o \in Nat \cup {None} :
        reader.inv = i /\ reader.paid = p /\ reader.owed = o
  BY DEF RowFollowed, MoneyRow
<1>2. /\ paid[i] <= paid'[i] /\ paid[i] \in Nat /\ paid'[i] \in Nat
      /\ Credited(i) <= Credited(i)' /\ Credited(i) \in Nat /\ Credited(i)' \in Nat
      /\ invoice[i].total \in Nat
  <2>1. Credited(i)' \in Nat
    <3>1. PICK rows \in [Notes -> NoteRow] : rows = note'
      BY DEF TypeOK
    <3> QED
      BY <3>1, CreditTypes, CreditedIsSum
  <2>2. paid'[i] \in Nat
    BY DEF TypeOK
  <2> QED
    BY <2>1, <2>2, BalancesMove, DueTypes, CreditsGrow
<1> DEFINE was == IF p = None THEN paid[i] ELSE p
           now == IF p = None THEN paid'[i] ELSE p
<1>3. was \in Nat /\ now \in Nat /\ was <= now /\ was <= paid[i] /\ now <= paid'[i]
  BY <1>1, <1>2 DEF RowFollowed, Received
<1>4. ASSUME o # None
      PROVE  invoice'[i].status # "ABSENT" /\ Floored(invoice'[i].total, now + Credited(i)') <= o
  <2>1. invoice[i].status # "ABSENT" /\ Floored(invoice[i].total, was + Credited(i)) <= o
    BY <1>1, <1>4 DEF RowFollowed, Received, AmountDue
  <2>2. invoice'[i].status # "ABSENT" /\ invoice'[i].total \in {invoice[i].total, 0}
    BY <2>1, BalancesMove
  <2>3. was + Credited(i) \in Nat /\ now + Credited(i)' \in Nat
        /\ was + Credited(i) <= now + Credited(i)'
    BY <1>2, <1>3
  <2>4. Floored(invoice'[i].total, now + Credited(i)') <= Floored(invoice[i].total, was + Credited(i))
    BY <1>2, <2>2, <2>3, DueFalls
  <2>5. /\ Floored(invoice'[i].total, now + Credited(i)') \in Nat
        /\ Floored(invoice[i].total, was + Credited(i)) \in Nat
    BY <1>2, <2>2, <2>3 DEF Floored
  <2> QED
    BY <1>4, <2>1, <2>2, <2>4, <2>5
<1>5. /\ reader'.pc = "money" /\ reader' \in MoneyRow
      /\ reader'.inv = i /\ reader'.paid = p /\ reader'.owed = o
  BY <1>1 DEF RowFollowed
<1>6. Received(reader)' = now
  BY <1>5 DEF Received
<1>7. AmountDue(reader.inv, Received(reader))' = Floored(invoice'[i].total, now + Credited(i)')
  BY <1>5, <1>6 DEF AmountDue
<1>8. o # None => AmountDue(reader.inv, Received(reader))' <= o
  BY <1>4, <1>7
<1> QED
  BY <1>3, <1>4, <1>5, <1>6, <1>8 DEF RowFollowed

\* Each read of the money screen keeps what is proved of the row, up to the one that shows it.
LEMMA RowReads ==
  ASSUME TypeOK, RowFollowed, ShownIsOwed, Read
  PROVE  RowFollowed' /\ ShownIsOwed'
<1>0. UNCHANGED vars
  BY DEF Read, MoneyBegin, MoneyIssued, MoneyPaid, MoneyCredited, GstRows, GstLines, GstNotes,
     GstExport, Close
<1>1. ASSUME NEW i \in Invoices, MoneyBegin(i) PROVE RowFollowed' /\ ShownIsOwed'
  <2>1. PICK o \in Nat \cup {None} :
            /\ reader' = [pc |-> "money", inv |-> i, issued |-> FALSE, paid |-> None, owed |-> o]
            /\ o # None => Present(i) /\ o = Outstanding(i)
    <3>1. Outstanding(i) \in Nat
      BY DueTypes
    <3> QED
      BY <1>1, <3>1 DEF MoneyBegin
  <2>2. paid[i] \in Nat /\ Outstanding(i) = AmountDue(i, paid[i]) /\ AmountDue(i, paid[i]) \in Nat
    BY DueTypes
  <2>3. Received(reader)' = paid[i] /\ reader'.inv = i /\ reader' \in MoneyRow
    BY <1>0, <2>1 DEF Received, MoneyRow, vars
  <2>4. AmountDue(reader.inv, Received(reader))' = AmountDue(i, paid[i])
    BY <1>0, <2>3 DEF AmountDue, Credited, MapThenSumSet, MapThenFoldSet, vars
  <2>5. RowFollowed'
    BY <1>0, <2>1, <2>2, <2>3, <2>4 DEF RowFollowed, Present, vars
  <2> QED
    BY <2>1, <2>5 DEF ShownIsOwed
\* A read that leaves the row as it is, but for what was received up to now.
<1>2. ASSUME reader.pc = "money",
             reader'.pc = "money", reader' \in MoneyRow, reader'.inv = reader.inv,
             reader'.owed = reader.owed, Received(reader)' = Received(reader)
      PROVE  RowFollowed' /\ ShownIsOwed'
  <2>1. AmountDue(reader.inv, Received(reader))' = AmountDue(reader.inv, Received(reader))
    BY <1>0, <1>2 DEF AmountDue, Credited, MapThenSumSet, MapThenFoldSet, vars
  <2> QED
    BY <1>0, <1>2, <2>1 DEF RowFollowed, ShownIsOwed, vars
<1>3. CASE MoneyIssued
  <2>1. reader.pc = "money" /\ reader \in MoneyRow
    BY <1>3 DEF MoneyIssued, RowFollowed
  <2>2. CASE reader' = Closed
    BY <2>2 DEF Closed, RowFollowed, ShownIsOwed
  <2>3. CASE reader' = [reader EXCEPT !.issued = TRUE]
    <3>1. /\ reader' \in MoneyRow /\ reader'.pc = "money" /\ reader'.inv = reader.inv
          /\ reader'.owed = reader.owed /\ reader'.paid = reader.paid
      BY <2>1, <2>3 DEF MoneyRow
    <3> QED
      BY <1>0, <1>2, <2>1, <3>1 DEF Received, vars
  <2> QED
    BY <1>3, <2>2, <2>3 DEF MoneyIssued
<1>4. CASE MoneyPaid
  <2>1. reader.pc = "money" /\ reader \in MoneyRow /\ reader.paid = None
    BY <1>4 DEF MoneyPaid, RowFollowed
  <2>2. reader' = [reader EXCEPT !.paid = paid[reader.inv]] /\ paid[reader.inv] \in Nat
    BY <1>4, <2>1 DEF MoneyPaid, TypeOK, MoneyRow
  <2>3. /\ reader' \in MoneyRow /\ reader'.pc = "money" /\ reader'.inv = reader.inv
        /\ reader'.owed = reader.owed /\ reader'.paid = paid[reader.inv]
    BY <2>1, <2>2 DEF MoneyRow
  <2> QED
    BY <1>0, <1>2, <2>1, <2>3 DEF Received, vars
<1>5. CASE MoneyCredited
  <2>1. reader.pc = "money" /\ reader \in MoneyRow /\ reader.paid # None
    BY <1>5 DEF MoneyCredited, RowFollowed
  <2>2. CASE reader' = Closed
    BY <2>2 DEF Closed, RowFollowed, ShownIsOwed
  <2>3. CASE reader' = [pc |-> "shown", inv |-> reader.inv, owed |-> reader.owed,
                        due |-> AmountDue(reader.inv, reader.paid)]
    <3>1. PICK i \in Invoices, p \in Nat : i = reader.inv /\ p = reader.paid
      BY <2>1 DEF MoneyRow
    <3>2. /\ invoice[i].total \in Nat /\ paid[i] \in Nat /\ Credited(i) \in Nat
          /\ Outstanding(i) = Floored(invoice[i].total, paid[i] + Credited(i))
      BY DueTypes DEF AmountDue
    <3>3. p <= paid[i] /\ (reader.owed # None => AmountDue(i, p) <= reader.owed)
      BY <2>1, <3>1 DEF RowFollowed, Received
    <3>4. AmountDue(i, p) >= Outstanding(i)
      BY <3>2, <3>3 DEF AmountDue, Floored
    <3>5. Outstanding(i)' = Outstanding(i)
      BY <1>0 DEF Outstanding, Credited, MapThenSumSet, MapThenFoldSet, vars
    <3>6. reader'.pc = "shown" /\ reader'.inv = i /\ reader'.owed = reader.owed
          /\ reader'.due = AmountDue(i, p)
      BY <2>3, <3>1
    <3>7. Outstanding(reader.inv)' = Outstanding(i)'
      BY <3>6 DEF Outstanding, Credited, MapThenSumSet, MapThenFoldSet
    <3> QED
      BY <3>3, <3>4, <3>5, <3>6, <3>7 DEF ShownIsOwed, RowFollowed
  <2> QED
    BY <1>5, <2>2, <2>3 DEF MoneyCredited
<1>6. CASE GstRows \/ GstLines \/ GstNotes \/ GstExport \/ Close
  <2>1. reader'.pc \notin {"money", "shown"}
    <3>1. CASE GstNotes
      BY <3>1 DEF GstNotes
    <3> QED
      BY <1>6, <3>1 DEF GstRows, GstLines, GstExport, Close, Closed
  <2> QED
    BY <2>1 DEF RowFollowed, ShownIsOwed
<1> QED
  BY <1>1, <1>3, <1>4, <1>5, <1>6 DEF Read

\* Nobody is chased for more than was owed when the screen was asked for, nor for less than
\* is owed now, although invoices, payments and credits were read at three moments.
THEOREM ShownAlwaysOwed == ScreensSpec => []ShownIsOwed
<1>1. ScreensInit => RowFollowed /\ ShownIsOwed
  BY DEF ScreensInit, Closed, RowFollowed, ShownIsOwed
<1>2. TypeOK /\ TypeOK' /\ RowFollowed /\ ShownIsOwed /\ [ScreensNext]_svars
        => RowFollowed' /\ ShownIsOwed'
  <2> SUFFICES ASSUME TypeOK, TypeOK', RowFollowed, ShownIsOwed, [ScreensNext]_svars
               PROVE  RowFollowed' /\ ShownIsOwed'
    OBVIOUS
  <2>1. CASE Read
    BY <2>1, RowReads
  <2>2. CASE reader.pc \notin {"shown", "exported"} /\ Next /\ UNCHANGED reader
    BY <2>2, RowOutlasts DEF ShownIsOwed
  <2>3. CASE UNCHANGED svars
    <3>1. RowFollowed'
      BY <2>3, RowOutlasts DEF svars
    <3>2. Outstanding(reader.inv)' = Outstanding(reader.inv)
      BY <2>3 DEF svars, vars, Outstanding, Credited, MapThenSumSet, MapThenFoldSet
    <3> QED
      BY <2>3, <3>1, <3>2 DEF svars, vars, ShownIsOwed
  <2> QED
    BY <2>1, <2>2, <2>3 DEF ScreensNext
<1> QED
  BY <1>1, <1>2, ScreensOnlyRead, TypeCorrect, PTL DEF ScreensSpec
=============================================================================
