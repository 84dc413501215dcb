-------------------------- MODULE InvoiceHandlers --------------------------
(***************************************************************************)
(* The three handlers that move an invoice: POST /, POST /:id/issue and     *)
(* POST /:id/cancel.  One action per SQL statement.  A read whose answer    *)
(* cannot change (branch, tenant, bill-to address) has no step of its own.  *)
(***************************************************************************)
EXTENDS Ledger

Others == <<note, advance, paid, today>>
-----------------------------------------------------------------------------
(* POST /                                                                   *)

\* An ad-hoc bill looks for unpaid invoices first, unless the client said yes already.
CreateStart(w) ==
    /\ req[w] = Idle
    /\ RoomFor(invoice)
    /\ \E t \in Targets, total \in Totals, acknowledged \in BOOLEAN :
        Goto(w, [pc |-> IF IsAdHoc(t) /\ ~acknowledged THEN "create_check"
                                                       ELSE "create_insert",
                 target |-> t, total |-> total])
    /\ UNCHANGED <<invoice, counter, Others>>

\* The SELECTs of open invoices, payments and credits; 409 if any is unpaid.
CreateCheck(w) ==
    /\ At(w, "create_check")
    /\ IF \E i \in Invoices :
            /\ invoice[i].status = "ISSUED"
            /\ invoice[i].target.customer = req[w].target.customer
            /\ Outstanding(i) > 0
       THEN Finish(w)
       ELSE Goto(w, [pc |-> "create_insert", target |-> req[w].target, total |-> req[w].total])
    /\ UNCHANGED <<invoice, counter, Others>>

CreateConflict(w) ==
    /\ At(w, "create_insert")
    /\ \E i \in Invoices : Present(i) /\ SameSupply(req[w].target, i)

\* The INSERT: a draft with no number, or 409 from a unique index.
CreateInsert(w) ==
    /\ At(w, "create_insert")
    /\ \/ /\ CreateConflict(w)
          /\ Finish(w)
          /\ UNCHANGED invoice
       \/ /\ ~CreateConflict(w)
          /\ \E i \in Invoices :
                /\ invoice[i].status = "ABSENT"
                /\ invoice' = [invoice EXCEPT ![i] =
                        [status |-> "DRAFT", number |-> None, date |-> today,
                         target |-> req[w].target, total |-> req[w].total,
                         lines |-> FALSE]]
                /\ Goto(w, [pc |-> "create_lines", inv |-> i])
    /\ UNCHANGED <<counter, Others>>

\* The lines are a second INSERT; their foreign key fails if the draft is gone.
CreateLines(w) ==
    /\ At(w, "create_lines")
    /\ invoice' = IF Present(req[w].inv)
                  THEN [invoice EXCEPT ![req[w].inv].lines = TRUE]
                  ELSE invoice
    /\ Finish(w)
    /\ UNCHANGED <<counter, Others>>
-----------------------------------------------------------------------------
(* POST /:id/issue                                                          *)

IssueRead(w) ==
    /\ req[w] = Idle
    /\ \E i \in Invoices :
        IF invoice[i].status = "DRAFT"
        THEN Goto(w, [pc |-> "issue_count", inv |-> i])
        ELSE UNCHANGED req
    /\ UNCHANGED <<invoice, counter, Others>>

\* Mutant: the lines are not counted.
LinesNotCounted(i) == TRUE

HasLines(i) == invoice[i].lines

\* Counts the lines; then takes the date the document will bear.
IssueCount(w) ==
    /\ At(w, "issue_count")
    /\ IF HasLines(req[w].inv)
       THEN Goto(w, [pc |-> "issue_draw", inv |-> req[w].inv, on |-> today])
       ELSE Finish(w)
    /\ UNCHANGED <<invoice, counter, Others>>

IssueDraw(w) ==
    /\ At(w, "issue_draw")
    /\ Spend("invoice", req[w].on)
    /\ Goto(w, [pc |-> "issue_update", inv |-> req[w].inv, on |-> req[w].on,
                number |-> NumberFor("invoice", req[w].on)])
    /\ UNCHANGED <<invoice, Others>>

\* Mutant: UPDATE ... WHERE id = ... alone.
AnyStatus(i) == Present(i)

\* UPDATE ... WHERE status = 'DRAFT': no row if another request got there first.
StillDraft(i) == invoice[i].status = "DRAFT"

\* Mutant: issuing leaves the draft's date alone.
DateOfDraft(r) == invoice[r.inv].date

IssueDate(r) == r.on

IssueUpdate(w) ==
    /\ At(w, "issue_update")
    /\ LET r == req[w]
       IN  invoice' = IF StillDraft(r.inv)
                      THEN [invoice EXCEPT ![r.inv].status = "ISSUED",
                                           ![r.inv].number = r.number,
                                           ![r.inv].date = IssueDate(r)]
                      ELSE invoice
    /\ Finish(w)
    /\ UNCHANGED <<counter, Others>>
-----------------------------------------------------------------------------
(* POST /:id/cancel                                                         *)

CancelRead(w) ==
    /\ req[w] = Idle
    /\ \E i \in Invoices :
        IF invoice[i].status \in {"DRAFT", "ISSUED"}
        THEN Goto(w, [pc |-> "cancel_payments", inv |-> i, was |-> invoice[i].status])
        ELSE UNCHANGED req
    /\ UNCHANGED <<invoice, counter, Others>>

CancelPayments(w) ==
    /\ At(w, "cancel_payments")
    /\ IF paid[req[w].inv] > 0
       THEN Finish(w)
       ELSE Goto(w, [pc |-> "cancel_write", inv |-> req[w].inv, was |-> req[w].was])
    /\ UNCHANGED <<invoice, counter, Others>>

\* Mutant: the foreign keys to invoices delete nothing and refuse nothing.
NoForeignKeys(i) == Present(i)

Deletable(i) == Present(i) /\ ~Referenced(i)

\* What was read as a draft is deleted, whatever it is by now; the foreign keys may refuse.
CancelDiscard(w) ==
    /\ At(w, "cancel_write")
    /\ req[w].was = "DRAFT"
    /\ invoice' = IF Deletable(req[w].inv)
                  THEN [invoice EXCEPT ![req[w].inv] = NoInvoice("DELETED")]
                  ELSE invoice
    /\ Finish(w)
    /\ UNCHANGED <<counter, Others>>

CancelUpdate(w) ==
    /\ At(w, "cancel_write")
    /\ req[w].was = "ISSUED"
    /\ invoice' = IF Present(req[w].inv)
                  THEN [invoice EXCEPT ![req[w].inv].status = "CANCELLED"]
                  ELSE invoice
    /\ Finish(w)
    /\ UNCHANGED <<counter, Others>>
-----------------------------------------------------------------------------
InvoiceStep(w) ==
    \/ CreateStart(w) \/ CreateCheck(w) \/ CreateInsert(w) \/ CreateLines(w)
    \/ IssueRead(w) \/ IssueCount(w) \/ IssueDraw(w) \/ IssueUpdate(w)
    \/ CancelRead(w) \/ CancelPayments(w) \/ CancelDiscard(w) \/ CancelUpdate(w)
=============================================================================
