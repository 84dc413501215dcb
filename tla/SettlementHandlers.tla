------------------------- MODULE SettlementHandlers -------------------------
(***************************************************************************)
(* The handlers that settle an invoice: POST /payments, POST /credit-notes  *)
(* and POST /credit-notes/:id/issue, POST /advances and                     *)
(* POST /advances/:id/adjust.  One action per SQL statement.                *)
(***************************************************************************)
EXTENDS Ledger

\* No settlement handler writes these.
Elsewhere == <<invoice, today>>
-----------------------------------------------------------------------------
(* POST /payments.  Neither read looks at the invoice's status.             *)

\* The invoice and the sum of its payments; its total never changes.
PayRead(w) ==
    /\ req[w] = Idle
    /\ \E i \in Invoices, a \in Amounts :
        IF Present(i)
        THEN Goto(w, [pc |-> "pay_check", inv |-> i, amount |-> a, paid |-> paid[i]])
        ELSE UNCHANGED req
    /\ UNCHANGED <<note, advance, paid, counter, Elsewhere>>

\* Mutant: credits do not count against the ceiling.
ExceedsPaidOnly(r) == r.paid + r.amount > invoice[r.inv].total

Exceeds(r) == r.paid + Credited(r.inv) + r.amount > invoice[r.inv].total

\* Reads what was credited, and refuses more than the invoice is for.
PayCheck(w) ==
    /\ At(w, "pay_check")
    /\ LET r == req[w]
       IN  IF Exceeds(r)
           THEN Finish(w)
           ELSE Goto(w, [pc |-> "pay_insert", inv |-> r.inv, amount |-> r.amount])
    /\ UNCHANGED <<note, advance, paid, counter, Elsewhere>>

PayInsert(w) ==
    /\ At(w, "pay_insert")
    /\ paid' = IF Present(req[w].inv)
               THEN [paid EXCEPT ![req[w].inv] = @ + req[w].amount]
               ELSE paid
    /\ Finish(w)
    /\ UNCHANGED <<note, advance, counter, Elsewhere>>
-----------------------------------------------------------------------------
(* POST /credit-notes: a draft note, against an issued invoice.             *)

RaiseRead(w) ==
    /\ req[w] = Idle
    /\ RoomFor(note)
    /\ \E i \in Invoices, total \in Totals :
        IF invoice[i].status = "ISSUED"
        THEN Goto(w, [pc |-> "raise_check", inv |-> i, total |-> total])
        ELSE UNCHANGED req
    /\ UNCHANGED <<note, advance, paid, counter, Elsewhere>>

RaiseCheck(w) ==
    /\ At(w, "raise_check")
    /\ LET r == req[w]
       IN  IF r.total > Creditable(r.inv)
           THEN Finish(w)
           ELSE Goto(w, [pc |-> "raise_insert", inv |-> r.inv, total |-> r.total,
                         on |-> today])
    /\ UNCHANGED <<note, advance, paid, counter, Elsewhere>>

RaiseInsert(w) ==
    /\ At(w, "raise_insert")
    /\ \/ /\ ~Present(req[w].inv)
          /\ Finish(w)
          /\ UNCHANGED note
       \/ /\ Present(req[w].inv)
          /\ \E n \in Notes :
                /\ note[n].status = "ABSENT"
                /\ note' = [note EXCEPT ![n] =
                        [status |-> "DRAFT", number |-> None, date |-> req[w].on,
                         inv |-> req[w].inv, total |-> req[w].total, lines |-> FALSE]]
                /\ Goto(w, [pc |-> "raise_lines", note |-> n])
    /\ UNCHANGED <<advance, paid, counter, Elsewhere>>

RaiseLines(w) ==
    /\ At(w, "raise_lines")
    /\ note' = [note EXCEPT ![req[w].note].lines = TRUE]
    /\ Finish(w)
    /\ UNCHANGED <<advance, paid, counter, Elsewhere>>
-----------------------------------------------------------------------------
(* POST /credit-notes/:id/issue.  The draft's own date picks the series; the *)
(* invoice and what is left to credit on it are not read again.             *)

NoteRead(w) ==
    /\ req[w] = Idle
    /\ \E n \in Notes :
        IF note[n].status = "DRAFT"
        THEN Goto(w, [pc |-> "note_draw", note |-> n, on |-> note[n].date])
        ELSE UNCHANGED req
    /\ UNCHANGED <<note, advance, paid, counter, Elsewhere>>

NoteDraw(w) ==
    /\ At(w, "note_draw")
    /\ Spend("credit_note", req[w].on)
    /\ Goto(w, [pc |-> "note_update", note |-> req[w].note,
                number |-> NumberFor("credit_note", req[w].on)])
    /\ UNCHANGED <<note, advance, paid, Elsewhere>>

\* UPDATE ... WHERE id = ...: no condition on the status.
NoteUpdate(w) ==
    /\ At(w, "note_update")
    /\ note' = [note EXCEPT ![req[w].note].status = "ISSUED",
                            ![req[w].note].number = req[w].number]
    /\ Finish(w)
    /\ UNCHANGED <<advance, paid, counter, Elsewhere>>
-----------------------------------------------------------------------------
(* POST /advances: a receipt voucher, dated when the client says the money   *)
(* came, numbered before it is inserted.                                    *)

RecordStart(w) ==
    /\ req[w] = Idle
    /\ RoomFor(advance)
    /\ \E c \in Customers, on \in Days :
        Goto(w, [pc |-> "record_draw", customer |-> c, on |-> on])
    /\ UNCHANGED <<note, advance, paid, counter, Elsewhere>>

RecordDraw(w) ==
    /\ At(w, "record_draw")
    /\ Spend("receipt_voucher", req[w].on)
    /\ Goto(w, [pc |-> "record_insert", customer |-> req[w].customer, on |-> req[w].on,
                number |-> NumberFor("receipt_voucher", req[w].on)])
    /\ UNCHANGED <<note, advance, paid, Elsewhere>>

RecordInsert(w) ==
    /\ At(w, "record_insert")
    /\ \E a \in Advances :
        /\ advance[a].status = "ABSENT"
        /\ advance' = [advance EXCEPT ![a] =
                [status |-> "OPEN", number |-> req[w].number, date |-> req[w].on,
                 customer |-> req[w].customer, inv |-> None]]
    /\ Finish(w)
    /\ UNCHANGED <<note, paid, counter, Elsewhere>>
-----------------------------------------------------------------------------
(* POST /advances/:id/adjust                                                *)

AdjustRead(w) ==
    /\ req[w] = Idle
    /\ \E i \in Invoices, a \in Advances :
        IF Present(i)
        THEN Goto(w, [pc |-> "adjust_check", inv |-> i, advance |-> a])
        ELSE UNCHANGED req
    /\ UNCHANGED <<note, advance, paid, counter, Elsewhere>>

\* The advance must be that customer's own: 404 or 409 otherwise.
\* The invoice's customer is the one read before; it never changes while the row lives.
AdjustCheck(w) ==
    /\ At(w, "adjust_check")
    /\ LET r == req[w]
       IN  IF /\ advance[r.advance].status # "ABSENT"
              /\ Present(r.inv) => advance[r.advance].customer = invoice[r.inv].target.customer
           THEN Goto(w, [pc |-> "adjust_update", inv |-> r.inv, advance |-> r.advance])
           ELSE Finish(w)
    /\ UNCHANGED <<note, advance, paid, counter, Elsewhere>>

\* Mutant: no unique index on adjusted_by_invoice_id.
AdjustableTwice(a, i) ==
    Present(i) /\ advance[a].status = "OPEN" /\ advance[a].inv = None

\* Mutant: UPDATE ... WHERE id = ... alone.
AdjustableAgain(a, i) ==
    Present(i) /\ \A b \in Advances \ {a} : advance[b].inv # i

\* UPDATE ... WHERE status = 'OPEN' AND adjusted_by_invoice_id IS NULL, under the
\* foreign key to the invoice and the unique index on adjusted_by_invoice_id.
Adjustable(a, i) ==
    /\ advance[a].status = "OPEN" /\ advance[a].inv = None
    /\ Present(i)
    /\ \A b \in Advances : advance[b].inv # i

AdjustUpdate(w) ==
    /\ At(w, "adjust_update")
    /\ LET r == req[w]
       IN  advance' = IF Adjustable(r.advance, r.inv)
                      THEN [advance EXCEPT ![r.advance].status = "ADJUSTED",
                                           ![r.advance].inv = r.inv]
                      ELSE advance
    /\ Finish(w)
    /\ UNCHANGED <<note, paid, counter, Elsewhere>>
-----------------------------------------------------------------------------
SettlementStep(w) ==
    \/ PayRead(w) \/ PayCheck(w) \/ PayInsert(w)
    \/ RaiseRead(w) \/ RaiseCheck(w) \/ RaiseInsert(w) \/ RaiseLines(w)
    \/ NoteRead(w) \/ NoteDraw(w) \/ NoteUpdate(w)
    \/ RecordStart(w) \/ RecordDraw(w) \/ RecordInsert(w)
    \/ AdjustRead(w) \/ AdjustCheck(w) \/ AdjustUpdate(w)
=============================================================================
