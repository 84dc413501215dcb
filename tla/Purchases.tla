----------------------------- MODULE Purchases -----------------------------
(***************************************************************************)
(* Vendors and their bills: src/routes/vendors.ts and the rules of           *)
(* src/lib/purchases.ts, for one firm.  A bill is recorded with the tax to   *)
(* deduct at source, which depends on what the vendor has billed before, and *)
(* is settled later; until then a clock runs on the deduction it allows.     *)
(*                                                                         *)
(* Money is in units of 10,000 rupees, and tax in hundredths of one, so that *)
(* a percentage of an amount is a product and nothing is rounded.  Days are  *)
(* counted from 0, and a financial year has YearLength of them.              *)
(***************************************************************************)
EXTENDS Integers, FiniteSets, FiniteSetsExt

CONSTANTS
    Workers,    \* requests served at the same time
    Bills,      \* rows of purchase_bills
    Amounts,    \* taxable values
    Percents,   \* rates of the tax on a bill
    Reverse,    \* whether a bill is under reverse charge
    Vendors,    \* what a vendor may be
    Asked,      \* sections bills are recorded under
    YearLength,
    SingleLimit, AnnualLimit,   \* TDS_194C_SINGLE_LIMIT_PAISE, TDS_194C_ANNUAL_LIMIT_PAISE
    AnnualLimitJ,               \* TDS_194J_ANNUAL_LIMIT_PAISE
    ShortLimit, LongLimit,  \* days to pay a small enterprise, without an agreement and with one
    MaxTime,    \* bound: the clock, in days
    None

Sections == {"194C", "194J", "NONE"}

Vendor ==
    [registered : BOOLEAN, pan : BOOLEAN, individual : BOOLEAN,
     msme : {"MICRO", "MEDIUM", "UNVERIFIED"}, trading : BOOLEAN, agreement : BOOLEAN]

Bill ==
    [taxable : Amounts, date : Nat, section : Sections, tds : Nat, gst : Nat,
     reverse : BOOLEAN, payable : Int, paidOn : Nat \cup {None}]

PurchasesConstants ==
    /\ {SingleLimit, AnnualLimit, AnnualLimitJ, YearLength} \subseteq Nat \ {0}
    /\ {ShortLimit, LongLimit, MaxTime} \cup Amounts \cup Percents \subseteq Nat
    /\ Vendors \subseteq Vendor /\ Reverse \subseteq BOOLEAN /\ Asked \subseteq Sections
    /\ None \notin Nat \cup Bill

VARIABLES
    now,
    vendor,     \* table vendors: one vendor's facts, None until it is added
    bill,       \* table purchase_bills, of that vendor
    req,
    settled,    \* history: how often each bill was settled
    together    \* history: bills recorded on a total that was out of date, or settled by two requests

vars == <<now, vendor, bill, req, settled, together>>
-----------------------------------------------------------------------------
Idle == [pc |-> "idle"]

Request ==
    {Idle}
    \cup [pc : {"bill_insert"}, taxable : Amounts, date : Nat, section : Sections,
          reverse : BOOLEAN, billed : Nat]
    \cup [pc : {"pay_write"}, bill : Bills, on : Nat]

Recorded == {b \in Bills : bill[b] # None}

Unpaid(b) == bill[b].paidOn = None

Goto(w, r) == req' = [req EXCEPT ![w] = r]

Others(w, pc) == {v \in Workers \ {w} : req[v].pc = pc}
-----------------------------------------------------------------------------
(* lib/purchases.ts                                                         *)

\* Mutant: the bill itself is left out.
WithoutThis(billed, taxable) == billed

\* What a bill brings the vendor's total to.
WithThis(billed, taxable) == billed + taxable

\* adviseTds: per cent, 0 below the threshold.
TdsRate(section, taxable, v, billed) ==
    LET total == WithThis(billed, taxable) IN
    CASE section = "NONE" -> 0
      [] section # "NONE" /\ ~v.pan -> 20
      [] section = "194C" /\ v.pan ->
            IF taxable < SingleLimit /\ total < AnnualLimit THEN 0
            ELSE IF v.individual THEN 1 ELSE 2
      [] section = "194J" /\ v.pan -> IF total < AnnualLimitJ THEN 0 ELSE 10

\* reverseChargeFor: a flag for the reader to confirm; the body of a bill decides.
ReverseCharge(v) == ~v.registered

\* billTotals: under reverse charge the tax is not the vendor's.
Payable(taxable, percent, reverse, tds) ==
    100 * taxable + (IF reverse THEN 0 ELSE taxable * percent) - tds

\* msmedApplies and the limit: None for a vendor the timeline does not protect.
MsmedLimit(v) ==
    IF v.msme # "MICRO" \/ v.trading THEN None
    ELSE IF v.agreement THEN LongLimit ELSE ShortLimit

\* clockFor
Clock(b) ==
    LET limit == MsmedLimit(vendor) IN
    CASE ~Unpaid(b) -> "paid"
      [] Unpaid(b) /\ limit = None -> "not_applicable"
      [] Unpaid(b) /\ limit # None -> IF now - bill[b].date > limit THEN "lapsed" ELSE "counting"

TaxableOf(bills) == MapThenSumSet(LAMBDA b : bill[b].taxable, bills)

\* GET /bills: two figures that are never added up.
AtRisk == TaxableOf({b \in Recorded : Clock(b) = "counting"})
Lost == TaxableOf({b \in Recorded : Clock(b) = "lapsed"})
-----------------------------------------------------------------------------
FinancialYear(day) == day \div YearLength

\* What POST /advise adds up, and what POST /bills does.
BilledThisYear ==
    TaxableOf({b \in Recorded : FinancialYear(bill[b].date) = FinancialYear(now)})

Billed == TaxableOf(Recorded)

AddVendor ==
    /\ vendor = None
    /\ vendor' \in Vendors
    /\ UNCHANGED <<now, bill, req, settled, together>>

\* The sum is read, and the bill inserted with what it makes of it.
BillRead(w, taxable, date, section, reverse) ==
    /\ req[w] = Idle /\ vendor # None
    /\ Goto(w, [pc |-> "bill_insert", taxable |-> taxable, date |-> date, section |-> section,
                reverse |-> reverse, billed |-> Billed])
    /\ UNCHANGED <<now, vendor, bill, settled, together>>

\* A bill is named by the vendor's number, which is unique; a second one is refused.
BillInsert(w, b, percent) ==
    LET r == req[w]
        tds == r.taxable * TdsRate(r.section, r.taxable, vendor, r.billed) IN
    /\ r.pc = "bill_insert"
    /\ IF b \in Recorded
       THEN UNCHANGED <<bill, together>>
       ELSE /\ bill' = [bill EXCEPT ![b] =
                [taxable |-> r.taxable, date |-> r.date, section |-> r.section, tds |-> tds,
                 gst |-> r.taxable * percent, reverse |-> r.reverse,
                 payable |-> Payable(r.taxable, percent, r.reverse, tds), paidOn |-> None]]
            /\ together' = IF r.billed # Billed THEN together \cup {b} ELSE together
    /\ Goto(w, Idle)
    /\ UNCHANGED <<now, vendor, settled>>

\* Mutant: a bill is settled whenever somebody asks.
AnyBill(b) == TRUE

Settleable(b) == Unpaid(b)

PayRead(w, b, on) ==
    /\ req[w] = Idle /\ b \in Recorded
    /\ Settleable(b) /\ on >= bill[b].date
    /\ Goto(w, [pc |-> "pay_write", bill |-> b, on |-> on])
    /\ UNCHANGED <<now, vendor, bill, settled, together>>

\* By the bill's id: whether it was settled meanwhile is not looked at.
PayWrite(w) ==
    LET b == req[w].bill IN
    /\ req[w].pc = "pay_write"
    /\ bill' = [bill EXCEPT ![b].paidOn = req[w].on]
    /\ settled' = [settled EXCEPT ![b] = @ + 1]
    /\ together' = IF Unpaid(b) THEN together ELSE together \cup {b}
    /\ Goto(w, Idle)
    /\ UNCHANGED <<now, vendor>>
-----------------------------------------------------------------------------
Crash(w) ==
    /\ req[w] # Idle
    /\ Goto(w, Idle)
    /\ UNCHANGED <<now, vendor, bill, settled, together>>

Tick ==
    /\ now < MaxTime
    /\ now' = now + 1
    /\ UNCHANGED <<vendor, bill, req, settled, together>>

Init ==
    /\ now = 0
    /\ vendor = None
    /\ bill = [b \in Bills |-> None]
    /\ req = [w \in Workers |-> Idle]
    /\ settled = [b \in Bills |-> 0] /\ together = {}

Next ==
    \/ AddVendor \/ Tick
    \/ \E w \in Workers :
        \/ \E taxable \in Amounts, date \in 0..now, section \in Asked, reverse \in Reverse :
            BillRead(w, taxable, date, section, reverse)
        \/ \E b \in Bills, percent \in Percents : BillInsert(w, b, percent)
        \/ \E b \in Bills, on \in 0..now : PayRead(w, b, on)
        \/ PayWrite(w) \/ Crash(w)

Spec == Init /\ [][Next]_vars
-----------------------------------------------------------------------------
TypeOK ==
    /\ now \in Nat
    /\ vendor \in Vendor \cup {None}
    /\ bill \in [Bills -> Bill \cup {None}]
    /\ req \in [Workers -> Request]
    /\ settled \in [Bills -> Nat] /\ together \subseteq Bills

\* A bill is settled once, on a day it had been raised, unless two requests settle it at once
\* (/bills/:id/pay reads the status and updates by id).
SettledOnce ==
    \A b \in Recorded :
        /\ settled[b] > 1 => b \in together
        /\ ~Unpaid(b) => bill[b].paidOn >= bill[b].date

Untaxed(section) ==
    {b \in Recorded \ together : bill[b].section = section /\ bill[b].tds = 0}

\* However a vendor's work is split into bills, what goes without deduction stays below the
\* thresholds, single and annual, unless bills were recorded at once (/bills adds up what there
\* is, the bill included: lib/purchases.ts).
DeductedAtThreshold ==
    vendor # None /\ vendor.pan =>
        /\ TaxableOf(Untaxed("194C")) < AnnualLimit
        /\ TaxableOf(Untaxed("194J")) < AnnualLimitJ
        /\ \A b \in Untaxed("194C") : bill[b].taxable < SingleLimit

\* Every bill owed to a protected vendor is either still deductible or lost, never both and
\* never neither, on each day (GET /bills, clockFor).
OwedHasAClock ==
    vendor # None /\ MsmedLimit(vendor) # None =>
        AtRisk + Lost = TaxableOf({b \in Recorded : Unpaid(b)})

\* vendors.ts, of /advise: "the answer it shows is the one the server will apply".
AdvisedIsRecorded ==
    vendor # None =>
        \A section \in Sections, taxable \in Amounts :
            TdsRate(section, taxable, vendor, BilledThisYear) =
            TdsRate(section, taxable, vendor, Billed)
=============================================================================
