---------------------------- MODULE BillingPeriods ----------------------------
(***************************************************************************)
(* Which periods of a contract may be billed: src/lib/billing-periods.ts and *)
(* GET /invoices/due, over one contract, the jobs of its visits and the      *)
(* bills raised for it.  Dates are real: days counted from 1 January 2026,   *)
(* by the calendar.  The clock, and the dates that people give, move over    *)
(* the days of a small set.                                                 *)
(***************************************************************************)
EXTENDS Integers, FiniteSets

CONSTANTS
    Starts,     \* days a contract may start on
    Terms,      \* contracts.ts: termDays, 365 unless the request says another
    Cycles,     \* months in a billing period; 0 for PER_VISIT
    Visits,     \* jobs of the contract's schedules
    MaxBills,   \* bound: invoices of the contract
    Today,      \* days the clock shows, and days visits are put on
    None

\* The calendar, right to February 2032: the day on which a month starts, counted from January 2026.
DaysBefore == <<0, 31, 59, 90, 120, 151, 181, 212, 243, 273, 304, 334>>

FirstOf(m) ==
    365 * (m \div 12) + DaysBefore[(m % 12) + 1] + (IF m >= 26 THEN 1 ELSE 0)

MonthOf(day) ==
    CHOOSE m \in (day \div 31)..(day \div 28) : FirstOf(m) <= day /\ day < FirstOf(m + 1)

LastDay == FirstOf(30)

BillingPeriodsConstants ==
    /\ Starts \cup Today \subseteq 0..LastDay
    /\ \A start \in Starts, term \in Terms : start + term <= LastDay
    /\ Terms \subseteq 1..366 /\ Cycles \subseteq {0, 1, 3, 6, 12}
    /\ None \notin 0..60

VARIABLES
    contract,   \* table contracts
    visit,      \* table jobs: the date and the status of a visit
    bill,       \* table invoices, of the contract: instalment, period and whether cancelled
    today

vars == <<contract, visit, bill, today>>
-----------------------------------------------------------------------------
(* lib/billing-periods.ts                                                   *)

\* Day n of a month, some months on; past its last day it runs into the month after.
AddMonths(day, months) == FirstOf(MonthOf(day) + months) + (day - FirstOf(MonthOf(day)))

\* Where each period starts, the periods being numbered from 1;
\* bound: as many of them as a term of 366 days can have.
StartOf(start, cycle) ==
    LET from[k \in 1..(14 \div cycle + 2)] ==
            IF k = 1 THEN start ELSE AddMonths(from[k - 1], cycle) IN
    from

PeriodsOfContract(start, end, cycle) ==
    IF cycle = 0 THEN {}
    ELSE LET from == StartOf(start, cycle) IN
         {[number |-> k, start |-> from[k],
           end |-> IF from[k + 1] - 1 > end THEN end ELSE from[k + 1] - 1] :
             k \in {j \in 1..(14 \div cycle + 1) : from[j] <= end}}

\* POST /contracts: the end is that many days after the start.  The periods are kept with
\* the dates, which never change.
Signed(start, term, cycle) ==
    [start |-> start, term |-> term, cycle |-> cycle, end |-> start + term,
     periods |-> PeriodsOfContract(start, start + term, cycle)]

Scheduled == {v \in Visits : visit[v] # None}

Inside(p) ==
    {v \in Scheduled :
        /\ visit[v].date \in p.start..p.end
        /\ visit[v].status # "CANCELLED"}

Done(v) == visit[v].status \in {"WORK_DONE", "SIGNED_OFF"}

\* Earned by its visits, all of them done, or by its end.
Earned(p) ==
    \/ Inside(p) # {} /\ \A v \in Inside(p) : Done(v)
    \/ p.end < today

Live == {b \in bill : ~b.cancelled}

\* Mutant: bills are looked up by period.
BilledByPeriod(p) == \E b \in Live : b.period = p.start

\* Named by its period or by its instalment: older bills carry the second alone.
Billed(p) == \E b \in Live : b.period = p.start \/ b.point = p.number

\* billablePeriods, as GET /due asks for them.
Due ==
    IF contract = None THEN {}
    ELSE {p \in contract.periods : ~Billed(p) /\ p.start <= today /\ Earned(p)}
-----------------------------------------------------------------------------
Sign(start, term, cycle) ==
    /\ contract = None
    /\ contract' = Signed(start, term, cycle)
    /\ UNCHANGED <<visit, bill, today>>

\* A visit is generated, or put on another day.
Schedule(v, day) ==
    /\ contract # None
    /\ visit[v] # None => visit[v].status = "CREATED"
    /\ visit' = [visit EXCEPT ![v] = [date |-> day, status |-> "CREATED"]]
    /\ UNCHANGED <<contract, bill, today>>

Finish(v, status) ==
    /\ visit[v] # None /\ visit[v].status = "CREATED"
    /\ visit' = [visit EXCEPT ![v].status = status]
    /\ UNCHANGED <<contract, bill, today>>

\* invoices_contract_point_uq counts cancelled bills, invoices_contract_period_uq does not.
Refused(point, period) ==
    \/ \E b \in bill : b.point = point
    \/ period # None /\ \E b \in Live : b.period = period

\* POST /invoices, of a due period, with its dates or with the instalment alone.
Bill(p, dated) ==
    LET period == IF dated THEN p.start ELSE None IN
    /\ p \in Due /\ ~Refused(p.number, period)
    /\ Cardinality(bill) < MaxBills
    /\ bill' = bill \cup {[point |-> p.number, period |-> period, cancelled |-> FALSE]}
    /\ UNCHANGED <<contract, visit, today>>

Cancel(b) ==
    /\ b \in Live
    /\ bill' = (bill \ {b}) \cup {[b EXCEPT !.cancelled = TRUE]}
    /\ UNCHANGED <<contract, visit, today>>

Pass(day) ==
    /\ day > today
    /\ today' = day
    /\ UNCHANGED <<contract, visit, bill>>

Init ==
    /\ contract = None
    /\ visit = [v \in Visits |-> None]
    /\ bill = {}
    /\ today = 0

Next ==
    \/ \E start \in Starts, term \in Terms, cycle \in Cycles : Sign(start, term, cycle)
    \/ \E v \in Visits :
        \/ \E day \in Today : Schedule(v, day)
        \/ \E status \in {"WORK_DONE", "CANCELLED"} : Finish(v, status)
    \/ \E p \in Due, dated \in BOOLEAN : Bill(p, dated)
    \/ \E b \in Live : Cancel(b)
    \/ \E day \in Today : Pass(day)

Spec == Init /\ [][Next]_vars
-----------------------------------------------------------------------------
TypeOK ==
    /\ contract # None =>
        /\ contract.start \in Starts /\ contract.cycle \in Cycles
        /\ \A p \in contract.periods : p.number \in 1..14 /\ {p.start, p.end} \subseteq 0..LastDay
    /\ visit \in [Visits ->
            {None} \cup [date : Today, status : {"CREATED", "WORK_DONE", "CANCELLED"}]]
    /\ bill \subseteq [point : 1..14, period : {None} \cup 0..LastDay, cancelled : BOOLEAN]
    /\ today \in Today \cup {0}

\* The periods of a contract follow each other from its first day to its last, whichever day of
\* the month it started on, and one that is offered is one the register takes, unless a bill
\* for it was cancelled (periodsOf, billablePeriods and the two unique indexes of invoices).
PeriodsAreBillable ==
    contract # None /\ contract.cycle # 0 =>
        LET periods == contract.periods IN
        /\ \A p \in periods :
            /\ p.start <= p.end
            /\ p.start = contract.start \/ \E q \in periods : q.end = p.start - 1
            /\ p.end = contract.end \/ \E q \in periods : q.start = p.end + 1
        /\ \A p \in Due :
            Refused(p.number, p.start) => \E b \in bill \ Live : b.point = p.number

\* Work that was done under the contract is never lost to billing: its period is billed, or is
\* offered, or waits for a visit that is still to come, whatever else was put on the same days.
WorkIsBillable ==
    contract # None /\ contract.cycle # 0 =>
        \A v \in Scheduled :
            Done(v) /\ visit[v].date \in contract.start..contract.end =>
                \E p \in contract.periods :
                    /\ v \in Inside(p)
                    /\ \/ Billed(p) \/ p \in Due \/ p.start > today
                       \/ p.end >= today /\ \E u \in Inside(p) : ~Done(u)

\* billing-periods.ts: "a firm that agreed twelve payments takes twelve payments".
AgreedPayments ==
    contract # None /\ contract.term = 365 /\ contract.cycle # 0 =>
        Cardinality(contract.periods) = 12 \div contract.cycle
=============================================================================
