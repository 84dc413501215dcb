------------------------------ MODULE Pipeline ------------------------------
(***************************************************************************)
(* From the first call to a contract's renewal: routes/leads.ts,            *)
(* routes/customers.ts and routes/contracts.ts, for one firm.  A lead is     *)
(* captured under a number of its branch's series, followed up, and          *)
(* converted by a row of INSERTs; a customer may also be entered directly;   *)
(* a contract is numbered by counting the contracts there are, and the lead  *)
(* that renews it by counting the leads.                                     *)
(*                                                                         *)
(* An action is one statement.  Names, addresses and money are left out;     *)
(* NEW, CONTACTED and QUOTED are one stage, "OPEN"; a follow-up date is      *)
(* there or not.  The visits a contract puts on the board are NightlyRun's.  *)
(***************************************************************************)
EXTENDS Integers, FiniteSets, FiniteSetsExt

CONSTANTS
    Workers,    \* requests served at the same time
    Branches,
    Leads, Customers, Contracts,    \* rows of the tables
    Phones,     \* numbers that can be dialled
    MaxNumber,  \* bound: numbers drawn in a branch's series
    None

Stages == {"OPEN", "WON", "LOST"}
Terminal == {"WON", "LOST"}

\* renews is the contract of a lead whose source is "AMC renewal"; raised says that the
\* activity naming the contract is there.
LeadRow ==
    [number : Nat, stage : Stages, dated : BOOLEAN, phone : Phones \cup {None},
     converted : Customers \cup {None}, renews : Contracts \cup {None}, raised : BOOLEAN]

\* from is the lead it was made from, which the row does not say.
CustomerRow ==
    [from : Leads \cup {None}, site : BOOLEAN, contacts : SUBSET Phones]

ContractRow == [number : Nat, of : Customers, scheduled : BOOLEAN]

PipelineConstants ==
    /\ MaxNumber \in Nat /\ None \notin Stages \cup {"lead", "customer"}
    /\ None \notin Leads \cup Customers \cup Contracts \cup LeadRow \cup CustomerRow \cup ContractRow

VARIABLES
    lead,       \* tables leads and lead_activities
    customer,   \* table customers, with the one site and the contacts of each
    contract,   \* tables contracts and contract_schedules
    series,     \* series_counters, "lead", of each branch
    req,
    jobs,       \* leads a job was made from
    refused,    \* history: a lead was refused for its number
    reopened,   \* history: leads put back on the queue after they were won or lost
    disturbed   \* history: leads and contracts that two requests handled at once, or one
                \* that died on the way

vars == <<lead, customer, contract, series, req, jobs, refused, reopened, disturbed>>
-----------------------------------------------------------------------------
OnFile(table) == {x \in DOMAIN table : table[x] # None}

Idle == [pc |-> "idle", lead |-> None, customer |-> None, contract |-> None,
         n |-> 0, phone |-> None, was |-> None, to |-> None]

Request ==
    [pc : {"idle", "capture", "patch", "customer", "site", "contact", "mark", "job",
           "contract_count", "contract_insert",
           "schedules", "renew_count", "renew_insert", "renew_note"},
     lead : Leads \cup {None}, customer : Customers \cup {None},
     contract : Contracts \cup {None}, n : Nat, phone : Phones \cup {None},
     was : [stage : Stages, dated : BOOLEAN] \cup {None}, to : {"job", "customer", None}]

At(w, pc) == req[w].pc = pc

Goto(w, r) == req' = [req EXCEPT ![w] = r]

Step(w, pc) == Goto(w, [req[w] EXCEPT !.pc = pc])

Begin(w, r) == req[w] = Idle /\ Goto(w, r)

Finish(w) == Goto(w, Idle)

Handles(w, x) == x \in {req[w].lead, req[w].contract}

OthersHandle(w, x) == \E v \in Workers \ {w} : Handles(v, x)

Taken(n) == \E l \in OnFile(lead) : lead[l].number = n

NewLead(n, phone, k) ==
    [number |-> n, stage |-> "OPEN", dated |-> TRUE, phone |-> phone,
     converted |-> None, renews |-> k, raised |-> FALSE]
-----------------------------------------------------------------------------
(* POST /api/leads, PATCH /api/leads/:id                                    *)

\* Mutant, and the code before 0015_lead_series_and_detail.sql: the leads are counted.
Counted(b) == Cardinality(OnFile(lead)) + 1

\* next_in_series, in a transaction of its own.
LeadNumber(b) == series[b] + 1

\* A number that cannot be dialled is refused before one is drawn.
CaptureDraw(w, b, phone) ==
    /\ series[b] < MaxNumber
    /\ Begin(w, [Idle EXCEPT !.pc = "capture", !.n = LeadNumber(b), !.phone = phone])
    /\ series' = [series EXCEPT ![b] = LeadNumber(b)]
    /\ UNCHANGED <<lead, customer, contract, jobs, refused, reopened, disturbed>>

\* The reference is unique in the firm: one that is taken is answered 409.
CaptureInsert(w) ==
    LET r == req[w] IN
    /\ At(w, "capture")
    /\ IF Taken(r.n)
       THEN refused' = TRUE /\ UNCHANGED lead
       ELSE /\ \E l \in Leads \ OnFile(lead) :
                lead' = [lead EXCEPT ![l] = NewLead(r.n, r.phone, None)]
            /\ UNCHANGED refused
    /\ Finish(w)
    /\ UNCHANGED <<customer, contract, series, jobs, reopened, disturbed>>

PatchRead(w, l) ==
    /\ l \in OnFile(lead)
    /\ Begin(w, [Idle EXCEPT !.pc = "patch", !.lead = l,
                         !.was = [stage |-> lead[l].stage, dated |-> lead[l].dated]])
    /\ UNCHANGED <<lead, customer, contract, series, jobs, refused, reopened, disturbed>>

\* Mutant: any lead may be left without a date.
AnyDate(stage, date) == TRUE

\* stage is None when the body does not name one; a date may be set, left, or cleared.
Allowed(stage, date) == stage \notin Terminal => date # "clear"

\* What the body leaves out is written back as it was read.
PatchWrite(w, stage, date) ==
    LET l == req[w].lead
        was == req[w].was
        set == IF stage = None THEN was.stage ELSE stage IN
    /\ At(w, "patch")
    /\ Allowed(stage, date)
    /\ lead' = [lead EXCEPT ![l].stage = set,
                            ![l].dated = stage \notin Terminal /\ date # "clear"
                                         /\ (date = "set" \/ was.dated)]
    /\ reopened' = IF was.stage \in Terminal /\ set = "OPEN" THEN reopened \cup {l} ELSE reopened
    /\ Finish(w)
    /\ UNCHANGED <<customer, contract, series, jobs, refused, disturbed>>
-----------------------------------------------------------------------------
(* POST /api/leads/:id/convert, POST /api/customers: the INSERTs of both    *)

\* Mutant: a lead is converted unless it was lost.
NotLost(l) == lead[l].stage # "LOST"

Convertible(l) == lead[l].converted = None

ConvertRead(w, l, to) ==
    /\ l \in OnFile(lead) /\ Convertible(l)
    /\ Begin(w, [Idle EXCEPT !.pc = "customer", !.lead = l, !.phone = lead[l].phone, !.to = to])
    /\ disturbed' = IF OthersHandle(w, l) THEN disturbed \cup {l} ELSE disturbed
    /\ UNCHANGED <<lead, customer, contract, series, jobs, refused, reopened>>

CustomerPost(w, phone) ==
    /\ Begin(w, [Idle EXCEPT !.pc = "customer", !.phone = phone])
    /\ UNCHANGED <<lead, customer, contract, series, jobs, refused, reopened, disturbed>>

CustomerInsert(w) ==
    /\ At(w, "customer")
    /\ \E c \in Customers \ OnFile(customer) :
        /\ customer' = [customer EXCEPT ![c] = [from |-> req[w].lead, site |-> FALSE, contacts |-> {}]]
        /\ Goto(w, [req[w] EXCEPT !.pc = "site", !.customer = c])
    /\ UNCHANGED <<lead, contract, series, jobs, refused, reopened, disturbed>>

\* The steps that follow a site: a contact if there is a number, and the lead if there is one.
AfterContact(r) == IF r.lead # None THEN "mark" ELSE "idle"

\* Mutant: the lead is marked before the contact is there, which is then forgotten.
MarkedFirst(r) == AfterContact(r)

AfterSite(r) == IF r.phone # None THEN "contact" ELSE AfterContact(r)

Advance(w, pc) == IF pc = "idle" THEN Finish(w) ELSE Step(w, pc)

SiteInsert(w) ==
    LET c == req[w].customer IN
    /\ At(w, "site")
    /\ customer' = [customer EXCEPT ![c].site = TRUE]
    /\ Advance(w, AfterSite(req[w]))
    /\ UNCHANGED <<lead, contract, series, jobs, refused, reopened, disturbed>>

ContactInsert(w) ==
    LET c == req[w].customer IN
    /\ At(w, "contact")
    /\ customer' = [customer EXCEPT ![c].contacts = @ \cup {req[w].phone}]
    /\ Advance(w, AfterContact(req[w]))
    /\ UNCHANGED <<lead, contract, series, jobs, refused, reopened, disturbed>>

\* By the lead's id: whether it was converted meanwhile is not looked at.
ConvertMark(w) ==
    LET r == req[w] IN
    /\ At(w, "mark")
    /\ lead' = [lead EXCEPT ![r.lead].stage = "WON", ![r.lead].dated = FALSE,
                            ![r.lead].converted = r.customer]
    /\ Advance(w, IF r.to = "job" THEN "job" ELSE "idle")
    /\ UNCHANGED <<customer, contract, series, jobs, refused, reopened, disturbed>>

\* A caller without a branch is refused here, when the lead has been won already.
ConvertJob(w) ==
    /\ At(w, "job")
    /\ \/ jobs' = jobs \cup {req[w].lead}
       \/ UNCHANGED jobs
    /\ Finish(w)
    /\ UNCHANGED <<lead, customer, contract, series, refused, reopened, disturbed>>
-----------------------------------------------------------------------------
(* POST /api/customers/:customerId/sites/:siteId/contacts                   *)

\* Sites are never deleted, so that the check and the INSERT are one step; which contact is
\* the primary one, the first by a count, is left out.
ContactAdd(c, phone) ==
    /\ c \in OnFile(customer) /\ customer[c].site
    /\ customer' = [customer EXCEPT ![c].contacts = @ \cup {phone}]
    /\ UNCHANGED <<lead, contract, series, req, jobs, refused, reopened, disturbed>>
-----------------------------------------------------------------------------
(* POST /api/contracts                                                      *)

ContractSite(w, c) ==
    /\ c \in OnFile(customer) /\ customer[c].site
    /\ Begin(w, [Idle EXCEPT !.pc = "contract_count", !.customer = c])
    /\ UNCHANGED <<lead, customer, contract, series, jobs, refused, reopened, disturbed>>

ContractCount(w) ==
    /\ At(w, "contract_count")
    /\ Goto(w, [req[w] EXCEPT !.pc = "contract_insert", !.n = Cardinality(OnFile(contract)) + 1])
    /\ UNCHANGED <<lead, customer, contract, series, jobs, refused, reopened, disturbed>>

\* The reference is unique: a request that counted as many as another is refused.
ContractInsert(w) ==
    LET r == req[w] IN
    /\ At(w, "contract_insert")
    /\ IF \E k \in OnFile(contract) : contract[k].number = r.n
       THEN Finish(w) /\ UNCHANGED contract
       ELSE \E k \in Contracts \ OnFile(contract) :
            /\ contract' = [contract EXCEPT ![k] = [number |-> r.n, of |-> r.customer,
                                                    scheduled |-> FALSE]]
            /\ Goto(w, [r EXCEPT !.pc = "schedules", !.contract = k])
    /\ UNCHANGED <<lead, customer, series, jobs, refused, reopened, disturbed>>

SchedulesInsert(w) ==
    /\ At(w, "schedules")
    /\ contract' = [contract EXCEPT ![req[w].contract].scheduled = TRUE]
    /\ Finish(w)
    /\ UNCHANGED <<lead, customer, series, jobs, refused, reopened, disturbed>>
-----------------------------------------------------------------------------
(* POST /api/contracts/:id/renewal-lead                                     *)

\* Mutant: it is worked as long as the lead is still on the queue.
WorkedOpen(k) == \E l \in OnFile(lead) : lead[l].renews = k /\ lead[l].raised /\ lead[l].stage = "OPEN"

\* A lead from a renewal, with an activity that begins with the contract's reference.
Worked(k) == \E l \in OnFile(lead) : lead[l].renews # None /\ lead[l].raised /\ lead[l].renews = k

RenewRead(w, k) ==
    /\ k \in OnFile(contract) /\ ~Worked(k)
    /\ Begin(w, [Idle EXCEPT !.pc = "renew_count", !.contract = k])
    /\ disturbed' = IF OthersHandle(w, k) THEN disturbed \cup {k} ELSE disturbed
    /\ UNCHANGED <<lead, customer, contract, series, jobs, refused, reopened>>

\* A contact of the site, if it has any, and how many leads there are.
RenewCount(w) ==
    LET contacts == customer[contract[req[w].contract].of].contacts IN
    /\ At(w, "renew_count")
    /\ \E phone \in IF contacts = {} THEN {None} ELSE contacts :
        Goto(w, [req[w] EXCEPT !.pc = "renew_insert", !.phone = phone,
                               !.n = Cardinality(OnFile(lead)) + 1])
    /\ UNCHANGED <<lead, customer, contract, series, jobs, refused, reopened, disturbed>>

RenewInsert(w) ==
    LET r == req[w] IN
    /\ At(w, "renew_insert")
    /\ IF Taken(r.n)
       THEN Finish(w) /\ UNCHANGED lead
       ELSE \E l \in Leads \ OnFile(lead) :
            /\ lead' = [lead EXCEPT ![l] = NewLead(r.n, r.phone, r.contract)]
            /\ Goto(w, [r EXCEPT !.pc = "renew_note", !.lead = l])
    /\ UNCHANGED <<customer, contract, series, jobs, refused, reopened, disturbed>>

RenewNote(w) ==
    /\ At(w, "renew_note")
    /\ lead' = [lead EXCEPT ![req[w].lead].raised = TRUE]
    /\ Finish(w)
    /\ UNCHANGED <<customer, contract, series, jobs, refused, reopened, disturbed>>
-----------------------------------------------------------------------------
(* GET /api/leads, GET /api/leads/lookup                                    *)

Queue == {l \in OnFile(lead) : lead[l].stage \notin Terminal}

\* Who is calling: a lead that was not converted before a customer.
Callers(phone) == {l \in OnFile(lead) : lead[l].phone = phone /\ lead[l].converted = None}

Known(phone) == {c \in OnFile(customer) : customer[c].site /\ phone \in customer[c].contacts}

Match(phone) == IF Callers(phone) # {} THEN "lead" ELSE IF Known(phone) # {} THEN "customer" ELSE None
-----------------------------------------------------------------------------
Crash(w) ==
    /\ req[w] # Idle
    /\ Finish(w)
    /\ disturbed' = disturbed \cup ({req[w].lead, req[w].contract} \ {None})
    /\ UNCHANGED <<lead, customer, contract, series, jobs, refused, reopened>>

\* A firm starts with the customers it knows, each with a site and somebody to call.
StartsWith(known) ==
    /\ lead = [l \in Leads |-> None]
    /\ customer = [c \in Customers |->
                    IF c \in known
                    THEN [from |-> None, site |-> TRUE, contacts |-> Phones]
                    ELSE None]
    /\ contract = [k \in Contracts |-> None]
    /\ series = [b \in Branches |-> 0]
    /\ req = [w \in Workers |-> Idle]
    /\ jobs = {} /\ refused = FALSE /\ reopened = {} /\ disturbed = {}

LeadStep(w) ==
    \/ \E b \in Branches, phone \in Phones : CaptureDraw(w, b, phone)
    \/ CaptureInsert(w)
    \/ \E l \in Leads : PatchRead(w, l)
    \/ \E stage \in Stages \cup {None}, date \in {"set", "keep", "clear"} : PatchWrite(w, stage, date)

ConvertStep(w) ==
    \/ \E l \in Leads, to \in {"job", "customer"} : ConvertRead(w, l, to)
    \/ \E phone \in Phones \cup {None} : CustomerPost(w, phone)
    \/ CustomerInsert(w) \/ SiteInsert(w) \/ ContactInsert(w) \/ ConvertMark(w) \/ ConvertJob(w)

ContractStep(w) ==
    \/ \E c \in Customers : ContractSite(w, c)
    \/ \E k \in Contracts : RenewRead(w, k)
    \/ ContractCount(w) \/ ContractInsert(w) \/ SchedulesInsert(w)
    \/ RenewCount(w) \/ RenewInsert(w) \/ RenewNote(w)

\* Taking on customers, and serving the contracts of those there are.
SalesNext ==
    \/ \E w \in Workers : LeadStep(w) \/ ConvertStep(w) \/ Crash(w)
    \/ \E c \in Customers, phone \in Phones : ContactAdd(c, phone)

ContractsNext == \E w \in Workers : LeadStep(w) \/ ContractStep(w) \/ Crash(w)

Init == \E known \in SUBSET Customers : StartsWith(known)

Next == SalesNext \/ ContractsNext

Spec == Init /\ [][Next]_vars
-----------------------------------------------------------------------------
TypeOK ==
    /\ lead \in [Leads -> LeadRow \cup {None}]
    /\ customer \in [Customers -> CustomerRow \cup {None}]
    /\ contract \in [Contracts -> ContractRow \cup {None}]
    /\ series \in [Branches -> Nat]
    /\ req \in [Workers -> Request]
    /\ jobs \subseteq Leads /\ refused \in BOOLEAN
    /\ reopened \subseteq Leads /\ disturbed \subseteq Leads \cup Contracts

\* A lead makes one customer: any other made from it belongs to a lead that two requests
\* converted at once, or that a request died converting (/convert inserts the customer first
\* and marks the lead three statements later).
ConvertedOnce ==
    \A c \in OnFile(customer) :
        LET l == customer[c].from IN
        l # None => \/ lead[l].converted = c
                    \/ l \in disturbed
                    \/ \E w \in Workers : req[w].lead = l /\ req[w].customer = c

\* Whoever called once is recognised for good: while a lead is converted, and wherever the
\* request dies, /lookup finds the lead or the customer it became (the contact is inserted
\* before the lead is marked).
CallerStaysKnown == \A l \in OnFile(lead) : lead[l].phone # None => Match(lead[l].phone) # None

\* A contract is worked as one renewal, whatever became of the lead, unless two requests
\* raised it at once or one died before it wrote the activity /renewal-lead looks for.
RenewedOnce ==
    \A k \in OnFile(contract) :
        k \in disturbed \/ Cardinality({l \in OnFile(lead) : lead[l].renews = k}) <= 1

\* With one branch, and no renewal numbered by a count, a caller is never refused for the
\* number of his lead (POST /api/leads draws from the series: 0015_lead_series_and_detail.sql).
SeriesSuffices ==
    refused => \/ \E l \in OnFile(lead) : lead[l].renews # None
               \/ \E a, b \in Branches : a # b /\ series[a] > 0 /\ series[b] > 0

\* A lead on the queue has a date to call again, unless it was put back there after it was won
\* or lost: PATCH then writes back the date that was cleared (FR-104).
QueuedIsDated == \A l \in Queue : lead[l].dated \/ l \in reopened
=============================================================================
