------------------------------ MODULE BackOffice ------------------------------
(***************************************************************************)
(* The desks of the office that share no row with each other: each is a     *)
(* module of its own, and a behaviour is of one of them, with the tables of  *)
(* the others left empty.  Nothing is lost: no statement of one desk reads   *)
(* what a statement of another writes.                                      *)
(***************************************************************************)
EXTENDS Integers, FiniteSets

CONSTANTS
    Workers,        \* requests served at the same time
    None,
    Grants, Defaults, TrialEnds, MaxTime,                     \* Platform
    Accounts, MaxAccount, MaxAddress, Window, MaxHits, Address,  \* RateLimit
    Branches, Phones, MaxNumber,                              \* Pipeline
    SalesLeads, SalesCustomers,                               \*   taking on customers
    ServedLeads, ServedCustomers, Contracts,                  \*   serving their contracts
    Bills, Amounts, Percents, Reverse, Vendors, Asked,               \* Purchases
    YearLength, ShortLimit, LongLimit, BillTime,
    SingleLimit, AnnualLimit, AnnualLimitJ,
    Parts, Places, Rows, Quantities, Levels, Shown,           \* Stock
    Starts, Terms, Cycles, Visits, MaxBills, Dates            \* BillingPeriods

VARIABLES
    desk,           \* the one this behaviour is of
    now, req,
    plan, subscription, life, grant, paid, overtaken, closure,
    limit, failed, lost, late,
    lead, customer, contract, series, jobs, refused, reopened, disturbed,
    vendor, bill, settled, together,
    part, place, movement, fitted,
    agreement, visit, invoice

platformVars == <<plan, subscription, life, grant, paid, overtaken, closure>>
rateVars == <<limit, failed, lost, late>>
pipelineVars == <<lead, customer, contract, series, jobs, refused, reopened, disturbed>>
purchaseVars == <<vendor, bill, settled, together>>
stockVars == <<part, place, movement, fitted>>
periodVars == <<agreement, visit, invoice>>

vars == <<desk, now, req, platformVars, rateVars, pipelineVars, purchaseVars, stockVars, periodVars>>
-----------------------------------------------------------------------------
Platform == INSTANCE Platform

RateLimit == INSTANCE RateLimit WITH Attempts <- Workers, Door <- "password"

Sales == INSTANCE Pipeline WITH Leads <- SalesLeads, Customers <- SalesCustomers, Contracts <- {}

Service == INSTANCE Pipeline WITH
    Leads <- ServedLeads, Customers <- ServedCustomers, MaxNumber <- 0

Purchases == INSTANCE Purchases WITH MaxTime <- BillTime

Stock == INSTANCE Stock

Periods == INSTANCE BillingPeriods WITH
    Today <- Dates, contract <- agreement, bill <- invoice, today <- now

ASSUME BackOfficeConstants ==
    /\ Platform!PlatformConstants /\ RateLimit!RateLimitConstants
    /\ Sales!PipelineConstants /\ Service!PipelineConstants
    /\ Purchases!PurchasesConstants /\ Stock!StockConstants
    /\ Periods!BillingPeriodsConstants

ASSUME FiniteTables ==
    /\ IsFiniteSet(Workers) /\ IsFiniteSet(Bills) /\ IsFiniteSet(Rows) /\ IsFiniteSet(Places)
    /\ IsFiniteSet(ServedLeads) /\ IsFiniteSet(Contracts)
-----------------------------------------------------------------------------
\* Tables left empty.
NoPlatform ==
    /\ plan = None /\ subscription = None /\ life = None /\ grant = None
    /\ paid = None /\ overtaken = None /\ closure = None

NoRates ==
    /\ limit = None /\ failed = None /\ lost = None /\ late = None

NoPipeline ==
    /\ lead = None /\ customer = None /\ contract = None /\ series = None
    /\ jobs = None /\ refused = None /\ reopened = None /\ disturbed = None

NoPurchases ==
    /\ vendor = None /\ bill = None /\ settled = None /\ together = None

NoStock ==
    /\ part = None /\ place = None /\ movement = None /\ fitted = None

NoPeriods ==
    /\ agreement = None /\ visit = None /\ invoice = None

Init ==
    \/ /\ desk \in {"plans", "subscriptions", "lifecycle"}
       /\ Platform!Init
       /\ NoRates /\ NoPipeline /\ NoPurchases /\ NoStock /\ NoPeriods
    \/ /\ desk = "doors" /\ RateLimit!Init
       /\ NoPlatform /\ NoPipeline /\ NoPurchases /\ NoStock /\ NoPeriods
    \/ /\ desk = "sales" /\ Sales!StartsWith({}) /\ now = None
       /\ NoPlatform /\ NoRates /\ NoPurchases /\ NoStock /\ NoPeriods
    \/ /\ desk = "service" /\ Service!StartsWith(ServedCustomers) /\ now = None
       /\ NoPlatform /\ NoRates /\ NoPurchases /\ NoStock /\ NoPeriods
    \/ /\ desk = "purchases" /\ Purchases!Init
       /\ NoPlatform /\ NoRates /\ NoPipeline /\ NoStock /\ NoPeriods
    \/ /\ desk = "stock" /\ Stock!Init /\ now = None /\ req = None
       /\ NoPlatform /\ NoRates /\ NoPipeline /\ NoPurchases /\ NoPeriods
    \/ /\ desk = "periods" /\ Periods!Init /\ req = None
       /\ NoPlatform /\ NoRates /\ NoPipeline /\ NoPurchases /\ NoStock

PlatformNext ==
    \/ desk = "plans" /\ Platform!PlansNext
    \/ desk = "subscriptions" /\ Platform!SubscriptionsNext
    \/ desk = "lifecycle" /\ Platform!LifecycleNext
    \/ desk \in {"plans", "subscriptions", "lifecycle"} /\ Platform!Interrupt

Next ==
    \/ /\ PlatformNext
       /\ UNCHANGED <<desk, rateVars, pipelineVars, purchaseVars, stockVars, periodVars>>
    \/ /\ desk = "doors" /\ RateLimit!Next
       /\ UNCHANGED <<desk, platformVars, pipelineVars, purchaseVars, stockVars, periodVars>>
    \/ /\ desk = "sales" /\ Sales!SalesNext
       /\ UNCHANGED <<desk, now, platformVars, rateVars, purchaseVars, stockVars, periodVars>>
    \/ /\ desk = "service" /\ Service!ContractsNext
       /\ UNCHANGED <<desk, now, platformVars, rateVars, purchaseVars, stockVars, periodVars>>
    \/ /\ desk = "purchases" /\ Purchases!Next
       /\ UNCHANGED <<desk, platformVars, rateVars, pipelineVars, stockVars, periodVars>>
    \/ /\ desk = "stock" /\ Stock!Next
       /\ UNCHANGED <<desk, now, req, platformVars, rateVars, pipelineVars, purchaseVars, periodVars>>
    \/ /\ desk = "periods" /\ Periods!Next
       /\ UNCHANGED <<desk, req, platformVars, rateVars, pipelineVars, purchaseVars, stockVars>>

Spec == Init /\ [][Next]_vars
-----------------------------------------------------------------------------
\* Each desk keeps the types of its tables.
TypeOK ==
    /\ desk \in {"plans", "subscriptions", "lifecycle"} => Platform!TypeOK
    /\ desk = "doors" => RateLimit!TypeOK
    /\ desk = "sales" => Sales!TypeOK
    /\ desk = "service" => Service!TypeOK
    /\ desk = "purchases" => Purchases!TypeOK
    /\ desk = "stock" => Stock!TypeOK
    /\ desk = "periods" => Periods!TypeOK

\* One default plan, a firm that paid does not expire, and a closure stands on an export and
\* holds, however the requests of operators cross (platform.ts).
ControlPlaneHolds ==
    /\ desk = "plans" => Platform!OneDefaultPlan
    /\ desk = "subscriptions" => Platform!PaidNeverExpires
    /\ desk = "lifecycle" => Platform!ClosureHolds

\* What is spent of the budget of an address is the failures behind it (rate-limit.ts).
BudgetIsFailures == desk = "doors" => RateLimit!BudgetIsFailures

\* A lead makes one customer, and whoever called once is recognised while it does (leads.ts).
LeadsBecomeCustomers ==
    desk = "sales" => Sales!ConvertedOnce /\ Sales!CallerStaysKnown

\* A contract is renewed by one lead, and no lead on the queue is forgotten (contracts.ts,
\* leads.ts).
NothingForgotten ==
    /\ desk = "service" => Service!RenewedOnce
    /\ desk = "sales" => Sales!SeriesSuffices
    /\ desk \in {"sales", "service"} => Sales!QueuedIsDated

\* Tax is deducted from the threshold on, what is owed is deductible or lost, and a bill is
\* settled once (vendors.ts, purchases.ts).
BillsSettleOnce ==
    desk = "purchases" =>
        Purchases!SettledOnce /\ Purchases!DeductedAtThreshold /\ Purchases!OwedHasAClock

\* Parts are conserved across the places they move between (parts.ts).
StockConserved == desk = "stock" => Stock!StockConserved

\* A contract's periods cover it, and what is offered can be billed (billing-periods.ts).
PeriodsAreBillable ==
    desk = "periods" => Periods!PeriodsAreBillable /\ Periods!WorkIsBillable

\* vendors.ts, of /advise: "the answer it shows is the one the server will apply".
AdvisedIsRecorded == desk = "purchases" => Purchases!AdvisedIsRecorded

\* billing-periods.ts: "a firm that agreed twelve payments takes twelve payments".
AgreedPayments == desk = "periods" => Periods!AgreedPayments
=============================================================================
