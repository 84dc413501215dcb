------------------------------ MODULE Platform ------------------------------
(***************************************************************************)
(* The control plane of src/routes/platform.ts, for one firm: the plans on  *)
(* offer, the firm's subscription, its lifecycle with the exports a closure *)
(* needs, and the support grants on it.  platform_audit is written last by  *)
(* every handler and read by none, and is left out.                         *)
(*                                                                         *)
(* The three parts share no row, so each has a next-state relation of its   *)
(* own.                                                                     *)
(***************************************************************************)
EXTENDS Integers, FiniteSets, FiniteSetsExt

CONSTANTS
    Workers,    \* requests served at the same time
    Grants,     \* rows of platform_support_grants
    Defaults,   \* bound: how many codes bootstrap may try
    TrialEnds,  \* tenant_subscriptions.trial_ends_at
    MaxTime,    \* bound: the clock, in days
    None

PlatformConstants ==
    /\ {Defaults, TrialEnds, MaxTime} \subseteq Nat
    /\ None \notin Nat \cup Grants

VARIABLES
    now,
    plan,           \* table platform_plans by code: DEFAULT_0, DEFAULT_1, ... or one of an operator
    subscription,   \* tenant_subscriptions.status
    life,           \* table tenant_lifecycle
    grant,          \* table platform_support_grants
    req,
    paid,           \* history: the firm has renewed
    overtaken,      \* history: a status was written over another than the one it was checked
                    \* against or worked out from
    closure         \* history: the day the last closure was decided, and the export it rested on

vars == <<now, plan, subscription, life, grant, req, paid, overtaken, closure>>

Subscribing == <<subscription, paid, overtaken>>
Living == <<life, grant, closure>>
-----------------------------------------------------------------------------
\* Codes are numbers: n is ERP_DEFAULT_ACCESS_n, and -1 a code an operator thought of.
DefaultCodes == 0..Defaults - 1
PlanCodes == DefaultCodes \cup {-1}

PlanRow == {"ABSENT", "ACTIVE", "RETIRED"}
Statuses == {"TRIAL", "ACTIVE", "PAST_DUE", "EXPIRED"}
Kinds == {"INVOICE_CREATED", "RENEWED", "PAYMENT_FAILED", "TRIAL_EXPIRED"}
Lives == {"ACTIVE", "PAUSED", "CLOSED"}
LifeRow == [status : Lives, exported : Nat \cup {None}, retention : Nat \cup {None}]
GrantRow == [state : {"ABSENT", "GRANTED", "REVOKED"}, expires : Nat]

Idle == [pc |-> "idle"]

Request ==
    {Idle}
    \cup [pc : {"boot_snapshot", "boot_answer"}]
    \cup [pc : {"boot_insert"}, code : PlanCodes]
    \cup [pc : {"event_write"}, kind : Kinds, was : Statuses]
    \cup [pc : {"export_write"}, at : Nat]
    \cup [pc : {"life_write"}, was : Lives, to : Lives, retention : Nat \cup {None},
          at : Nat, exported : Nat \cup {None}]
    \cup [pc : {"grant_insert"}, expires : Nat]
    \cup [pc : {"records_life", "records_read"}, grant : Grants]

At(w, pc) == req[w].pc = pc

Goto(w, r) == req' = [req EXCEPT ![w] = r]

Finish(w) == Goto(w, Idle)
-----------------------------------------------------------------------------
(* POST /plans/bootstrap, POST /plans                                       *)

ActivePlans == {c \in PlanCodes : plan[c] = "ACTIVE"}

BootRead(w) ==
    /\ req[w] = Idle
    /\ ActivePlans = {}
    /\ Goto(w, [pc |-> "boot_snapshot"])
    /\ UNCHANGED <<now, plan, Subscribing, Living>>

Free == {c \in DefaultCodes : plan[c] = "ABSENT"}

\* What the WITH statement sees as it starts: the first free code, if no plan is active.
BootSnapshot(w) ==
    /\ At(w, "boot_snapshot")
    /\ IF ActivePlans = {}
       THEN /\ Free # {}
            /\ Goto(w, [pc |-> "boot_insert", code |-> Min(Free)])
       ELSE Goto(w, [pc |-> "boot_answer"])
    /\ UNCHANGED <<now, plan, Subscribing, Living>>

\* Mutant: the code is worked out again when it is taken.
NextFree(c) == IF Free = {} THEN c ELSE Min(Free)

\* ON CONFLICT (code) DO NOTHING
CodeInserted(c) == c

BootInsert(w) ==
    LET c == CodeInserted(req[w].code) IN
    /\ At(w, "boot_insert")
    /\ plan' = IF plan[c] = "ABSENT" THEN [plan EXCEPT ![c] = "ACTIVE"] ELSE plan
    /\ Goto(w, [pc |-> "boot_answer"])
    /\ UNCHANGED <<now, Subscribing, Living>>

\* Read in a new statement, so that a winner is seen; a plan, or a request to try again.
BootAnswer(w) ==
    /\ At(w, "boot_answer")
    /\ Finish(w)
    /\ UNCHANGED <<now, plan, Subscribing, Living>>

\* An operator's own plan, its code unique.
PlanCreate ==
    /\ \E c \in {-1, 0} :
        /\ plan[c] = "ABSENT"
        /\ plan' = [plan EXCEPT ![c] = "ACTIVE"]
    /\ UNCHANGED <<now, Subscribing, Living, req>>

\* No handler retires a plan; who does so in the database leaves its code.
Retire ==
    /\ \E c \in ActivePlans : plan' = [plan EXCEPT ![c] = "RETIRED"]
    /\ UNCHANGED <<now, Subscribing, Living, req>>

PlansNext ==
    \/ PlanCreate \/ Retire
    \/ \E w \in Workers : BootRead(w) \/ BootSnapshot(w) \/ BootInsert(w) \/ BootAnswer(w)
-----------------------------------------------------------------------------
(* POST /tenants/:id/subscription-events, POST /maintenance/trials          *)

TrialOver == now >= TrialEnds

\* The kind decides the status; an invoice writes back the one that was read.
StatusAfter(kind, was) ==
    CASE kind = "TRIAL_EXPIRED" -> "EXPIRED"
      [] kind = "PAYMENT_FAILED" -> "PAST_DUE"
      [] kind = "RENEWED" -> "ACTIVE"
      [] OTHER -> was

\* Mutant: every subscription past the end of its trial is due.
PastTrial == TrialOver

Due == subscription = "TRIAL" /\ TrialOver

EventRead(w, kind) ==
    /\ req[w] = Idle
    /\ kind = "TRIAL_EXPIRED" => Due
    /\ Goto(w, [pc |-> "event_write", kind |-> kind, was |-> subscription])
    /\ UNCHANGED <<now, plan, Subscribing, Living>>

EventWrite(w) ==
    LET r == req[w] IN
    /\ At(w, "event_write")
    /\ subscription' = StatusAfter(r.kind, r.was)
    /\ paid' = (paid \/ r.kind = "RENEWED")
    /\ overtaken' = (overtaken \/ r.was # subscription)
    /\ Finish(w)
    /\ UNCHANGED <<now, plan, Living>>

\* One statement over every trial that is due.
Maintain ==
    /\ Due
    /\ subscription' = "EXPIRED"
    /\ UNCHANGED <<now, plan, paid, overtaken, Living, req>>

SubscriptionsNext ==
    \/ \E w \in Workers :
        \/ \E kind \in Kinds : EventRead(w, kind)
        \/ EventWrite(w)
    \/ Maintain
-----------------------------------------------------------------------------
(* POST /tenants/:id/export, POST /tenants/:id/lifecycle                    *)

\* The stamp is taken when every table was read, and written later.
ExportRead(w) ==
    /\ req[w] = Idle
    /\ Goto(w, [pc |-> "export_write", at |-> now])
    /\ UNCHANGED <<now, plan, Subscribing, Living>>

ExportWrite(w) ==
    /\ At(w, "export_write")
    /\ life' = [life EXCEPT !.exported = req[w].at]
    /\ Finish(w)
    /\ UNCHANGED <<now, plan, Subscribing, grant, closure>>

\* Mutant: an export is an export.
EverExported == life.exported # None

\* An export of the last day, whatever its hour.
Recent == life.exported # None /\ now - life.exported <= 1

\* Retention is asked for in days from now; one that is not in the future is refused.
LifeRead(w, to, retention) ==
    /\ req[w] = Idle
    /\ \/ to = "ACTIVE" /\ life.status = "PAUSED"
       \/ to = "PAUSED" /\ life.status = "ACTIVE"
       \/ to = "CLOSED" /\ life.status # "CLOSED" /\ Recent /\ retention > now
    /\ Goto(w, [pc |-> "life_write", was |-> life.status, to |-> to,
                at |-> now, exported |-> life.exported,
                retention |-> IF to = "CLOSED" THEN retention ELSE life.retention])
    /\ UNCHANGED <<now, plan, Subscribing, Living>>

\* By the firm's id: its status is not looked at again.
LifeWrite(w) ==
    LET r == req[w] IN
    /\ At(w, "life_write")
    /\ life' = [life EXCEPT !.status = r.to, !.retention = r.retention]
    /\ closure' = IF r.to = "CLOSED" THEN [at |-> r.at, exported |-> r.exported] ELSE closure
    /\ overtaken' = (overtaken \/ r.was # life.status)
    /\ Finish(w)
    /\ UNCHANGED <<now, plan, subscription, paid, grant>>
-----------------------------------------------------------------------------
(* POST /tenants/:id/support, POST /support/:id/revoke, /support/:id/records *)

GrantRead(w) ==
    /\ req[w] = Idle
    /\ life.status # "CLOSED"
    /\ Goto(w, [pc |-> "grant_insert", expires |-> now + 1])
    /\ UNCHANGED <<now, plan, Subscribing, Living>>

GrantInsert(w) ==
    /\ At(w, "grant_insert")
    /\ \E g \in Grants :
        /\ grant[g].state = "ABSENT"
        /\ grant' = [grant EXCEPT ![g] = [state |-> "GRANTED", expires |-> req[w].expires]]
    /\ Finish(w)
    /\ UNCHANGED <<now, plan, Subscribing, life, closure>>

Revoke(g) ==
    /\ grant[g].state = "GRANTED"
    /\ grant' = [grant EXCEPT ![g].state = "REVOKED"]
    /\ UNCHANGED <<now, plan, Subscribing, life, closure, req>>

RecordsGrant(w, g) ==
    /\ req[w] = Idle
    /\ grant[g].state = "GRANTED" /\ grant[g].expires > now
    /\ Goto(w, [pc |-> "records_life", grant |-> g])
    /\ UNCHANGED <<now, plan, Subscribing, Living>>

RecordsLife(w) ==
    /\ At(w, "records_life")
    /\ IF life.status = "CLOSED" THEN Finish(w) ELSE Goto(w, [req[w] EXCEPT !.pc = "records_read"])
    /\ UNCHANGED <<now, plan, Subscribing, Living>>

RecordsRead(w) ==
    /\ At(w, "records_read")
    /\ Finish(w)
    /\ UNCHANGED <<now, plan, Subscribing, Living>>

LifecycleNext ==
    \/ \E w \in Workers :
        \/ ExportRead(w) \/ ExportWrite(w) \/ LifeWrite(w) \/ GrantRead(w) \/ GrantInsert(w)
        \/ RecordsLife(w) \/ RecordsRead(w)
        \/ \E to \in Lives, retention \in 0..MaxTime + 1 : LifeRead(w, to, retention)
        \/ \E g \in Grants : RecordsGrant(w, g)
    \/ \E g \in Grants : Revoke(g)
-----------------------------------------------------------------------------
Crash(w) ==
    /\ req[w] # Idle
    /\ Finish(w)
    /\ UNCHANGED <<now, plan, Subscribing, Living>>

Tick ==
    /\ now < MaxTime
    /\ now' = now + 1
    /\ UNCHANGED <<plan, Subscribing, Living, req>>

\* create_platform_erp_tenant leaves a firm on trial and active.
Init ==
    /\ now = 0
    /\ plan = [c \in PlanCodes |-> "ABSENT"]
    /\ subscription = "TRIAL"
    /\ life = [status |-> "ACTIVE", exported |-> None, retention |-> None]
    /\ grant = [g \in Grants |-> [state |-> "ABSENT", expires |-> 0]]
    /\ req = [w \in Workers |-> Idle]
    /\ paid = FALSE /\ overtaken = FALSE /\ closure = None

Interrupt == Tick \/ \E w \in Workers : Crash(w)

Next == PlansNext \/ SubscriptionsNext \/ LifecycleNext \/ Interrupt

Spec == Init /\ [][Next]_vars
-----------------------------------------------------------------------------
TypeOK ==
    /\ now \in Nat
    /\ closure \in {None} \cup [at : Nat, exported : Nat]
    /\ plan \in [PlanCodes -> PlanRow]
    /\ subscription \in Statuses
    /\ life \in LifeRow
    /\ grant \in [Grants -> GrantRow]
    /\ req \in [Workers -> Request]
    /\ paid \in BOOLEAN /\ overtaken \in BOOLEAN

\* However many requests set up access profiles at once, and whatever operators create or
\* retire meanwhile, at most one default plan is on offer (/plans/bootstrap: the code arbitrates).
OneDefaultPlan == Cardinality(ActivePlans \cap DefaultCodes) <= 1

\* A firm that has paid is neither on trial nor expired again, unless an event was recorded
\* over a status other than the one it was worked out from (/subscription-events writes the
\* status it read back; /maintenance/trials looks at the row).
PaidNeverExpires == paid /\ ~overtaken => subscription \in {"ACTIVE", "PAST_DUE"}

\* Once closed, a firm stays closed and is retained beyond the day that was decided, and the
\* decision rested on an export of the day before, unless a lifecycle request wrote over a
\* status other than the one it had checked (/lifecycle checks a row and updates it by id).
ClosureHolds ==
    closure # None =>
        /\ closure.at - closure.exported <= 1
        /\ overtaken \/ (life.status = "CLOSED" /\ life.retention > closure.at)
=============================================================================
