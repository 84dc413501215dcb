# oBizee ERP backend: TLA+ specifications

TLA+ models of the oBizee ERP backend: the billing register and what settles it, the job
board, both sign-ins and the team behind them, the nightly run, the screens that are read
off the register while it is written, and the desks of the back office. They are aimed at
the places where a wrong interleaving, a crash or a retry costs money, a statutory number
or a customer's trust. TLC checks them on small instances; TLAPS proves the invariants and
the step properties for every instance.

`src/` below is the root of the backend's repository, so its TypeScript is under
`src/src/`.

## How the program runs, and what that makes of a model

The server is a stateless set of HTTP handlers (Hono, on Lambda or a Node process)
over Postgres. Everything shared is in the database, and the database is reached
over Neon's HTTP driver: **each SQL statement is a transaction of its own**
(`src/src/db/client.ts:73-113` wraps every query in a two-statement batch that sets the
tenant and runs it) and no handler opens a transaction over two of them. So in every
module

- one action is one SQL statement, with the checks the handler makes on its answer
  before it sends the next one;
- a request in flight is a record `req[w]` of a worker `w`: `pc` names the statement it
  executes next, the other fields are the values the handler read and still needs;
- between two statements of a request any other request may execute any of its own;
- `Crash(w)` ends a request between any two statements: the process was killed, the
  Lambda timed out, or the connection failed;
- a unique index, a foreign key, a trigger or a `WHERE` clause is a condition evaluated in
  the very step that writes;
- one tenant is modelled, and one branch unless a module has branches. Row-level security and the keys of every table
  keep tenants apart, and the key of a series counter contains the branch.

## Inventory

| Component | Source (under `src/`) | State | Operations | Hard because | Module |
|---|---|---|---|---|---|
| Number series | `src/lib/series.ts`, `drizzle/0001_guards.sql` | `series_counters` | `next_in_series` | drawn in one statement, written in another; years | `Ledger`, `NumberSeries` |
| Invoices | `src/routes/invoices.ts` | `invoices`, `invoice_lines` | create, issue, cancel or discard | stale status, two indexes over one supply, 31 March | `InvoiceHandlers` |
| Payments | `src/routes/payments.ts` | `payments` | record | a sum checked, then a row inserted | `SettlementHandlers` |
| Credit notes | `src/routes/credit-notes.ts` | `credit_notes`, lines | raise, issue | what is checked at the draft is spent at issue | `SettlementHandlers` |
| Advances | `src/routes/advances.ts` | `advances` | record, adjust | one voucher, one invoice, two requests | `SettlementHandlers` |
| Jobs | `src/routes/jobs.ts` | `jobs`, `job_helpers`, `job_events`, `sign_offs` | create, assign, reschedule, sign off, transition | phones that replay; status written back | `Jobs` |
| Tenant sessions | `src/tenant/`, `src/auth/z-sessions.ts`, `drizzle/0421*`, `0423*` | `z_sessions`, `refresh_tokens`, `z_session_refresh`, `users` | sign in, refresh, sign out, password, deactivate | each races each | `TenantSessions` |
| Visits and reminders | `src/lib/visit-generation.ts`, `src/lib/notify/run.ts`, `src/routes/reminders.ts` | `jobs`, `reminders` | generate, raise, drain | runs overlap; a provider that may not answer | `NightlyRun` |
| Sign-in of the operations app | `src/auth/sign-in.ts` | `otp_challenges`, `refresh_tokens`, `users` | codes, password, rotate, sign out, change password | codes and tokens read in one statement and spent in another | `SignIn` |
| People | `src/routes/people.ts` | `users` | add, edit, switch on and off | the last owner; sessions of someone switched off | `Accounts` |
| Rate limits | `src/lib/rate-limit.ts`, `drizzle/0006*`, `0012*` | `rate_limits` | spend, give back, clear | a hit given back in another window than it was spent | `RateLimit` |
| Platform administration | `src/routes/platform.ts` | plans, subscription, lifecycle, grants | bootstrap, events, export, close, grant | a status checked, then written whatever it is by then | `Platform` |
| Leads, customers, contracts | `src/routes/leads.ts`, `customers.ts`, `contracts.ts` | `leads`, `customers`, `sites`, `site_contacts`, `contracts` | capture, edit, convert, sign, renew | four INSERTs, no transaction; numbers drawn three ways | `Pipeline` |
| Vendors and purchases | `src/routes/vendors.ts`, `src/lib/purchases.ts` | `vendors`, `purchase_bills` | advise, bill, settle | thresholds over running totals | `Purchases` |
| Stock | `src/routes/parts.ts`, `drizzle/0009*` | `parts`, `stock_locations`, `stock_movements` | add, move | a balance that is a sum, over movements in no order | `Stock` |
| Billing periods | `src/lib/billing-periods.ts` | none of its own | what is due | months' ends, two ways to name a period | `BillingPeriods` |
| Screens, GST returns | `src/routes/money.ts`, `home.ts`, `gst.ts` | none of their own | read, export | several SELECTs, writers between them | `Screens` |
| Other reads, tax, settings, tenancy, scripts | see "Not modelled" | | | | none |

Interactions. Handlers call each other's libraries and never each other. They meet in
tables: invoices are read by payments, notes, advances, the screens and the return; jobs are
created by the office, by the nightly run and by a contract's button, and moved by phones;
`users` is written by the team screen and read by both sign-ins; every numbered row draws from
`series_counters`, but for contracts and renewal leads, which are counted. The desks of
`BackOffice` share no row with each other: no statement of one reads what a statement of
another writes.

## Modules

```
NumberSeries            what a statutory series promises
Ledger                  tables, requests, series
  InvoiceHandlers       POST /invoices, /:id/issue, /:id/cancel
  SettlementHandlers    payments, credit notes, advances
    Billing             both together; the properties; refinement of NumberSeries
      MCBilling         instances
      BillingProofs     types, numbers                     (TLAPS)
      Screens           what is read while Billing runs     -> MCScreens
        DocumentProofs  documents, money, screens          (TLAPS; also EXTENDS BillingProofs)
Jobs                    -> MCJobs, JobsProofs (TLAPS)
TenantSessions          -> MCTenantSessions, SessionProofs (TLAPS)
NightlyRun              -> MCNightlyRun, NightlyProofs (TLAPS); its job numbers refine NumberSeries
SignIn                  the doors of the operations app
  Accounts              and the team screen over the same rows -> MCAccounts, AccountsProofs (TLAPS)
RateLimit, Platform, Pipeline, Purchases, Stock, BillingPeriods
  BackOffice            an instance of each, one per behaviour -> MCBackOffice
    BackOfficeProofs    desk by desk                       (TLAPS)
FiniteSums              sums over finite sets, in any order (TLAPS)
```

### Billing

`invoice`, `note`, `advance` are the tables, one record per id: `ABSENT` before its INSERT,
`DELETED` after its DELETE. A row keeps the columns some handler decides on: status,
number, date, what it bills (`target`), its total, and whether its lines exist, since the
lines are a second INSERT. `paid[i]` is the sum of the payments of an invoice: the sum is
all any handler reads. `counter` is `series_counters`.

| Handler | Actions in the order of its statements |
|---|---|
| `POST /invoices` | `CreateStart` (`CreateCheck` for an ad-hoc bill) `CreateInsert` `CreateLines` |
| `POST /invoices/:id/issue` | `IssueRead` `IssueCount` `IssueDraw` `IssueUpdate` |
| `POST /invoices/:id/cancel` | `CancelRead` `CancelPayments`, then `CancelDiscard` or `CancelUpdate` |
| `POST /payments` | `PayRead` `PayCheck` `PayInsert` |
| `POST /credit-notes` | `RaiseRead` `RaiseCheck` `RaiseInsert` `RaiseLines` |
| `POST /credit-notes/:id/issue` | `NoteRead` `NoteDraw` `NoteUpdate` |
| `POST /advances`, `/:id/adjust` | `RecordStart` `RecordDraw` `RecordInsert`; `AdjustRead` `AdjustCheck` `AdjustUpdate` |

`SameSupply` is the three unique indexes on what an invoice bills, `Referenced` the foreign
keys that keep a draft from being deleted, `StillDraft` and `Adjustable` the `WHERE`
clauses. Amounts are paise; the tax heads and the rendering of the document are left out,
since no handler decides on them.

Two SELECTs whose answers cannot change between them, or that read rows nothing writes,
are one step. `PayRead` reads the invoice and the sum of its payments in one step: the
total of an invoice never changes and nothing depends on when it was read.

`NumberSeries` is the abstract specification: numbers of a year are drawn in order; a
drawn number is borne by one document or wasted; a borne one may be lost with its
document; none is ever used again. `InvoiceSeriesSpec` and `VoucherSeriesSpec` map
`counter`, the numbers in the hands of requests about to write, and the rows onto it.
Credit notes do **not** refine it: two requests may issue one note and the second number
replaces the first. `NumbersUsedOnce` covers them.

### Jobs

`job` has the status, the primary technician and the attempt; `recorded` is `job_events`
(the reports with a `clientUuid`), `signed` is `sign_offs`. `moved` and `finished` are
history variables for the properties. Every handler reads the row, decides on its copy
(`was`, `attempt`) and updates by id. The phone is in the model as its queue: it may report
each of `Reports` any number of times, also while an earlier report of it is served.

### Tenant sessions

One person. `session` and `token` are `z_sessions` and `refresh_tokens` with their link;
`password` counts the passwords the person has had, so that a stale hash is told from a
current one. The two plpgsql functions of `0423` lock the user's row and are one action
each, `consumeActiveRefresh` is one statement with row locks and one action. Switching a
person off is two statements, and the second does not touch `z_sessions`, as in the code.
`z_replace_password_and_revoke` has no caller in the repository yet; the model lets it be
called at any time.

### Nightly run

`job` has, of each visit of a contract, how many rows there are, the number, the date, and
whether it is gone (cancelled, done or signed off). `outbox` is `reminders`: a reminder is its
dedupe key, either a visit and a lead (7 days or 1) or the digest of a day. `accepted`
counts what the provider took; `doubtful` collects the reminders whose sending was
overlapped by another drain, cut off before its mark, or timed out after acceptance. The
clock has three periods a day: before nine, nine to seven, and after. A run is started by
the scheduler (`CronStart`), an operator (`OperatorStart`) or a contract's button
(`ButtonStart`, visits only), and nothing keeps two apart.

A firm with one contract stands for all: contracts share nothing but the job series, and
the loop over firms catches what one of them throws.

### Screens

`Screens` adds one `reader` to `Billing`: the screen being put together, with what its
SELECTs have answered so far. The chase list of `money.ts` and `home.ts` is `MoneyBegin`,
`MoneyIssued` and `MoneyPaid` in either order (they are sent together), then
`MoneyCredited`; one row of it is followed, since the rows do not depend on each other. The
return of `gst.ts` is `GstRows`, `GstLines`, `GstNotes`, and `GstExport`, which reads the
invoices of the period a second time. `AmountDue`, `Supplied`, `Drafts`, `Unlined` and
`Blocked` are what the handlers work out from the answers. `owed` is the balance at the moment
the screen was asked for, a history value to compare with.

### Sign-in and the team

`SignIn` has the three tables of `auth/sign-in.ts`. A token remembers which of the person's
passwords its session was opened under, as a history value.

| Function or handler | Actions |
|---|---|
| `requestOtp` | `OtpRead` `OtpInsert` (with the DELETE of expired codes) |
| `verifyOtp` | `VerifyRead`, then `CodeCount` for a wrong guess or `CodeConsume` `Issue` |
| `signInWithPassword` | `PasswordRead` `Issue` |
| `rotateRefresh`, `revokeRefreshToken` | `RotateRead` `RotateRevoke` `Issue`; `SignOut` |
| `changeOwnPassword` | `ChangeRead` `ChangeWrite` `ChangeRevoke` `Issue` |
| `POST /people`, `PATCH /people/:id` | `AddPerson`; `EditRead` (`EditCount`) `EditWrite` |
| `POST /people/:id/active` | `SwitchRead` (`SwitchCount`) `SwitchWrite` `SwitchRevoke` |

Two roles stand for the six: owner, whom the last-owner rule counts, and one that may not
manage people. The properties name their exceptions in history variables: `shared`, codes
and tokens two requests had read and neither had spent; `stray`, people who were on their
way in when their sessions were ended. Both exceptions are what the code does: a code or a
token that two requests hold at once is exchanged twice, because it is spent by id, and
someone who is past the check of `active` gets their token after the revocation.

### The back office

- `RateLimit`: `consumeAll`, `clear` and `refund` in front of one public door. An attempt arrives
  (`Arrive`), spends a hit of its account and one of its address in either order (`Spend`), is
  judged (`Judge`), and gives back what was no failure (`GiveBack`). The door is a parameter,
  since which hits are spent and which are given back depends on it.
- `Platform`: `plan`, filled by `POST /plans/bootstrap` (`Boot*`) and by hand; `subscription` with its
  events (`EventRead`, `EventWrite`) and the expiry of trials (`Maintain`); `life` with
  export, pause, closure and support grants (`Export*`, `Life*`, `Grant*`, `Revoke`).
- `Pipeline`: a lead is captured (`Capture*`), patched (`Patch*`), and converted by one statement
  after the other: `ConvertRead`, `CustomerInsert`, `SiteInsert`, `ContactInsert`, `ConvertMark`,
  or into a job (`ConvertJob`). A contract is `Contract*` and `SchedulesInsert`, its renewal
  `Renew*`. `Queue`, `Match`, `Known` are the follow-up queue and the lookup of a caller.
- `Purchases`: `BillRead` sums what the vendor has billed, `BillInsert` writes the bill with
  the tax worked out from that sum; `PayRead`, `PayWrite` settle it. `TdsRate`, `Clock`, `AtRisk`,
  `Lost` are the rules of `lib/purchases.ts`; `BilledThisYear` is what `/advise` sums.
- `Stock`: each handler is one statement. `Balance`, `OnHand`, `Reorder`, `Negative`,
  `Uncatalogued`, `Undocumented` are what the screen works out from the movements.
- `BillingPeriods`: the calendar is real (days from 1 January 2026, to June 2028, with the
  29 February in it). `PeriodsOfContract`, `Earned`, `Billed`, `Due` translate
  `billing-periods.ts`; signing, visits, bills and their cancellation change what they look at.
- `BackOffice` instantiates them all. `desk` says which of them a behaviour is of; the tables
  of the others are empty. `Pipeline` has two instances: taking customers on, and serving
  the contracts of one that is there already.

## Runs

| Run | Instance | What it shows |
|---|---|---|
| `billing_register` | 2 requests, 2 invoices, a note, a contract's August, 2 days over 31 March | types; nothing billed twice; numbers used once, of the year of the date, kept, also when one note is issued by two requests; an issued invoice is complete; the invoice series is a `NumberSeries` |
| `billing_advances` | 2 requests, 2 invoices, 2 advances, 2 customers | an advance is spent once, on its customer's invoice, and stays there; a discarded draft orphans no money; the voucher series is a `NumberSeries` |
| `screens` | 1 billing request, 1 screen, 2 invoices, a note, 2 days | dates follow numbers and a payment stays within the balance, one request at a time; nobody is chased for what is not owed; a return foots, and its export holds what it was cleared on |
| `jobs` | 2 requests, 1 job, 1 report, 2 technicians | a report moves its job once; its replay is never refused; nobody signs for unfinished work; a job leaves its table only by an overtaken write |
| `tenant_sessions` | 2 requests, 2 sessions, 3 tokens, 2 passwords | what can be renewed is of the present password, has one token and was not signed out |
| `accounts` | 2 requests, one of which may be at the team screen, an owner and one more, 2 tokens, 1 code | a code or token buys one session unless two requests held it; who is switched off, or was in under an old password, is out |
| `nightly` | 2 runs, 2 visits a day apart | a visit is on the board once; job numbers are a `NumberSeries`; the outbox is true of every reminder not in doubt, and what it calls sent was accepted |
| `nightly_drains` | 1 run at a time, 1 visit, 2 days, 1 crash, fairness | what is pending is eventually sent or failed |
| `backoffice` | the desks, 2 requests where a handler has two statements | one default plan, a paid firm does not expire, a closure rests on its export; budgets are failures; a lead makes one customer and its caller stays known; one renewal lead, nothing off the queue without a date; bills settle once and are taxed from the threshold on; stock is conserved; periods cover a contract and can be billed |
| `claim_advised_tds` | one vendor, two years | **fails**: a bill is advised without tax and recorded with it |
| `claim_agreed_payments` | a contract of a year, billed monthly | **fails**: it has thirteen periods |
| `claim_last_owner` | two managers, two owners | **fails**: each removes the other |

The three that fail each check what a comment of the repository says of the program; the
entries under `findings` in `PROJECT.json` quote it and name the line that differs. A property
with the name of a desk's subject (`ControlPlaneHolds`, `BillsSettleOnce`, ...) is the conjunction
of what the desk's own module states; each conjunct is commented there.

### Met while modelling, without a run

- Two drafts of a credit note, each within what is left, are both issued
  (`credit-notes.ts:256`; the comment at `:15` says a note cannot exceed the invoice).
- A discard deletes by id what it read as a draft: an invoice issued in between is deleted,
  number and all (`invoices.ts:891`; `:838` says an issued one is never deleted). `NumberKept`
  excepts just this step.
- A cancelled bill's period cannot be billed again under its instalment (`schema.ts:632` looks
  at the instalment whatever the status, `drizzle/0014_invoice_period.sql:39` lets the period be reused).
  `PeriodsAreBillable` excepts just these.
- Two overlapping drains send a reminder twice (`notify/run.ts:244`, against `:4`). `OutboxIsTrue`
  counts with the overlap.
- In production the stand-in for WhatsApp throws before the loop (`reminders.ts:55`, `sender.ts:74`):
  neither a scheduled nor an operator's run sends anything.
- A code is guessed at more often than `MAX_ATTEMPTS` by concurrent requests, since attempts are
  counted from the value read; a code or a token held by two requests buys two sessions.
- Two concurrent payments together exceed an invoice (`README.md:243` says "Overpayment is
  refused"). `PaymentWithinBalance` is checked, and holds, with one request at a time.
- Two concurrent issues of a credit note waste a number.
- A report that was recorded but whose job was not yet moved when the process died is answered as
  a replay ever after, and never moves the job (`jobs.ts:842`).
- A reminder of a visit that is cancelled after it was raised is still sent, and a visit that is
  rescheduled after it was announced is not announced again (`reminders.ts:72`, `:112`).
- A lead that is reopened has no follow-up date and lies on the queue without one
  (`leads.ts:456-459` against `:471-475`). `QueuedIsDated` excepts `reopened` leads.
- A lead's reference is unique in the firm but drawn per branch: two branches draw the same one.
- Cancelled invoices are added to the supplies of a return (`gst.ts:212-275`), where
  `invoices.ts:838-843` says they are none.
- The customers' list counts credit notes of cancelled invoices and nets an invoice that was
  paid and then credited against the customer's others; the chase list floors each at nothing.

### Bounds, and why they are enough

- **Two requests at a time.** Every race in this code is between a statement of one request
  and a statement of another about the same row; every check reads rows that one other
  request can change. Requests end and start again, so any number of them follow each
  other. A third concurrent request adds histories, but the rows it could leave are already left by
  one that finished or died. `screens` has one billing request: it asks what each handler's
  checks guarantee on their own, and the screen is the second process.
- **Two rows of a kind.** The indexes compare two rows. `billing_register` has the two
  invoices of one supply (a contract's period and its instalment; the index on jobs has the form
  of the one on instalments); `billing_advances` two advances and two customers so that the
  wrong pair exists.
- **`MaxDay`, `NewYear`.** Two days, one on each side of 1 April (in `screens` one in the return's
  period and one after it).
- **`MaxNumber`.** Two invoice numbers a year (and two vouchers): one to keep and one to
  lose. Drawing stops at the bound; a request that would draw waits or dies.
- **`MaxPassword` = 1**, **`MaxAttempt` = 1**: one change is what a stale read can miss.
  In `accounts` **`MaxCode`** = 1 (codes of one person do not influence each other except that
  the latest is tried) and **`MaxAttempts`** = 1, the last wrong guess of the code's five.
- **`Visitors`, `Managers`**: the second person comes to the doors, the owner does not, and one
  of the two requests may be of the team screen; the owner is the one who must remain.
- **`MaxTime`**: `nightly` has a morning and its window; `nightly_drains` a day and a half, so
  that a lead of one day, the next morning's slot and a digest exist. **`MaxNumber`** of the
  job series leaves one number to waste. **`MaxCrashes`** 0 in `nightly`, where a run may
  also simply stay where it is, and 1 in `nightly_drains`.
- **`BatchSize`** 5 holds all that can be due at once, and 1 in `nightly_drains` does not.
- **`Window`, `MaxHits`, `MaxAccount`, `MaxAddress`** of the budgets: windows of one tick in
  `MaxTime`, so that a hit is given back in a later one; the account refuses the second attempt
  and the address the third.
- **`Defaults`** three codes of the bootstrap for two that may start at once and one to spare.
- **Thresholds of `Purchases`** are scaled: `SingleLimit` 3 and `AnnualLimit` 4 and 5 with bills of
  2 and 4, so that a bill is below, between and above; **`YearLength`** = 1, one day a year.
- **`Shown`** = 1, of the 20 undocumented issues the stock screen lists, so that one is left out.
- **`Starts`, `Dates`, `Terms`, `Cycles`, `MaxBills`**: a start on a 31st, which months run past, and
  one on 1 April; days within two periods and after the year; the term the code gives; monthly and
  per visit; one bill, the second being what the indexes refuse or take after a cancellation.
- **One desk per behaviour**: the desks share no row, so a product of them has no
  behaviour that its parts do not.
- Symmetry (requests, and ids that are interchangeable) is used in runs of invariants and of
  step properties only, never where liveness is checked.

Deadlock is checked in every run but `backoffice`, where desks with bounded tables really
come to an end (a ledger of two movements, a contract that is billed): elsewhere a request
may always start, or die.

### Fairness

Safety is checked without any. `FairSpec` of `NightlyRun` assumes

- the clock runs (`WF Tick`) and a run that was started goes on (`WF Proceed`): a request is
  served until it ends or its process dies, and processes die finitely often
  (`MaxCrashes`);
- the scheduler keeps firing (`SF CronStart`, strong since a run that is being served
  disables it again and again): an external crontab or EventBridge rule;
- the provider does not answer "later" to one message for ever (`SF SendSettles` for each):
  retryable answers are 5xx, 429 and time-outs, which end.

It does not assume that an operator does anything. `PendingSettles` is checked with a batch of one, so that `LIMIT` without `ORDER BY`
may leave a row out of a drain for as long as others are pending: it is settled all the
same, since each of the others is settled once and for all and the provider does not
put off any of them for ever.

## Proofs

Every invariant and every step property of the passing runs is a theorem, for all values of the
constants: any number of requests, rows, branches, amounts and days. The table names the theorem
and the invariant it rests on; the rest of the section says why that one is needed.

| Module | Theorem | Rests on |
|---|---|---|
| `BillingProofs` | `TypeCorrect` | `TypeOK`, with `RequestFields`: what a request holds by the statement it executes next |
| | `NumbersAlwaysUsedOnce`, `NumbersAlwaysDistinct` | `NumbersUsedOnce` |
| `DocumentProofs` | `IssuedAlwaysComplete`, `NeverOrphaned`, `NumbersAlwaysKept` | `Register` |
| | `NumbersAlwaysOfTheirYear` | `Calendar` |
| | `NeverBilledTwice` | `Register`, and `Apart` of each pair of rows |
| | `AdvancesAlwaysSpentOnce`, `AdvancesStaySpent` | `Spending` |
| | `InvoiceSeriesImplemented`, `VoucherSeriesImplemented` | `NumbersUsedOnce`, `Register`, `Spending` |
| | `DatesFollowNumbersOneAtATime` | `InOrder` |
| | `PaymentsWithinBalanceOneAtATime` | `BalancesRead` |
| | `ScreensOnlyRead`, `ShownAlwaysOwed` | `RowFollowed` |
| | `PaperAlwaysFoots`, `ExportAlwaysReady` | `NothingOvertaken`, `PaperStands`, `ReturnStands` |
| `JobsProofs` | `TypeCorrect`, `ReportsMoveOnce`, `RecordedNeverTurnedAway`, `SignedAlwaysFinished`, `JobsMoveUnlessOvertaken` | `Exactly`, `KnownIsRecorded`, `Done`, `MovesAreLegal` |
| `NightlyProofs` | `TypeCorrect`, `VisitsAlwaysOnBoardOnce`, `OutboxAlwaysTrue`, `JobSeriesImplemented` | `Outgoing`, `NumbersApart` |
| `SessionProofs` | `TypeCorrect`, `RenewalAlwaysHeldOnce`, `AlwaysOfPresentPassword`, `AlwaysOneToken`, `SignedOutForGood` | `RenewalHeldOnce` |
| `AccountsProofs` | `TypeCorrect`, `AlwaysSpentOnce`, `WithdrawnStayOut`, `ChangesAlwaysEndOthers` | `Typed`, `Spending`, `StayOut`, `Current` |
| `BackOfficeProofs` | `DesksTypeCorrect` | the type part of each desk's invariant |
| | `ControlPlaneAlwaysHolds` | `ControlPlane` (`Decided`, `OneTaken`, `PaidOnce`) |
| | `BudgetAlwaysFailures` | `Doors` (`Windows`, `Budget`) |
| | `LeadsAlwaysBecomeCustomers` | `Selling` (`SalesHeld`, `ConvertsAlone`, `MadeFromLeads`, `Remembered`, `SalesNumbered`) |
| | `NothingEverForgotten` | `Selling`, `Serving` (`ServiceHeld`, `RenewsAlone`) |
| | `BillsAlwaysSettleOnce` | `Purchasing` (`Books`) |
| | `StockAlwaysConserved` | `Stocking` (`Journeys`) |
| | `PeriodsAlwaysBillable` | `Billable` (`Signing`) |

### The arguments

- **Numbers.** Distinctness is not inductive: two requests may hold one number, or a counter may
  be behind a number that is borne. `NumbersUsedOnce` adds that no number on a row or in a request's
  hands is past its counter, that a number in hand is on no row, and that no two requests hold
  the same. The argument is the same for the three series: a draw takes a number past all of them
  (`Draw*`), the writing statement moves it from the hand to the row (`Bear*`), and every other
  action is quiet for the series (`Quiet*`). That two requests may issue one note does not hurt:
  each writes the number in its own hand. The two refinements follow: the statements are mapped
  one by one to drawing, bearing, wasting and losing a number, or to a stutter. The nightly run's job
  numbers are the same with `NumbersApart`.
- **Documents.** That an issued invoice has its lines needs `Register`: they are counted
  in one statement and the number written in a later one, and between the two nothing may have
  become of the draft but being issued. The date is checked the same way: the year a request drew
  in is that of the date it carries (`Calendar`), so 1 April may come at any moment.
- **One request at a time.** `DatesFollowNumbers`, `PaymentWithinBalance`, `PaperFoots` and
  `ExportIsReady` are false when two requests cross: dates are taken before numbers, balances
  are read before payments are inserted, and a discard that read a draft deletes the
  invoice that was issued meanwhile, from under the return. Their theorems have the hypothesis
  `OneAtATime`, that there is at most one billing request in flight, which is also how the run
  instantiates them; the screen is a second process all the same. `ShownIsOwed` needs no
  such hypothesis: what was read as paid stays paid (`RowFollowed`).
- **Jobs.** A report moves its job at most once because the request that will move it has
  recorded it, nobody else can record it again, and it has not moved anything yet (`Exactly`).
  Signing for finished work needs `Done`: who read the job as done read something that remains
  true of its history, although the job itself may have been moved back.
- **The nightly run.** `OutboxIsTrue` needs that a reminder nobody doubts is in the hands of one
  run, which read it pending (`Outgoing`): every overlap, cut-off or time-out moves the reminder to
  `doubtful` in the very step that would break this.
- **Sessions.** Of the three properties none is inductive alone. `RenewalHeldOnce` says who
  holds the right to renew a session between two statements: one live token, or one request that
  consumed it or opened the session, never both and never two (`OneHolder`); that every live
  session is of the present password (`LiveIsCurrent`); and that a sign-out past its first
  statement has revoked the session, which nothing revives (`LeavingIsRevoked`).
- **Doors and team.** A code or a token that no two requests held is in the hands of one at
  most, and of none once it bought its session (`Spending`); who was switched off has nothing live and
  is at no door (`StayOut`); whatever opens a session carries the password the sessions were last
  ended under or a later one (`Current`). The exceptions are the history variables `shared` and
  `stray`, and the proofs show that there is no other.
- **Back office.** Each desk has an invariant of its own. A lead that was not disturbed has at
  most one request converting it, and no customer until that one marks it (`ConvertsAlone`). A contract
  that was not disturbed has no lead while a request is about to insert one, and a lead that is
  not noted on it yet is in the hands of the request that inserted it (`RenewsAlone`). What a request carries to a budget of a later window
  is no hit of it (`Windows`). The totals of vendors and of stock are sums over any finite set
  of rows.
- **Sums.** `FiniteSums` proves that a sum over a finite set does not depend on the order it
  is added up in, and what adding or changing one element does. Where induction would be used
  it takes a smallest counterexample: strict inclusion is well founded on finite sets. The sums
  over places and rows of `StockConserved` are exchanged the same way.
- **The calendar.** That the periods of a contract cover it is proved from the calendar itself:
  a month has 28 days and more, every day is in a month, adding months moves on by 28 days each
  (`MonthStarts`, `DayHasMonth`, `MonthsAdded`), so the starts are in order and past the end after fourteen
  (`PeriodsFollow`), whatever day the contract starts on. The recursion that yields the starts
  has a solution because one of length n is extended to n + 1 (`PeriodStarts`).

### Assumptions on the constants

TLC evaluates them in every run. Amounts and limits that the handlers' schemas want positive are
positive, bounds are naturals, and `None` (SQL's NULL) is no value of the column it stands in.
Rows of a table are finite in number where sums or counts are taken over them (`FiniteTables`), as tables are.
A refresh token is not a code. A contract ends within the calendar of `BillingPeriods`.
Nothing is assumed of the environment but what the modules' actions say.

### Only model-checked

`PendingSettles`: liveness under fairness is out of the prover's reach, as is `ENABLED`. The three
claims are false, which TLC shows by a counterexample. No module declares a RECURSIVE operator.

## Not modelled, and why

- **Tax** (`lib/tax.ts`), table columns and totals of the return, table 9B, and the dates of
  `credit-note-window.ts`, `itc-reversal.ts`, `deduction-risk.ts`: numbers and dates that are
  shown and that no handler decides on. They are functions of one row.
- **Board, job detail, reports, invoice and job lists, SLA**: reads of one or two SELECTs that
  decide nothing.
- **Settings**: single-statement writes of the firm's own particulars.
- **Tenancy**: one tenant is modelled; the isolation is the database's row-level security.
- **Provisioning** of a firm and its modules' switches in `platform.ts`: a function of the
  database outside the repository's handlers, and single statements.
- **Entry points and scripts**: wiring; scripts are run by hand.
- Hashing, tokens' signatures, cookies, formatting, wording, audit trails that nothing reads.

## Plan

1. *(done)* Billing, jobs, tenant sessions, nightly run; types and numbers of billing proved.
2. *(done)* Sign-in and the team over one `users`; leads to renewals; purchases, stock, budgets,
   the platform; periods; screens and the return over a moving register.
3. *(done)* Every safety and step property of the runs proved.
   Left to prove: that the exceptions are as narrow as they can be, that is, what holds *until* two
   requests cross (`OneAtATime` weakened to a history of crossings, as `shared` and `disturbed` are).
4. `SignIn` and `TenantSessions` composed over one `users`: a password changed at one door leaves
   the sessions of the other.
5. Rounding of `lib/tax.ts` and the windows of the return as functions compared with a reference
   over bounded inputs.
