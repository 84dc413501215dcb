----------------------------- MODULE NightlyRun -----------------------------
(***************************************************************************)
(* The daily run of one firm: put the visits of its contract on the board,  *)
(* raise reminders about the jobs that are due, send what is pending.  It   *)
(* is fired by a scheduler and by an operator, and a contract's visits also *)
(* by a button; nothing keeps two of them apart.  One action is one SQL     *)
(* statement or one call of the message provider.                          *)
(*                                                                         *)
(* Left out: who a reminder is for and by which channel (a Reminder stands  *)
(* for one dedupe key), its wording, and attempts and last_error, which     *)
(* nothing decides on.                                                     *)
(***************************************************************************)
EXTENDS Naturals, FiniteSets, FiniteSetsExt

CONSTANTS
    Workers,      \* requests served at the same time
    Visits,       \* visit keys of the contract's schedule
    DayOf,        \* DayOf[v]: the day visit v is planned for
    Term,         \* the days the contract is live
    Horizon,      \* visits are placed this many days ahead: 90
    Leads,        \* reminders go out this many days ahead: 7 and 1
    BatchSize,    \* rows one drain reads: 200
    Production,   \* NODE_ENV = production
    MaxTime,      \* bound: the last period of the clock
    MaxNumber,    \* bound: the last job number given out
    MaxCrashes,   \* bound: how often a run dies between two statements
    None

ASSUME NightlyConstants ==
    /\ DayOf \in [Visits -> Nat]
    /\ Term \subseteq Nat /\ Leads \subseteq Nat
    /\ {Horizon, BatchSize, MaxTime, MaxNumber, MaxCrashes} \subseteq Nat
    /\ Production \in BOOLEAN
    /\ None \notin [year : {0}, seq : Nat]

VARIABLES
    job,        \* the jobs of the visits: how many rows, number, date, whether gone
    counter,    \* last_issued of the job series
    outbox,     \* table reminders: state, and the period it may go out
    accepted,   \* how often the provider accepted each: none, once, or more (2)
    doubtful,   \* reminders whose sending was overlapped, interrupted or timed out
    now,        \* the clock: three periods a day
    crashes,
    req

vars == <<job, counter, outbox, accepted, doubtful, now, crashes, req>>

Board == <<job, counter>>
Outbox == <<outbox, accepted, doubtful>>
Clock == <<now, crashes>>
-----------------------------------------------------------------------------
\* A day is before nine, the window 09:00-19:00, and after.
Day(t) == t \div 3
Days == 0 .. Day(MaxTime)

\* In the window now; before it this morning; after it tomorrow morning.
SendableAt(t) ==
    CASE t % 3 = 1 -> t
      [] t % 3 = 0 -> t + 1
      [] OTHER -> t + 2

\* Dedupe keys: of a job and a lead, or of the digest of a day, where no job is.
Reminders ==
    [visit : Visits, lead : Leads] \cup [digest : {d + 1 : d \in Days}]

JobRow == [rows : Nat, number : [year : {0}, seq : Nat] \cup {None}, date : Nat,
           gone : BOOLEAN]

ReminderRow == [state : {"ABSENT", "pending", "sent", "failed"}, scheduledFor : Nat]

Idle == [pc |-> "idle"]

Request ==
    {Idle}
    \cup [pc : {"visit_draw"}, todo : SUBSET Visits, day : Days \cup {None}]
    \cup [pc : {"visit_insert"}, todo : SUBSET Visits, day : Days \cup {None},
          visit : Visits, seq : Nat]
    \cup [pc : {"plan"}, day : Days]
    \cup [pc : {"enqueue"}, planned : SUBSET Reminders]
    \cup [pc : {"drain_read"}]
    \cup [pc : {"drain_send"}, batch : SUBSET Reminders]
    \cup [pc : {"drain_mark"}, batch : SUBSET Reminders, reminder : Reminders,
          answer : {"sent", "pending", "failed"}]

At(w, pc) == req[w].pc = pc

Goto(w, r) == req' = [req EXCEPT ![w] = r]

Finish(w) == Goto(w, Idle)

Init ==
    /\ job = [v \in Visits |-> [rows |-> 0, number |-> None, date |-> 0, gone |-> FALSE]]
    /\ counter = 0
    /\ outbox = [k \in Reminders |-> [state |-> "ABSENT", scheduledFor |-> 0]]
    /\ accepted = [k \in Reminders |-> 0]
    /\ doubtful = {}
    /\ now = 0
    /\ crashes = 0
    /\ req = [w \in Workers |-> Idle]

OnBoard(v) == job[v].rows > 0
-----------------------------------------------------------------------------
(* generateVisitsFor: a request with a day is the run of that day and goes   *)
(* on to the reminders, one without is the contract's button.               *)

\* visitSchedule: midnight of the visit is between now and the horizon.
Planned == {v \in Visits : DayOf[v] > Day(now) /\ DayOf[v] <= Day(now) + Horizon}

AfterVisits(day) == IF day = None THEN Idle ELSE [pc |-> "plan", day |-> day]

VisitsLeft(todo, day) ==
    IF todo = {} THEN AfterVisits(day)
    ELSE [pc |-> "visit_draw", todo |-> todo, day |-> day]

Untaken == {v \in Planned : ~OnBoard(v)}

\* The visit keys there are, read once for the whole loop.
VisitsRead(w, day) ==
    /\ req[w] = Idle
    /\ Goto(w, VisitsLeft(IF day = None \/ day \in Term THEN Untaken ELSE {}, day))
    /\ UNCHANGED <<Board, Outbox, Clock>>

\* sendersFrom: its stand-in for WhatsApp refuses to be built in production.
SendersFrom == ~Production

\* POST /cron/daily builds the senders before it does anything for any firm.
CronStart(w) == SendersFrom /\ VisitsRead(w, Day(now))

\* POST /reminders/run, of the day the operator asks for.
OperatorStart(w) == \E day \in Days : VisitsRead(w, day)

\* POST /contracts/:id/generate-visits.
ButtonStart(w) == VisitsRead(w, None)

\* Mutant: the next number is one more than the jobs there are.
CountRows == 1 + Cardinality({v \in Visits : OnBoard(v)})

NextInSeries == counter + 1

VisitDraw(w) ==
    /\ At(w, "visit_draw")
    /\ counter < MaxNumber
    /\ LET r == req[w]
       IN  \E v \in r.todo :
            /\ \A u \in r.todo : DayOf[v] <= DayOf[u]
            /\ Goto(w, [pc |-> "visit_insert", todo |-> r.todo \ {v}, day |-> r.day,
                        visit |-> v, seq |-> NextInSeries])
    /\ counter' = counter + 1
    /\ UNCHANGED <<job, Outbox, Clock>>

\* Mutant: no unique constraint on (tenant, visit_key).
NeverTaken(v) == FALSE

\* jobs_tenant_visitkey_uq.
KeyTaken(v) == OnBoard(v)

\* The constraint throws, and with it goes the rest of this firm's run.
VisitInsert(w) ==
    /\ At(w, "visit_insert")
    /\ LET r == req[w]
       IN  IF KeyTaken(r.visit)
           THEN Finish(w) /\ UNCHANGED job
           ELSE /\ job' = [job EXCEPT ![r.visit] =
                        [rows |-> @.rows + 1, number |-> [year |-> 0, seq |-> r.seq],
                         date |-> DayOf[r.visit], gone |-> FALSE]]
                /\ Goto(w, VisitsLeft(r.todo, r.day))
    /\ UNCHANGED <<counter, Outbox, Clock>>
-----------------------------------------------------------------------------
(* enqueueReminders                                                         *)

\* A visit that is neither cancelled nor done.
Wanted(v) == OnBoard(v) /\ ~job[v].gone

\* planReminders: each job that is a lead away, and a digest if any is tomorrow.
PlanReminders(day) ==
    {k \in [visit : Visits, lead : Leads] :
        Wanted(k.visit) /\ job[k.visit].date = day + k.lead}
    \cup {k \in [digest : {day + 1}] :
            \E v \in Visits : Wanted(v) /\ job[v].date = day + 1}

AfterEnqueue == IF SendersFrom THEN [pc |-> "drain_read"] ELSE Idle

Plan(w) ==
    /\ At(w, "plan")
    /\ LET planned == PlanReminders(req[w].day)
       IN  Goto(w, IF planned = {} THEN AfterEnqueue
                   ELSE [pc |-> "enqueue", planned |-> planned])
    /\ UNCHANGED <<Board, Outbox, Clock>>

\* Mutant: ON CONFLICT DO UPDATE, which raises the reminder again.
RaisedAgain(k) == FALSE

\* reminders_dedupe_uq.
Raised(k) == outbox[k].state # "ABSENT"

\* One INSERT ... ON CONFLICT DO NOTHING.
Enqueue(w) ==
    /\ At(w, "enqueue")
    /\ outbox' = [k \in Reminders |->
            IF k \in req[w].planned /\ ~Raised(k)
            THEN [state |-> "pending", scheduledFor |-> SendableAt(now)]
            ELSE outbox[k]]
    /\ Goto(w, AfterEnqueue)
    /\ UNCHANGED <<Board, accepted, doubtful, Clock>>
-----------------------------------------------------------------------------
(* drainReminders                                                           *)

\* Mutant: what was scheduled for an earlier period is not looked at again.
DueNow == {k \in Reminders : outbox[k].state = "pending" /\ outbox[k].scheduledFor = now}

Due == {k \in Reminders : outbox[k].state = "pending" /\ outbox[k].scheduledFor <= now}

\* LIMIT, and no ORDER BY: which rows are left out is up to the database.
BatchesOf(due) ==
    {b \in SUBSET due : Cardinality(b) = Min({BatchSize, Cardinality(due)})}

SendNext(batch) == IF batch = {} THEN Idle ELSE [pc |-> "drain_send", batch |-> batch]

\* The reminders request w has read and will write.
Holding(w) ==
    CASE At(w, "drain_send") -> req[w].batch
      [] At(w, "drain_mark") -> req[w].batch \cup {req[w].reminder}
      [] OTHER -> {}

DrainRead(w) ==
    /\ At(w, "drain_read")
    /\ \E batch \in BatchesOf(Due) :
        /\ Goto(w, SendNext(batch))
        /\ doubtful' = doubtful \cup (batch \cap UNION {Holding(v) : v \in Workers})
    /\ UNCHANGED <<Board, outbox, accepted, Clock>>

Accept(k) == accepted' = [accepted EXCEPT ![k] = IF @ < 2 THEN @ + 1 ELSE @]

Answered(w, k, answer) ==
    Goto(w, [pc |-> "drain_mark", batch |-> req[w].batch \ {k}, reminder |-> k,
             answer |-> answer])

\* The provider takes the message, or refuses it for good.
SendSettles(w, k) ==
    /\ At(w, "drain_send")
    /\ k \in req[w].batch
    /\ \/ Accept(k) /\ Answered(w, k, "sent")
       \/ UNCHANGED accepted /\ Answered(w, k, "failed")
    /\ UNCHANGED <<Board, outbox, doubtful, Clock>>

\* It is unreachable or busy; or it took the message and the answer timed out.
SendRetryable(w, k) ==
    /\ At(w, "drain_send")
    /\ k \in req[w].batch
    /\ \/ UNCHANGED <<accepted, doubtful>>
       \/ Accept(k) /\ doubtful' = doubtful \cup {k}
    /\ Answered(w, k, "pending")
    /\ UNCHANGED <<Board, outbox, Clock>>

StateAfter(r) == r.answer

\* UPDATE ... WHERE id = ...: whatever the row has become meanwhile.
DrainMark(w) ==
    /\ At(w, "drain_mark")
    /\ outbox' = [outbox EXCEPT ![req[w].reminder].state = StateAfter(req[w])]
    /\ Goto(w, SendNext(req[w].batch))
    /\ UNCHANGED <<Board, accepted, doubtful, Clock>>
-----------------------------------------------------------------------------
(* What happens to the jobs meanwhile, and to the process.                  *)

\* POST /jobs/:id/transition, to a status that wants no reminder any more.
JobGone ==
    /\ \E v \in Visits : Wanted(v) /\ job' = [job EXCEPT ![v].gone = TRUE]
    /\ UNCHANGED <<counter, Outbox, Clock, req>>

\* POST /jobs/:id/reschedule
Reschedule ==
    /\ \E v \in Visits, d \in Days : OnBoard(v) /\ job' = [job EXCEPT ![v].date = d]
    /\ UNCHANGED <<counter, Outbox, Clock, req>>

Tick ==
    /\ now < MaxTime
    /\ now' = now + 1
    /\ UNCHANGED <<Board, Outbox, crashes, req>>

Crash(w) ==
    /\ req[w] # Idle
    /\ crashes < MaxCrashes
    /\ crashes' = crashes + 1
    /\ doubtful' = IF At(w, "drain_mark") THEN doubtful \cup {req[w].reminder} ELSE doubtful
    /\ Finish(w)
    /\ UNCHANGED <<Board, outbox, accepted, now>>

\* A run that was started goes on.
Proceed(w) ==
    \/ VisitDraw(w) \/ VisitInsert(w)
    \/ Plan(w) \/ Enqueue(w)
    \/ DrainRead(w) \/ DrainMark(w)
    \/ \E k \in Reminders : SendSettles(w, k) \/ SendRetryable(w, k)

Next ==
    \/ Tick \/ JobGone \/ Reschedule
    \/ \E w \in Workers :
        \/ CronStart(w) \/ OperatorStart(w) \/ ButtonStart(w)
        \/ Proceed(w) \/ Crash(w)

Spec == Init /\ [][Next]_vars

(***************************************************************************)
(* The clock runs, a run that was started goes on, the scheduler keeps      *)
(* firing, and the provider does not answer "later" for ever.               *)
(***************************************************************************)
FairSpec ==
    /\ Spec
    /\ WF_vars(Tick)
    /\ \A w \in Workers : WF_vars(Proceed(w))
    /\ SF_vars(\E w \in Workers : CronStart(w))
    /\ \A k \in Reminders : SF_vars(\E w \in Workers : SendSettles(w, k))
-----------------------------------------------------------------------------
TypeOK ==
    /\ job \in [Visits -> JobRow]
    /\ counter \in Nat
    /\ outbox \in [Reminders -> ReminderRow]
    /\ accepted \in [Reminders -> 0 .. 2]
    /\ doubtful \subseteq Reminders
    /\ now \in 0 .. MaxTime
    /\ crashes \in 0 .. MaxCrashes
    /\ req \in [Workers -> Request]

\* A visit is put on the board once, however many runs and buttons overlap, although
\* each looks for the visits there are once and inserts them one by one after.
VisitOnBoardOnce == \A v \in Visits : job[v].rows <= 1

\* Request w has sent k, was told so, and has yet to write it.
Unwritten(k) ==
    \E w \in Workers : At(w, "drain_mark") /\ req[w].reminder = k /\ req[w].answer = "sent"

\* A reminder that no second drain read meanwhile, no crash interrupted and no time-out
\* left open reaches its recipient once if the outbox says sent, and not otherwise; and what
\* it says was sent was accepted by the provider even where one of these happened.
OutboxIsTrue ==
    /\ \A k \in Reminders \ doubtful :
        accepted[k] = IF outbox[k].state = "sent" \/ Unwritten(k) THEN 1 ELSE 0
    /\ \A k \in Reminders :
        outbox[k].state = "sent" \/ Unwritten(k) => accepted[k] > 0

\* A pending reminder is eventually sent or put in front of a person.
PendingSettles ==
    \A k \in Reminders : outbox[k].state = "pending" ~> outbox[k].state # "pending"

JobSeries == INSTANCE NumberSeries WITH
    Documents <- Visits,
    Years <- {0},
    last <- [y \in {0} |-> counter],
    drawn <- {[year |-> 0, seq |-> req[w].seq] : w \in {v \in Workers : At(v, "visit_insert")}},
    bearer <- [v \in Visits |-> job[v].number]

\* A job number drawn for a visit is borne by that visit's job or wasted, never used by
\* two, although runs overlap between the draw and the insert.
JobSeriesSpec == JobSeries!Spec
=============================================================================
