-------------------------------- MODULE Jobs --------------------------------
(***************************************************************************)
(* Work orders: POST /jobs, and assign, reschedule, sign-off and transition *)
(* of one that exists.  As in Ledger, one action is one SQL statement, and  *)
(* a request may die between any two.  Each handler reads the whole row     *)
(* first (was) and decides on that copy; the UPDATEs name the id alone.     *)
(*                                                                         *)
(* A technician's phone queues what he did while offline and replays it     *)
(* until it is answered: a report carries the same clientUuid each time.    *)
(* An event with no clientUuid constrains nothing and has no step.          *)
(***************************************************************************)
EXTENDS Naturals, FiniteSets

CONSTANTS
    Workers,      \* requests the server handles at the same time
    Jobs,         \* ids of rows of jobs
    Technicians,
    Crews,        \* who may be assigned: see CrewsAreTechnicians
    Reports,      \* what the phones have queued: the job, where it moved, a key
    MaxAttempt,   \* bound: the highest visit_attempt read by a reschedule
    None          \* SQL NULL, or a request that carries no clientUuid

Statuses ==
    {"CREATED", "ASSIGNED", "EN_ROUTE", "ON_SITE", "WORK_DONE", "PARTS_AWAITED",
     "CUSTOMER_UNAVAILABLE", "SIGNED_OFF", "CANCELLED"}

ASSUME JobConstants ==
    /\ Crews \subseteq [primary : Technicians \cup {None}, helpers : SUBSET Technicians]
    /\ Reports \subseteq [job : Jobs, to : Statuses \ {"CREATED"}, key : Nat]
    /\ MaxAttempt \in Nat
    /\ None \notin Technicians \cup Reports

VARIABLES
    job,        \* table jobs
    helpers,    \* table job_helpers
    signed,     \* table sign_offs: the jobs it has a row for
    recorded,   \* table job_events: the reports it has a row for
    moved,      \* how many UPDATEs each report has caused
    finished,   \* the jobs that have been WORK_DONE
    req         \* the requests in flight

vars == <<job, helpers, signed, recorded, moved, finished, req>>
-----------------------------------------------------------------------------
NEXT ==
    [CREATED              |-> {"ASSIGNED", "CANCELLED"},
     ASSIGNED             |-> {"EN_ROUTE", "CUSTOMER_UNAVAILABLE", "CANCELLED"},
     EN_ROUTE             |-> {"ON_SITE", "CUSTOMER_UNAVAILABLE"},
     ON_SITE              |-> {"WORK_DONE", "PARTS_AWAITED", "CUSTOMER_UNAVAILABLE"},
     PARTS_AWAITED        |-> {"ASSIGNED", "ON_SITE", "CANCELLED"},
     CUSTOMER_UNAVAILABLE |-> {"ASSIGNED", "CANCELLED"},
     WORK_DONE            |-> {"SIGNED_OFF"},
     SIGNED_OFF           |-> {},
     CANCELLED            |-> {}]

JobRow ==
    [status  : Statuses \cup {"ABSENT"},
     primary : Technicians \cup {None},
     attempt : Nat]

Present(j) == job[j].status # "ABSENT"

Idle == [pc |-> "idle"]

Request ==
    {Idle}
    \cup [pc : {"assign_write"}, job : Jobs, crew : Crews, was : Statuses]
    \cup [pc : {"assign_clear", "assign_helpers"}, job : Jobs, crew : Crews]
    \cup [pc : {"reschedule_write"}, job : Jobs, attempt : Nat]
    \cup [pc : {"sign_insert", "sign_write"}, job : Jobs]
    \cup [pc : {"move_check"}, job : Jobs, to : Statuses, report : Reports \cup {None},
          was : Statuses, known : BOOLEAN]
    \cup [pc : {"move_refused"}, known : BOOLEAN]
    \cup [pc : {"move_record", "move_write"}, job : Jobs, to : Statuses,
          report : Reports \cup {None}, was : Statuses]

At(w, pc) == req[w].pc = pc

Goto(w, r) == req' = [req EXCEPT ![w] = r]

Finish(w) == Goto(w, Idle)

Init ==
    /\ job = [j \in Jobs |-> [status |-> "ABSENT", primary |-> None, attempt |-> 1]]
    /\ helpers = [j \in Jobs |-> {}]
    /\ signed = {}
    /\ recorded = {}
    /\ moved = [r \in Reports |-> 0]
    /\ finished = {}
    /\ req = [w \in Workers |-> Idle]
-----------------------------------------------------------------------------
\* POST /: the job is assigned from the start if somebody was named.
Create(w) ==
    /\ req[w] = Idle
    /\ \E j \in Jobs, p \in Technicians \cup {None} :
        /\ ~Present(j)
        /\ job' = [job EXCEPT ![j].status = IF p # None THEN "ASSIGNED" ELSE "CREATED",
                              ![j].primary = p]
    /\ UNCHANGED <<helpers, signed, recorded, moved, finished, req>>
-----------------------------------------------------------------------------
(* POST /:id/assign                                                         *)

AssignRead(w) ==
    /\ req[w] = Idle
    /\ \E j \in Jobs, crew \in Crews :
        /\ Present(j)
        /\ Goto(w, [pc |-> "assign_write", job |-> j, crew |-> crew, was |-> job[j].status])
    /\ UNCHANGED <<job, helpers, signed, recorded, moved, finished>>

\* Mutant: assigning starts the job again, whatever it was doing.
AlwaysAssigned(r) == "ASSIGNED"

\* "Assigning does not un-start a job": the status read is written back.
AssignedStatus(r) ==
    IF r.was = "CREATED" /\ r.crew.primary # None THEN "ASSIGNED" ELSE r.was

AssignWrite(w) ==
    /\ At(w, "assign_write")
    /\ LET r == req[w]
       IN  /\ job' = [job EXCEPT ![r.job].primary = r.crew.primary,
                                 ![r.job].status = AssignedStatus(r)]
           /\ Goto(w, [pc |-> "assign_clear", job |-> r.job, crew |-> r.crew])
    /\ UNCHANGED <<helpers, signed, recorded, moved, finished>>

AssignClear(w) ==
    /\ At(w, "assign_clear")
    /\ LET r == req[w]
       IN  /\ helpers' = [helpers EXCEPT ![r.job] = {}]
           /\ IF r.crew.helpers = {}
              THEN Finish(w)
              ELSE Goto(w, [pc |-> "assign_helpers", job |-> r.job, crew |-> r.crew])
    /\ UNCHANGED <<job, signed, recorded, moved, finished>>

\* One INSERT of them all: the primary key refuses it if any is there already.
AssignHelpers(w) ==
    /\ At(w, "assign_helpers")
    /\ LET r == req[w]
       IN  helpers' = IF helpers[r.job] \cap r.crew.helpers = {}
                      THEN [helpers EXCEPT ![r.job] = @ \cup r.crew.helpers]
                      ELSE helpers
    /\ Finish(w)
    /\ UNCHANGED <<job, signed, recorded, moved, finished>>
-----------------------------------------------------------------------------
(* POST /:id/reschedule: the date and the slot, and one more attempt.       *)

RescheduleRead(w) ==
    /\ req[w] = Idle
    /\ \E j \in Jobs :
        /\ Present(j)
        /\ job[j].attempt <= MaxAttempt
        /\ Goto(w, [pc |-> "reschedule_write", job |-> j, attempt |-> job[j].attempt])
    /\ UNCHANGED <<job, helpers, signed, recorded, moved, finished>>

RescheduleWrite(w) ==
    /\ At(w, "reschedule_write")
    /\ job' = [job EXCEPT ![req[w].job].attempt = req[w].attempt + 1]
    /\ Finish(w)
    /\ UNCHANGED <<helpers, signed, recorded, moved, finished>>
-----------------------------------------------------------------------------
(* POST /:id/sign-off                                                       *)

\* Mutant: any job can be signed for.
SignableAnyhow(j) == Present(j)

Signable(j) == job[j].status = "WORK_DONE"

SignRead(w) ==
    /\ req[w] = Idle
    /\ \E j \in Jobs :
        /\ Signable(j)
        /\ Goto(w, [pc |-> "sign_insert", job |-> j])
    /\ UNCHANGED <<job, helpers, signed, recorded, moved, finished>>

\* The job is the primary key of sign_offs: a second signature fails.
SignInsert(w) ==
    /\ At(w, "sign_insert")
    /\ signed' = signed \cup {req[w].job}
    /\ IF req[w].job \in signed
       THEN Finish(w)
       ELSE Goto(w, [pc |-> "sign_write", job |-> req[w].job])
    /\ UNCHANGED <<job, helpers, recorded, moved, finished>>

SignWrite(w) ==
    /\ At(w, "sign_write")
    /\ job' = [job EXCEPT ![req[w].job].status = "SIGNED_OFF"]
    /\ Finish(w)
    /\ UNCHANGED <<helpers, signed, recorded, moved, finished>>
-----------------------------------------------------------------------------
(* POST /:id/transition                                                     *)

\* The office moves any job, a technician those he is the primary of.  Known: whether
\* the report was already recorded when this request came.
MoveStart(w, j, to, report) ==
    /\ req[w] = Idle
    /\ Present(j)
    /\ Goto(w, [pc |-> "move_check", job |-> j, to |-> to, report |-> report,
                was |-> job[j].status, known |-> report \in recorded])
    /\ UNCHANGED <<job, helpers, signed, recorded, moved, finished>>

OfficeMoves(w) ==
    \E j \in Jobs, to \in Statuses \ {"CREATED"} : MoveStart(w, j, to, None)

PhoneReports(w) ==
    \E r \in Reports : job[r.job].primary # None /\ MoveStart(w, r.job, r.to, r)

Seen(report) == report \in recorded

\* Mutant: the table is consulted before the replay.
RefusedUnseen(r) == r.to \notin NEXT[r.was]

Refused(r) == ~Seen(r.report) /\ r.to \notin NEXT[r.was]

\* The replay check, and then the table, on the status read before it.
MoveCheck(w) ==
    /\ At(w, "move_check")
    /\ LET r == req[w]
       IN  IF Refused(r) THEN Goto(w, [pc |-> "move_refused", known |-> r.known])
           ELSE IF Seen(r.report) THEN Finish(w)
           ELSE Goto(w, [pc |-> "move_record", job |-> r.job, to |-> r.to,
                         report |-> r.report, was |-> r.was])
    /\ UNCHANGED <<job, helpers, signed, recorded, moved, finished>>

\* 409: the phone keeps the report and tries again.
MoveRefused(w) ==
    /\ At(w, "move_refused")
    /\ Finish(w)
    /\ UNCHANGED <<job, helpers, signed, recorded, moved, finished>>

\* Mutant: no unique constraint on (tenant, client_uuid).
NeverClashes(report) == FALSE

\* job_events_client_uuid_uq.
Clashes(report) == report \in recorded

\* The event is inserted before the job moves; the loser of a race is answered "replayed".
MoveRecord(w) ==
    /\ At(w, "move_record")
    /\ LET r == req[w]
       IN  IF Clashes(r.report)
           THEN Finish(w) /\ UNCHANGED recorded
           ELSE /\ recorded' = recorded \cup ({r.report} \ {None})
                /\ Goto(w, [r EXCEPT !.pc = "move_write"])
    /\ UNCHANGED <<job, helpers, signed, moved, finished>>

MoveWrite(w) ==
    /\ At(w, "move_write")
    /\ LET r == req[w]
       IN  /\ job' = [job EXCEPT ![r.job].status = r.to]
           /\ moved' = [x \in Reports |-> IF x = r.report THEN moved[x] + 1 ELSE moved[x]]
           /\ finished' = IF r.to = "WORK_DONE" THEN finished \cup {r.job} ELSE finished
    /\ Finish(w)
    /\ UNCHANGED <<helpers, signed, recorded>>
-----------------------------------------------------------------------------
Crash(w) ==
    /\ req[w] # Idle
    /\ Finish(w)
    /\ UNCHANGED <<job, helpers, signed, recorded, moved, finished>>

Step(w) ==
    \/ Create(w)
    \/ AssignRead(w) \/ AssignWrite(w) \/ AssignClear(w) \/ AssignHelpers(w)
    \/ RescheduleRead(w) \/ RescheduleWrite(w)
    \/ SignRead(w) \/ SignInsert(w) \/ SignWrite(w)
    \/ OfficeMoves(w) \/ PhoneReports(w)
    \/ MoveCheck(w) \/ MoveRefused(w) \/ MoveRecord(w) \/ MoveWrite(w)

Next == \E w \in Workers : Step(w) \/ Crash(w)

Spec == Init /\ [][Next]_vars
-----------------------------------------------------------------------------
TypeOK ==
    /\ job \in [Jobs -> JobRow]
    /\ helpers \in [Jobs -> SUBSET Technicians]
    /\ signed \subseteq Jobs
    /\ recorded \subseteq Reports
    /\ moved \in [Reports -> Nat]
    /\ finished \subseteq Jobs
    /\ req \in [Workers -> Request]

\* A report moves its job at most once, however often the phone replays it, two replays
\* at a time included, and only after it is on the timeline.
ReportMovesOnce == \A r \in Reports : moved[r] <= IF r \in recorded THEN 1 ELSE 0

\* A phone that replays a report the server has already recorded is never told the move
\* is illegal, although the job has moved on: it would keep the report for ever.
RecordedNeverRefused == \A w \in Workers : At(w, "move_refused") => ~req[w].known

\* Nobody signs for work that was never reported finished.
SignedWasFinished == signed \subseteq finished

\* What request w read of the job it is about to write is no longer so.
Overtaken(w) ==
    \/ At(w, "assign_write") /\ req[w].was # job[req[w].job].status
    \/ At(w, "move_write") /\ req[w].was # job[req[w].job].status
    \/ At(w, "reschedule_write") /\ req[w].attempt # job[req[w].job].attempt
    \/ At(w, "sign_write") /\ ~Signable(req[w].job)

\* A job moves along NEXT and each reschedule counts one attempt, unless the request
\* that wrote was overtaken by another between its read and its write.
MovesUnlessOvertaken ==
    [][\A j \in Jobs : Present(j) /\ job'[j] # job[j] =>
        \/ \E w \in Workers : Overtaken(w) /\ req'[w] # req[w]
        \/ /\ job'[j].status \in NEXT[job[j].status] \cup {job[j].status}
           /\ job'[j].attempt \in {job[j].attempt, job[j].attempt + 1}]_vars
=============================================================================
