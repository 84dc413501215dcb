----------------------------- MODULE JobsProofs -----------------------------
(* Theorems about Jobs, for every set of requests, jobs, crews and reports.    *)
EXTENDS Jobs, TLAPS

\* What a request still holds, by the statement it executes next.
LEMMA RequestFields ==
  ASSUME TypeOK, NEW w \in Workers
  PROVE  LET r == req[w] IN
    /\ At(w, "assign_write") => r.job \in Jobs /\ r.crew \in Crews /\ r.was \in Statuses
    /\ At(w, "assign_clear") \/ At(w, "assign_helpers") => r.job \in Jobs /\ r.crew \in Crews
    /\ At(w, "reschedule_write") => r.job \in Jobs /\ r.attempt \in Nat
    /\ At(w, "sign_insert") \/ At(w, "sign_write") => r.job \in Jobs
    /\ At(w, "move_check") => /\ r.job \in Jobs /\ r.to \in Statuses /\ r.was \in Statuses
                              /\ r.report \in Reports \cup {None} /\ r.known \in BOOLEAN
    /\ At(w, "move_record") \/ At(w, "move_write") =>
         /\ r.job \in Jobs /\ r.to \in Statuses /\ r.was \in Statuses
         /\ r.report \in Reports \cup {None}
         /\ r = [pc |-> r.pc, job |-> r.job, to |-> r.to, report |-> r.report, was |-> r.was]
<1> req[w] \in Request
  BY DEF TypeOK
<1> QED
  BY DEF At, Request, Idle

\* A worker that goes to a request of the right shape leaves all of them well shaped.
LEMMA Moves ==
  ASSUME TypeOK, NEW w \in Workers, NEW r \in Request, Goto(w, r)
  PROVE  req' \in [Workers -> Request]
  BY DEF TypeOK, Goto

\* Every statement keeps the types.
LEMMA StepTypes ==
  ASSUME TypeOK, NEW w \in Workers, Step(w)
  PROVE  TypeOK'
<1>0. /\ job \in [Jobs -> JobRow] /\ helpers \in [Jobs -> SUBSET Technicians]
      /\ moved \in [Reports -> Nat] /\ Idle \in Request
  BY DEF TypeOK, Request
<1>1. CASE Create(w)
  <2>1. PICK j \in Jobs, p \in Technicians \cup {None}, s \in Statuses :
          job' = [job EXCEPT ![j].status = s, ![j].primary = p]
    BY <1>1 DEF Create, Statuses
  <2>2. job' \in [Jobs -> JobRow]
    BY <1>0, <2>1 DEF JobRow
  <2> QED
    BY <1>1, <2>2 DEF Create, TypeOK
<1>2. CASE AssignRead(w)
  <2>1. PICK j \in Jobs, crew \in Crews :
          /\ Present(j)
          /\ Goto(w, [pc |-> "assign_write", job |-> j, crew |-> crew, was |-> job[j].status])
    BY <1>2 DEF AssignRead
  <2>2. req' \in [Workers -> Request]
    BY <1>0, <2>1, Moves DEF Request, Present, JobRow
  <2> QED
    BY <1>2, <2>2 DEF AssignRead, TypeOK
<1>3. CASE AssignWrite(w)
  <2>1. req[w].job \in Jobs /\ req[w].crew \in Crews /\ req[w].was \in Statuses
    BY <1>3, RequestFields DEF AssignWrite
  <2>2. job' \in [Jobs -> JobRow]
    BY <1>0, <1>3, <2>1, JobConstants, SMTT(40) DEF AssignWrite, AssignedStatus, JobRow, Statuses
  <2>3. req' \in [Workers -> Request]
    BY <1>3, <2>1, Moves DEF AssignWrite, Request
  <2> QED
    BY <1>3, <2>2, <2>3 DEF AssignWrite, TypeOK
<1>4. CASE AssignClear(w)
  <2>1. req[w].job \in Jobs /\ req[w].crew \in Crews
    BY <1>4, RequestFields DEF AssignClear
  <2>2. helpers' \in [Jobs -> SUBSET Technicians]
    BY <1>0, <1>4 DEF AssignClear
  <2>3. req' \in [Workers -> Request]
    BY <1>0, <1>4, <2>1, Moves DEF AssignClear, Finish, Request
  <2> QED
    BY <1>4, <2>2, <2>3 DEF AssignClear, TypeOK
<1>5. CASE AssignHelpers(w)
  <2>1. req[w].job \in Jobs /\ req[w].crew.helpers \subseteq Technicians
    BY <1>5, RequestFields, JobConstants DEF AssignHelpers
  <2>2. helpers' \in [Jobs -> SUBSET Technicians]
    BY <1>0, <1>5, <2>1 DEF AssignHelpers
  <2> QED
    BY <1>0, <1>5, <2>2, Moves DEF AssignHelpers, Finish, TypeOK
<1>6. CASE RescheduleRead(w)
  <2>1. req' \in [Workers -> Request]
    BY <1>0, <1>6, Moves DEF RescheduleRead, Request, JobRow
  <2> QED
    BY <1>6, <2>1 DEF RescheduleRead, TypeOK
<1>7. CASE RescheduleWrite(w)
  <2>1. req[w].job \in Jobs /\ req[w].attempt \in Nat
    BY <1>7, RequestFields DEF RescheduleWrite
  <2>2. job' \in [Jobs -> JobRow]
    BY <1>0, <1>7, <2>1 DEF RescheduleWrite, JobRow
  <2> QED
    BY <1>0, <1>7, <2>2, Moves DEF RescheduleWrite, Finish, TypeOK
<1>8. CASE SignRead(w)
  <2>1. req' \in [Workers -> Request]
    BY <1>8, Moves DEF SignRead, Request
  <2> QED
    BY <1>8, <2>1 DEF SignRead, TypeOK
<1>9. CASE SignInsert(w)
  <2>1. req[w].job \in Jobs
    BY <1>9, RequestFields DEF SignInsert
  <2>2. req' \in [Workers -> Request]
    BY <1>0, <1>9, <2>1, Moves DEF SignInsert, Finish, Request
  <2> QED
    BY <1>9, <2>1, <2>2 DEF SignInsert, TypeOK
<1>10. CASE SignWrite(w)
  <2>1. req[w].job \in Jobs
    BY <1>10, RequestFields DEF SignWrite
  <2>2. job' \in [Jobs -> JobRow]
    BY <1>0, <1>10, <2>1 DEF SignWrite, JobRow, Statuses
  <2> QED
    BY <1>0, <1>10, <2>2, Moves DEF SignWrite, Finish, TypeOK
<1>11. ASSUME NEW j \in Jobs, NEW to \in Statuses, NEW report \in Reports \cup {None},
              MoveStart(w, j, to, report)
       PROVE  TypeOK'
  <2>1. job[j].status \in Statuses /\ (report \in recorded) \in BOOLEAN
    BY <1>0, <1>11 DEF MoveStart, Present, JobRow
  <2>2. req' \in [Workers -> Request]
    BY <1>11, <2>1, Moves DEF MoveStart, Request
  <2> QED
    BY <1>11, <2>2 DEF MoveStart, TypeOK
<1>12. CASE OfficeMoves(w)
  BY <1>11, <1>12 DEF OfficeMoves
<1>13. CASE PhoneReports(w)
  BY <1>11, <1>13, JobConstants DEF PhoneReports
<1>14. CASE MoveCheck(w)
  <2>1. /\ req[w].job \in Jobs /\ req[w].to \in Statuses /\ req[w].was \in Statuses
        /\ req[w].report \in Reports \cup {None} /\ req[w].known \in BOOLEAN
    BY <1>14, RequestFields DEF MoveCheck
  <2>2. req' \in [Workers -> Request]
    BY <1>0, <1>14, <2>1, Moves DEF MoveCheck, Finish, Request
  <2> QED
    BY <1>14, <2>2 DEF MoveCheck, TypeOK
<1>15. CASE MoveRefused(w)
  BY <1>0, <1>15, Moves DEF MoveRefused, Finish, TypeOK
<1>16. CASE MoveRecord(w)
  <2> DEFINE r == req[w]
  <2>1. /\ r.job \in Jobs /\ r.to \in Statuses /\ r.was \in Statuses /\ r.report \in Reports \cup {None}
        /\ r = [pc |-> r.pc, job |-> r.job, to |-> r.to, report |-> r.report, was |-> r.was]
    BY <1>16, RequestFields DEF MoveRecord
  <2>2. [r EXCEPT !.pc = "move_write"] =
          [pc |-> "move_write", job |-> r.job, to |-> r.to, report |-> r.report, was |-> r.was]
    BY <2>1
  <2>3. [r EXCEPT !.pc = "move_write"] \in Request
    BY <2>1, <2>2 DEF Request
  <2>4. req' \in [Workers -> Request]
    BY <1>0, <1>16, <2>3, Moves DEF MoveRecord, Finish
  <2>5. recorded' \subseteq Reports
    BY <1>16, <2>1 DEF MoveRecord, TypeOK
  <2> QED
    BY <1>16, <2>4, <2>5 DEF MoveRecord, TypeOK
<1>17. CASE MoveWrite(w)
  <2>1. req[w].job \in Jobs /\ req[w].to \in Statuses
    BY <1>17, RequestFields DEF MoveWrite
  <2>2. job' \in [Jobs -> JobRow]
    BY <1>0, <1>17, <2>1 DEF MoveWrite, JobRow
  <2>3. moved' \in [Reports -> Nat] /\ finished' \subseteq Jobs
    BY <1>0, <1>17, <2>1 DEF MoveWrite, TypeOK
  <2> QED
    BY <1>0, <1>17, <2>2, <2>3, Moves DEF MoveWrite, Finish, TypeOK
<1> QED
  BY <1>1, <1>2, <1>3, <1>4, <1>5, <1>6, <1>7, <1>8, <1>9, <1>10, <1>12, <1>13, <1>14, <1>15,
     <1>16, <1>17 DEF Step

\* Every row of the work orders and every request in flight keeps its type.
THEOREM TypeCorrect == Spec => []TypeOK
<1>1. Init => TypeOK
  BY DEF Init, TypeOK, JobRow, Request
<1>2. TypeOK /\ [Next]_vars => TypeOK'
  <2> SUFFICES ASSUME TypeOK, [Next]_vars PROVE TypeOK'
    OBVIOUS
  <2>1. ASSUME NEW w \in Workers, Step(w) PROVE TypeOK'
    BY <2>1, StepTypes
  <2>2. ASSUME NEW w \in Workers, Crash(w) PROVE TypeOK'
    BY <2>2, Moves DEF Crash, Finish, Request, TypeOK
  <2>3. CASE UNCHANGED vars
    BY <2>3 DEF vars, TypeOK
  <2> QED
    BY <2>1, <2>2, <2>3 DEF Next
<1> QED
  BY <1>1, <1>2, PTL DEF Spec
-----------------------------------------------------------------------------
(***************************************************************************)
(* Reports: the event is on the timeline before the job moves, and only the *)
(* request that put it there moves it.                                      *)
(***************************************************************************)

\* A request about to move the job for a report has recorded it, and nothing moved for it yet.
Holds(w) ==
    At(w, "move_write") /\ req[w].report # None =>
        req[w].report \in recorded /\ moved[req[w].report] = 0

Exactly ==
    /\ ReportMovesOnce
    /\ \A w \in Workers : Holds(w)
    /\ \A v, w \in Workers :
        At(v, "move_write") /\ At(w, "move_write") /\ req[v].report = req[w].report /\ req[v].report # None
            => v = w

\* A statement that neither records an event nor moves a job for one leaves that as it is.
LEMMA ReportsStay ==
  ASSUME TypeOK, Exactly, UNCHANGED <<recorded, moved>>,
         \A w \in Workers : At(w, "move_write")' => At(w, "move_write") /\ req'[w] = req[w]
  PROVE  Exactly'
  BY DEF Exactly, ReportMovesOnce, Holds, At

\* The INSERT under job_events_client_uuid_uq: one request passes, whoever else replays.
LEMMA RecordKeepsExactly ==
  ASSUME TypeOK, Exactly, NEW w \in Workers, MoveRecord(w)
  PROVE  Exactly'
<1> DEFINE r == req[w]
<1>0. /\ moved \in [Reports -> Nat] /\ req \in [Workers -> Request] /\ recorded \subseteq Reports
      /\ r.report \in Reports \cup {None} /\ None \notin Reports /\ At(w, "move_record")
      /\ UNCHANGED moved
      /\ r = [pc |-> r.pc, job |-> r.job, to |-> r.to, report |-> r.report, was |-> r.was]
  BY RequestFields, JobConstants DEF TypeOK, MoveRecord
<1>1. CASE Clashes(r.report)
  <2>1. UNCHANGED recorded /\ \A v \in Workers : At(v, "move_write")' => At(v, "move_write") /\ req'[v] = req[v]
    BY <1>0, <1>1 DEF MoveRecord, Finish, Goto, Idle, At
  <2> QED
    BY <1>0, <2>1, ReportsStay
<1>2. CASE ~Clashes(r.report)
  <2>1. /\ recorded' = recorded \cup ({r.report} \ {None})
        /\ req'[w].pc = "move_write" /\ req'[w].report = r.report
        /\ \A v \in Workers \ {w} : req'[v] = req[v]
    BY <1>0, <1>2 DEF MoveRecord, Goto
  <2>2. r.report # None => r.report \notin recorded /\ moved[r.report] = 0
    BY <1>0, <1>2 DEF Clashes, Exactly, ReportMovesOnce
  <2>3. ReportMovesOnce'
    BY <1>0, <2>1 DEF Exactly, ReportMovesOnce
  <2>4. \A v \in Workers : Holds(v)'
    BY <1>0, <2>1, <2>2 DEF Exactly, Holds, At
  <2>5. \A u, v \in Workers :
          (At(u, "move_write") /\ At(v, "move_write") /\ req[u].report = req[v].report
              /\ req[u].report # None)' => u = v
    BY <1>0, <2>1, <2>2 DEF Exactly, Holds, At
  <2> QED
    BY <2>3, <2>4, <2>5 DEF Exactly
<1> QED
  BY <1>1, <1>2

\* The UPDATE that follows, once.
LEMMA WriteKeepsExactly ==
  ASSUME TypeOK, Exactly, NEW w \in Workers, MoveWrite(w)
  PROVE  Exactly'
<1> DEFINE r == req[w]
<1>0. /\ moved \in [Reports -> Nat] /\ req \in [Workers -> Request] /\ recorded \subseteq Reports
      /\ r.report \in Reports \cup {None} /\ None \notin Reports /\ At(w, "move_write")
      /\ UNCHANGED recorded
      /\ moved' = [x \in Reports |-> IF x = r.report THEN moved[x] + 1 ELSE moved[x]]
      /\ req'[w].pc = "idle" /\ \A v \in Workers \ {w} : req'[v] = req[v]
  BY RequestFields, JobConstants DEF TypeOK, MoveWrite, Finish, Goto, Idle
<1>1. ReportMovesOnce'
  BY <1>0 DEF Exactly, ReportMovesOnce, Holds
<1>2. \A v \in Workers : Holds(v)'
  BY <1>0 DEF Exactly, Holds, At
<1> QED
  BY <1>0, <1>1, <1>2 DEF Exactly, At

\* A report moves its job once, and only after its event was recorded: POST /:id/transition,
\* replayed by the phone as often as it likes, two replays at a time included.
THEOREM ReportsMoveOnce == Spec => []ReportMovesOnce
<1>1. Init => Exactly
  BY DEF Init, Exactly, ReportMovesOnce, Holds, At, Idle
<1>2. TypeOK /\ Exactly /\ [Next]_vars => Exactly'
  <2> SUFFICES ASSUME TypeOK, Exactly, [Next]_vars PROVE Exactly'
    OBVIOUS
  <2>1. ASSUME NEW w \in Workers, Step(w), ~MoveRecord(w), ~MoveWrite(w) PROVE Exactly'
    <3>1. /\ UNCHANGED <<recorded, moved>>
          /\ \A v \in Workers : At(v, "move_write")' => At(v, "move_write") /\ req'[v] = req[v]
      BY <2>1 DEF Step, At, Goto, Finish, Idle, TypeOK, Create, AssignRead, AssignWrite, AssignClear,
         AssignHelpers, RescheduleRead, RescheduleWrite, SignRead, SignInsert, SignWrite,
         OfficeMoves, PhoneReports, MoveStart, MoveCheck, MoveRefused
    <3> QED
      BY <3>1, ReportsStay
  <2>2. ASSUME NEW w \in Workers, MoveRecord(w) \/ MoveWrite(w) PROVE Exactly'
    BY <2>2, RecordKeepsExactly, WriteKeepsExactly
  <2>3. ASSUME NEW w \in Workers, Crash(w) PROVE Exactly'
    <3>1. \A v \in Workers : At(v, "move_write")' => At(v, "move_write") /\ req'[v] = req[v]
      BY <2>3 DEF Crash, At, Goto, Finish, Idle, TypeOK
    <3> QED
      BY <2>3, <3>1, ReportsStay DEF Crash
  <2>4. CASE UNCHANGED vars
    BY <2>4, ReportsStay DEF vars, At
  <2> QED
    BY <2>1, <2>2, <2>3, <2>4 DEF Next
<1>3. Exactly => ReportMovesOnce
  BY DEF Exactly
<1> QED
  BY <1>1, <1>2, <1>3, TypeCorrect, PTL DEF Spec
-----------------------------------------------------------------------------
\* What the request knew to be recorded still is: nothing removes an event.
KnownIsRecorded ==
    \A w \in Workers : At(w, "move_check") /\ req[w].known => req[w].report \in recorded

\* A phone that replays a report the server has is never told 409: the replay is looked for
\* before the table of moves is, and on the timeline as it is then.
THEOREM RecordedNeverTurnedAway == Spec => []RecordedNeverRefused
<1> USE DEF KnownIsRecorded, RecordedNeverRefused
<1>1. Init => KnownIsRecorded /\ RecordedNeverRefused
  BY DEF Init, At, Idle
<1>2. TypeOK /\ KnownIsRecorded /\ RecordedNeverRefused /\ [Next]_vars
        => KnownIsRecorded' /\ RecordedNeverRefused'
  <2> SUFFICES ASSUME TypeOK, KnownIsRecorded, RecordedNeverRefused, [Next]_vars
               PROVE  KnownIsRecorded' /\ RecordedNeverRefused'
    OBVIOUS
  <2>0. req \in [Workers -> Request]
    BY DEF TypeOK
  <2>1. ASSUME NEW w \in Workers, NEW j, NEW to, NEW report, MoveStart(w, j, to, report)
        PROVE  KnownIsRecorded' /\ RecordedNeverRefused'
    BY <2>0, <2>1 DEF MoveStart, Goto, At
  <2>2. ASSUME NEW w \in Workers, MoveCheck(w)
        PROVE  KnownIsRecorded' /\ RecordedNeverRefused'
    <3>1. At(w, "move_check") /\ UNCHANGED recorded /\ \A v \in Workers \ {w} : req'[v] = req[v]
      BY <2>0, <2>2 DEF MoveCheck, Goto, Finish
    <3>2. CASE Refused(req[w])
      <4>1. req'[w] = [pc |-> "move_refused", known |-> req[w].known] /\ ~Seen(req[w].report)
        BY <2>0, <2>2, <3>2 DEF MoveCheck, Goto, Refused
      <4>2. req[w].known \in BOOLEAN /\ (req[w].known => req[w].report \in recorded)
        BY <3>1, RequestFields
      <4> QED
        BY <3>1, <4>1, <4>2 DEF At, Seen
    <3>3. CASE ~Refused(req[w])
      <4>1. req'[w].pc \notin {"move_check", "move_refused"}
        BY <2>0, <2>2, <3>3 DEF MoveCheck, Goto, Finish, Idle
      <4> QED
        BY <3>1, <4>1 DEF At
    <3> QED
      BY <3>2, <3>3
  <2>3. ASSUME NEW w \in Workers, Step(w) \/ Crash(w), ~MoveCheck(w), ~OfficeMoves(w), ~PhoneReports(w)
        PROVE  KnownIsRecorded' /\ RecordedNeverRefused'
    <3>1. recorded \subseteq recorded'
      BY <2>3 DEF Step, Crash, Create, AssignRead, AssignWrite, AssignClear, AssignHelpers,
         RescheduleRead, RescheduleWrite, SignRead, SignInsert, SignWrite, MoveRefused, MoveRecord, MoveWrite
    <3>2. \A v \in Workers \ {w} : req'[v] = req[v]
      BY <2>0, <2>3 DEF Step, Crash, Goto, Finish, Create, AssignRead, AssignWrite, AssignClear,
         AssignHelpers, RescheduleRead, RescheduleWrite, SignRead, SignInsert, SignWrite,
         MoveRefused, MoveRecord, MoveWrite
    <3>3. req'[w].pc \notin {"move_check", "move_refused"} \/ UNCHANGED req
      <4>1. CASE MoveRecord(w)
        <5>1. req[w] = [pc |-> req[w].pc, job |-> req[w].job, to |-> req[w].to,
                        report |-> req[w].report, was |-> req[w].was]
          BY <4>1, RequestFields DEF MoveRecord
        <5> QED
          BY <2>0, <4>1, <5>1 DEF MoveRecord, Goto, Finish, Idle
      <4>2. CASE ~MoveRecord(w)
        BY <2>0, <2>3, <4>2 DEF Step, Crash, Goto, Finish, Idle, Create, AssignRead, AssignWrite,
           AssignClear, AssignHelpers, RescheduleRead, RescheduleWrite, SignRead, SignInsert,
           SignWrite, MoveRefused, MoveWrite
      <4> QED
        BY <4>1, <4>2
    <3> QED
      BY <3>1, <3>2, <3>3 DEF At
  <2>4. CASE UNCHANGED vars
    BY <2>4 DEF vars, At
  <2> QED
    BY <2>1, <2>2, <2>3, <2>4 DEF Next, Step, OfficeMoves, PhoneReports
<1> QED
  BY <1>1, <1>2, TypeCorrect, PTL DEF Spec
-----------------------------------------------------------------------------
(***************************************************************************)
(* The table of moves.                                                      *)
(***************************************************************************)

\* A job that is WORK_DONE was moved there, and so was one that a request read as done, to
\* sign for it or to write the status back.
Worked(w) ==
    /\ At(w, "assign_write") /\ req[w].was = "WORK_DONE" => req[w].job \in finished
    /\ At(w, "sign_insert") => req[w].job \in finished

Done ==
    /\ SignedWasFinished
    /\ \A j \in Jobs : job[j].status = "WORK_DONE" => j \in finished
    /\ \A w \in Workers : Worked(w)

\* Every statement keeps that.
LEMMA StepDone ==
  ASSUME TypeOK, Done, NEW w \in Workers, Step(w)
  PROVE  Done'
<1> USE DEF Done, SignedWasFinished, Worked, At, Goto, Finish, Idle
<1>0. job \in [Jobs -> JobRow] /\ req \in [Workers -> Request]
  BY DEF TypeOK
<1>1. CASE Create(w)
  <2>1. PICK j \in Jobs, p \in Technicians \cup {None}, s \in {"ASSIGNED", "CREATED"} :
          job' = [job EXCEPT ![j].status = s, ![j].primary = p]
    BY <1>1 DEF Create
  <2>2. job'[j].status = s /\ \A k \in Jobs \ {j} : job'[k] = job[k]
    BY <1>0, <2>1 DEF JobRow
  <2> QED
    BY <1>1, <2>2 DEF Create
<1>2. CASE AssignRead(w)
  BY <1>0, <1>2 DEF AssignRead
<1>3. CASE AssignWrite(w)
  <2>1. req[w].job \in Jobs
    BY <1>3, RequestFields DEF AssignWrite
  <2>2. job'[req[w].job].status = AssignedStatus(req[w]) /\ \A k \in Jobs \ {req[w].job} : job'[k] = job[k]
    BY <1>0, <1>3, <2>1 DEF AssignWrite, JobRow
  <2> QED
    BY <1>0, <1>3, <2>2 DEF AssignWrite, AssignedStatus
<1>4. CASE AssignClear(w)
  BY <1>0, <1>4 DEF AssignClear
<1>5. CASE AssignHelpers(w)
  BY <1>0, <1>5 DEF AssignHelpers
<1>6. CASE RescheduleRead(w)
  BY <1>0, <1>6 DEF RescheduleRead
<1>7. CASE RescheduleWrite(w)
  <2>1. \A k \in Jobs : job'[k].status = job[k].status
    BY <1>0, <1>7 DEF RescheduleWrite, JobRow
  <2> QED
    BY <1>0, <1>7, <2>1 DEF RescheduleWrite
<1>8. CASE SignRead(w)
  BY <1>0, <1>8 DEF SignRead, Signable
<1>9. CASE SignInsert(w)
  BY <1>0, <1>9 DEF SignInsert
<1>10. CASE SignWrite(w)
  <2>1. \A k \in Jobs : job'[k].status \in {job[k].status, "SIGNED_OFF"}
    BY <1>0, <1>10 DEF SignWrite, JobRow
  <2> QED
    BY <1>0, <1>10, <2>1 DEF SignWrite
<1>11. CASE OfficeMoves(w)
  BY <1>0, <1>11 DEF OfficeMoves, MoveStart
<1>12. CASE PhoneReports(w)
  BY <1>0, <1>12 DEF PhoneReports, MoveStart
<1>13. CASE MoveCheck(w)
  BY <1>0, <1>13 DEF MoveCheck
<1>14. CASE MoveRefused(w)
  BY <1>0, <1>14 DEF MoveRefused
<1>15. CASE MoveRecord(w)
  <2>1. req[w] = [pc |-> req[w].pc, job |-> req[w].job, to |-> req[w].to,
                  report |-> req[w].report, was |-> req[w].was]
    BY <1>15, RequestFields DEF MoveRecord
  <2>2. req'[w].pc \in {"idle", "move_write"} /\ \A v \in Workers \ {w} : req'[v] = req[v]
    BY <1>0, <1>15, <2>1 DEF MoveRecord
  <2> QED
    BY <1>15, <2>2 DEF MoveRecord
<1>16. CASE MoveWrite(w)
  <2>1. req[w].job \in Jobs
    BY <1>16, RequestFields DEF MoveWrite
  <2>2. job'[req[w].job].status = req[w].to /\ \A k \in Jobs \ {req[w].job} : job'[k] = job[k]
    BY <1>0, <1>16, <2>1 DEF MoveWrite, JobRow
  <2> QED
    BY <1>0, <1>16, <2>2 DEF MoveWrite
<1> QED
  BY <1>1, <1>2, <1>3, <1>4, <1>5, <1>6, <1>7, <1>8, <1>9, <1>10, <1>11, <1>12, <1>13, <1>14,
     <1>15, <1>16 DEF Step

\* Nobody signs for work that was not reported finished, although the INSERT of sign_offs
\* comes after the status was read, and an assignment may write back a status it read before.
THEOREM SignedAlwaysFinished == Spec => []SignedWasFinished
<1>1. Init => Done
  BY DEF Init, Done, SignedWasFinished, Worked, At, Idle
<1>2. TypeOK /\ Done /\ [Next]_vars => Done'
  <2> SUFFICES ASSUME TypeOK, Done, [Next]_vars PROVE Done'
    OBVIOUS
  <2>1. ASSUME NEW w \in Workers, Step(w) PROVE Done'
    BY <2>1, StepDone
  <2>2. ASSUME NEW w \in Workers, Crash(w) PROVE Done'
    BY <2>2 DEF Crash, Done, SignedWasFinished, Worked, At, Goto, Finish, Idle, TypeOK
  <2>3. CASE UNCHANGED vars
    BY <2>3 DEF vars, Done, SignedWasFinished, Worked, At
  <2> QED
    BY <2>1, <2>2, <2>3 DEF Next
<1>3. Done => SignedWasFinished
  BY DEF Done
<1> QED
  BY <1>1, <1>2, <1>3, TypeCorrect, PTL DEF Spec

\* What a request is about to record or write, the table of moves allows from what it read.
Legal(w) == At(w, "move_record") \/ At(w, "move_write") => req[w].to \in NEXT[req[w].was]

MovesAreLegal == \A w \in Workers : Legal(w)

\* The table is consulted once, before the event is recorded, and what was read is kept.
LEMMA LegalKept == Spec => []MovesAreLegal
<1>1. Init => MovesAreLegal
  BY DEF Init, MovesAreLegal, Legal, At, Idle
<1>2. TypeOK /\ MovesAreLegal /\ [Next]_vars => MovesAreLegal'
  <2> SUFFICES ASSUME TypeOK, MovesAreLegal, [Next]_vars PROVE MovesAreLegal'
    OBVIOUS
  <2> USE DEF MovesAreLegal, Legal
  <2>0. req \in [Workers -> Request]
    BY DEF TypeOK
  <2>1. ASSUME NEW w \in Workers, MoveCheck(w) PROVE MovesAreLegal'
    <3>1. \A v \in Workers \ {w} : req'[v] = req[v]
      BY <2>0, <2>1 DEF MoveCheck, Goto, Finish
    <3>2. CASE Refused(req[w]) \/ Seen(req[w].report)
      <4>1. req'[w].pc \notin {"move_record", "move_write"}
        BY <2>0, <2>1, <3>2 DEF MoveCheck, Goto, Finish, Idle
      <4> QED
        BY <3>1, <4>1 DEF At
    <3>3. CASE ~Refused(req[w]) /\ ~Seen(req[w].report)
      <4>1. req'[w] = [pc |-> "move_record", job |-> req[w].job, to |-> req[w].to,
                       report |-> req[w].report, was |-> req[w].was]
        BY <2>0, <2>1, <3>3 DEF MoveCheck, Goto
      <4>2. req[w].to \in NEXT[req[w].was]
        BY <3>3 DEF Refused
      <4> QED
        BY <3>1, <4>1, <4>2 DEF At
    <3> QED
      BY <3>2, <3>3
  <2>2. ASSUME NEW w \in Workers, MoveRecord(w) PROVE MovesAreLegal'
    <3>1. /\ req[w] = [pc |-> req[w].pc, job |-> req[w].job, to |-> req[w].to,
                       report |-> req[w].report, was |-> req[w].was]
          /\ At(w, "move_record")
      BY <2>2, RequestFields DEF MoveRecord
    <3>2. CASE req'[w].pc = "idle"
      BY <2>0, <2>2, <3>2 DEF MoveRecord, Goto, Finish, At
    <3>3. CASE req'[w] = [req[w] EXCEPT !.pc = "move_write"]
      <4>1. req'[w].to = req[w].to /\ req'[w].was = req[w].was
        BY <3>1, <3>3
      <4>2. \A v \in Workers \ {w} : req'[v] = req[v]
        BY <2>0, <2>2 DEF MoveRecord, Goto, Finish
      <4> QED
        BY <3>1, <4>1, <4>2 DEF At
    <3> QED
      BY <2>0, <2>2, <3>2, <3>3 DEF MoveRecord, Goto, Finish, Idle
  <2>3. ASSUME NEW w \in Workers, Step(w) \/ Crash(w), ~MoveCheck(w), ~MoveRecord(w)
        PROVE  MovesAreLegal'
    <3>1. \A v \in Workers : (At(v, "move_record") \/ At(v, "move_write"))' => req'[v] = req[v]
      BY <2>0, <2>3 DEF Step, Crash, At, Goto, Finish, Idle, Create, AssignRead, AssignWrite, AssignClear,
         AssignHelpers, RescheduleRead, RescheduleWrite, SignRead, SignInsert, SignWrite,
         OfficeMoves, PhoneReports, MoveStart, MoveRefused, MoveWrite
    <3> QED
      BY <3>1 DEF At
  <2>4. CASE UNCHANGED vars
    BY <2>4 DEF vars, At
  <2> QED
    BY <2>1, <2>2, <2>3, <2>4 DEF Next
<1> QED
  BY <1>1, <1>2, TypeCorrect, PTL DEF Spec

\* One statement on one job that is there, by a request nothing overtook, moves it along the
\* table and counts at most one attempt.
LEMMA StepMoves ==
  ASSUME TypeOK, MovesAreLegal, NEW w \in Workers, Step(w), ~Overtaken(w),
         NEW j \in Jobs, Present(j)
  PROVE  /\ job'[j].status \in NEXT[job[j].status] \cup {job[j].status}
         /\ job'[j].attempt \in {job[j].attempt, job[j].attempt + 1}
<1>0. job \in [Jobs -> JobRow]
  BY DEF TypeOK
<1>1. CASE Create(w)
  BY <1>0, <1>1 DEF Create, JobRow
<1>2. CASE AssignWrite(w)
  <2>1. req[w].job \in Jobs /\ req[w].was = job[req[w].job].status
    BY <1>2, RequestFields DEF AssignWrite, Overtaken
  <2>2. AssignedStatus(req[w]) \in NEXT[req[w].was] \cup {req[w].was}
    BY DEF AssignedStatus, NEXT
  <2>3. /\ job'[req[w].job].status = AssignedStatus(req[w])
        /\ job'[req[w].job].attempt = job[req[w].job].attempt
        /\ \A k \in Jobs \ {req[w].job} : job'[k] = job[k]
    BY <1>0, <1>2, <2>1 DEF AssignWrite, JobRow
  <2> QED
    BY <2>1, <2>2, <2>3
<1>3. CASE RescheduleWrite(w)
  <2>1. req[w].job \in Jobs /\ req[w].attempt = job[req[w].job].attempt
    BY <1>3, RequestFields DEF RescheduleWrite, Overtaken
  <2> QED
    BY <1>0, <1>3, <2>1 DEF RescheduleWrite, JobRow
<1>4. CASE SignWrite(w)
  <2>1. req[w].job \in Jobs /\ job[req[w].job].status = "WORK_DONE"
    BY <1>4, RequestFields DEF SignWrite, Overtaken, Signable
  <2>2. "SIGNED_OFF" \in NEXT["WORK_DONE"]
    BY DEF NEXT
  <2> QED
    BY <1>0, <1>4, <2>1, <2>2 DEF SignWrite, JobRow
<1>5. CASE MoveWrite(w)
  <2>1. /\ req[w].job \in Jobs /\ req[w].was = job[req[w].job].status
        /\ req[w].to \in NEXT[req[w].was]
    BY <1>5, RequestFields DEF MoveWrite, Overtaken, MovesAreLegal, Legal
  <2> QED
    BY <1>0, <1>5, <2>1 DEF MoveWrite, JobRow
<1>6. CASE UNCHANGED job
  BY <1>6
<1> QED
  BY <1>1, <1>2, <1>3, <1>4, <1>5, <1>6 DEF Step, AssignRead, AssignClear, AssignHelpers,
     RescheduleRead, SignRead, SignInsert, OfficeMoves, PhoneReports, MoveStart, MoveCheck,
     MoveRefused, MoveRecord

\* Whoever was overtaken and wrote has left the statement it was at.
LEMMA OvertakenLeaves ==
  ASSUME TypeOK, NEW w \in Workers, Step(w), Overtaken(w), job' # job
  PROVE  req'[w] # req[w]
<1>1. /\ req \in [Workers -> Request]
      /\ req[w].pc \in {"assign_write", "move_write", "reschedule_write", "sign_write"}
  BY DEF TypeOK, Overtaken, At
<1>2. req'[w].pc \in {"assign_clear", "idle"}
  BY <1>1 DEF Step, At, Goto, Finish, Idle, Create, AssignRead, AssignWrite, AssignClear,
     AssignHelpers, RescheduleRead, RescheduleWrite, SignRead, SignInsert, SignWrite, OfficeMoves,
     PhoneReports, MoveStart, MoveCheck, MoveRefused, MoveRecord, MoveWrite
<1> QED
  BY <1>1, <1>2

\* A job moves along NEXT and counts its attempts one by one, except where a request writes
\* what another overtook: the UPDATEs that name the id alone go wrong in no other way.
THEOREM JobsMoveUnlessOvertaken == Spec => MovesUnlessOvertaken
<1>1. TypeOK /\ MovesAreLegal /\ [Next]_vars =>
        [\A j \in Jobs : Present(j) /\ job'[j] # job[j] =>
            \/ \E w \in Workers : Overtaken(w) /\ req'[w] # req[w]
            \/ /\ job'[j].status \in NEXT[job[j].status] \cup {job[j].status}
               /\ job'[j].attempt \in {job[j].attempt, job[j].attempt + 1}]_vars
  <2> SUFFICES ASSUME TypeOK, MovesAreLegal, Next, NEW j \in Jobs, Present(j), job'[j] # job[j]
               PROVE  \/ \E w \in Workers : Overtaken(w) /\ req'[w] # req[w]
                      \/ /\ job'[j].status \in NEXT[job[j].status] \cup {job[j].status}
                         /\ job'[j].attempt \in {job[j].attempt, job[j].attempt + 1}
    OBVIOUS
  <2>1. PICK w \in Workers : Step(w)
    BY DEF Next, Crash
  <2>2. CASE Overtaken(w)
    BY <2>1, <2>2, OvertakenLeaves
  <2>3. CASE ~Overtaken(w)
    BY <2>1, <2>3, StepMoves
  <2> QED
    BY <2>2, <2>3
<1> QED
  BY <1>1, TypeCorrect, LegalKept, PTL DEF Spec, MovesUnlessOvertaken
=============================================================================
