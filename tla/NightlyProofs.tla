--------------------------- MODULE NightlyProofs ---------------------------
(* Theorems about NightlyRun, for every set of requests, visits and days.      *)
EXTENDS NightlyRun, TLAPS

-----------------------------------------------------------------------------
(***************************************************************************)
(* Types.                                                                   *)
(***************************************************************************)

\* The days of the clock are days.
LEMMA DayTypes ==
  ASSUME NEW t \in 0 .. MaxTime
  PROVE  Day(t) \in Days /\ Day(t) \in Nat
  BY NightlyConstants DEF Day, Days

\* A reminder of a day is a reminder.
LEMMA PlannedTypes ==
  ASSUME NEW day \in Days
  PROVE  PlanReminders(day) \subseteq Reminders
  BY DEF PlanReminders, Reminders

\* A batch is some of what is due.
LEMMA BatchTypes ==
  ASSUME NEW due, NEW b \in BatchesOf(due)
  PROVE  b \subseteq due
  BY DEF BatchesOf

\* What a request still holds, by the statement it executes next.
LEMMA RequestFields ==
  ASSUME TypeOK, NEW w \in Workers
  PROVE  LET r == req[w] IN
    /\ At(w, "visit_draw") \/ At(w, "visit_insert") =>
         r.todo \subseteq Visits /\ r.day \in Days \cup {None}
    /\ At(w, "visit_insert") => r.visit \in Visits /\ r.seq \in Nat
    /\ At(w, "plan") => r.day \in Days
    /\ At(w, "enqueue") => r.planned \subseteq Reminders
    /\ At(w, "drain_send") \/ At(w, "drain_mark") => r.batch \subseteq Reminders
    /\ At(w, "drain_mark") => r.reminder \in Reminders /\ r.answer \in {"sent", "pending", "failed"}
<1> req[w] \in Request
  BY DEF TypeOK
<1> QED
  BY DEF At, Request, Idle

\* A worker that goes to a request of the right shape leaves all of them well shaped.
LEMMA Moves ==
  ASSUME TypeOK, NEW w \in Workers, NEW r \in Request, Goto(w, r)
  PROVE  req' \in [Workers -> Request]
  BY DEF TypeOK, Goto

\* Where a loop goes on to is a request.
LEMMA Continuations ==
  /\ Idle \in Request /\ AfterEnqueue \in Request
  /\ \A todo \in SUBSET Visits, day \in Days \cup {None} : VisitsLeft(todo, day) \in Request
  /\ \A batch \in SUBSET Reminders : SendNext(batch) \in Request
  BY DEF Request, AfterEnqueue, VisitsLeft, AfterVisits, SendNext

\* Every statement keeps the types.
LEMMA StepTypes ==
  ASSUME TypeOK, NEW w \in Workers,
         CronStart(w) \/ OperatorStart(w) \/ ButtonStart(w) \/ Proceed(w) \/ Crash(w)
  PROVE  TypeOK'
<1>0. /\ job \in [Visits -> JobRow] /\ counter \in Nat /\ outbox \in [Reminders -> ReminderRow]
      /\ accepted \in [Reminders -> 0 .. 2] /\ doubtful \subseteq Reminders
      /\ now \in 0 .. MaxTime /\ crashes \in 0 .. MaxCrashes /\ MaxCrashes \in Nat
      /\ req \in [Workers -> Request]
  BY NightlyConstants DEF TypeOK
<1>1. ASSUME NEW day \in Days \cup {None}, VisitsRead(w, day) PROVE TypeOK'
  <2>1. Untaken \subseteq Visits
    BY DEF Untaken, Planned
  <2>2. req' \in [Workers -> Request]
    BY <1>1, <2>1, Continuations, Moves DEF VisitsRead
  <2> QED
    BY <1>1, <2>2 DEF VisitsRead, TypeOK, Board, Outbox, Clock
<1>2. CASE CronStart(w)
  BY <1>0, <1>1, <1>2, DayTypes DEF CronStart
<1>3. CASE OperatorStart(w)
  BY <1>1, <1>3 DEF OperatorStart
<1>4. CASE ButtonStart(w)
  BY <1>1, <1>4 DEF ButtonStart
<1>5. CASE VisitDraw(w)
  <2>1. req[w].todo \subseteq Visits /\ req[w].day \in Days \cup {None} /\ counter + 1 \in Nat
    BY <1>0, <1>5, RequestFields DEF VisitDraw
  <2>2. PICK v \in req[w].todo :
          Goto(w, [pc |-> "visit_insert", todo |-> req[w].todo \ {v}, day |-> req[w].day,
                   visit |-> v, seq |-> NextInSeries])
    BY <1>5 DEF VisitDraw
  <2>3. req' \in [Workers -> Request]
    BY <2>1, <2>2, Moves DEF Request, NextInSeries
  <2> QED
    BY <1>5, <2>1, <2>3 DEF VisitDraw, TypeOK, Outbox, Clock
<1>6. CASE VisitInsert(w)
  <2>1. /\ req[w].todo \subseteq Visits /\ req[w].day \in Days \cup {None}
        /\ req[w].visit \in Visits /\ req[w].seq \in Nat
    BY <1>6, RequestFields DEF VisitInsert
  <2>2. \A n \in Nat : [rows |-> n + 1, number |-> [year |-> 0, seq |-> req[w].seq],
                        date |-> DayOf[req[w].visit], gone |-> FALSE] \in JobRow
    BY <2>1, NightlyConstants DEF JobRow
  <2>3. job[req[w].visit].rows \in Nat
    BY <1>0, <2>1 DEF JobRow
  <2>4. job' \in [Visits -> JobRow]
    BY <1>0, <1>6, <2>1, <2>2, <2>3 DEF VisitInsert
  <2>5. req' \in [Workers -> Request]
    BY <1>6, <2>1, Continuations, Moves DEF VisitInsert, Finish
  <2> QED
    BY <1>6, <2>4, <2>5 DEF VisitInsert, TypeOK, Outbox, Clock
<1>7. CASE Plan(w)
  <2>1. PlanReminders(req[w].day) \subseteq Reminders
    BY <1>7, RequestFields, PlannedTypes DEF Plan
  <2>2. [pc |-> "enqueue", planned |-> PlanReminders(req[w].day)] \in Request
    BY <2>1 DEF Request
  <2>3. req' \in [Workers -> Request]
    BY <1>7, <2>2, Continuations, Moves DEF Plan
  <2> QED
    BY <1>7, <2>3 DEF Plan, TypeOK, Board, Outbox, Clock
<1>8. CASE Enqueue(w)
  <2>1. SendableAt(now) \in Nat
    BY <1>0, NightlyConstants DEF SendableAt
  <2>2. outbox' \in [Reminders -> ReminderRow]
    BY <1>0, <1>8, <2>1 DEF Enqueue, ReminderRow
  <2>3. req' \in [Workers -> Request]
    BY <1>8, Continuations, Moves DEF Enqueue
  <2> QED
    BY <1>8, <2>2, <2>3 DEF Enqueue, TypeOK, Board, Clock
<1>9. CASE DrainRead(w)
  <2>1. PICK batch \in BatchesOf(Due) :
          /\ Goto(w, SendNext(batch))
          /\ doubtful' = doubtful \cup (batch \cap UNION {Holding(v) : v \in Workers})
    BY <1>9 DEF DrainRead
  <2>2. batch \subseteq Reminders
    BY BatchTypes DEF Due
  <2>3. req' \in [Workers -> Request]
    BY <2>1, <2>2, Continuations, Moves
  <2> QED
    BY <1>0, <1>9, <2>1, <2>2, <2>3 DEF DrainRead, TypeOK, Board, Clock
<1>10. CASE DrainMark(w)
  <2>1. /\ req[w].batch \subseteq Reminders /\ req[w].reminder \in Reminders
        /\ req[w].answer \in {"sent", "pending", "failed"}
    BY <1>10, RequestFields DEF DrainMark
  <2>2. outbox' \in [Reminders -> ReminderRow]
    BY <1>0, <1>10, <2>1 DEF DrainMark, StateAfter, ReminderRow
  <2>3. req' \in [Workers -> Request]
    BY <1>10, <2>1, Continuations, Moves DEF DrainMark
  <2> QED
    BY <1>10, <2>2, <2>3 DEF DrainMark, TypeOK, Board, Clock
<1>11. ASSUME NEW k \in Reminders, SendSettles(w, k) \/ SendRetryable(w, k) PROVE TypeOK'
  <2>1. req[w].batch \subseteq Reminders
    BY <1>11, RequestFields DEF SendSettles, SendRetryable
  <2>2. \A answer \in {"sent", "pending", "failed"} :
          [pc |-> "drain_mark", batch |-> req[w].batch \ {k}, reminder |-> k, answer |-> answer]
            \in Request
    BY <2>1 DEF Request
  <2>3. req' \in [Workers -> Request]
    BY <1>11, <2>2, Moves DEF SendSettles, SendRetryable, Answered
  <2>4. accepted' \in [Reminders -> 0 .. 2]
    BY <1>0, <1>11 DEF SendSettles, SendRetryable, Accept
  <2> QED
    BY <1>0, <1>11, <2>3, <2>4 DEF SendSettles, SendRetryable, TypeOK, Board, Clock
<1>12. CASE Crash(w)
  <2>1. doubtful' \subseteq Reminders
    BY <1>0, <1>12, RequestFields DEF Crash
  <2>2. req' \in [Workers -> Request]
    BY <1>12, Continuations, Moves DEF Crash, Finish
  <2> QED
    BY <1>0, <1>12, <2>1, <2>2 DEF Crash, TypeOK, Board
<1> QED
  BY <1>2, <1>3, <1>4, <1>5, <1>6, <1>7, <1>8, <1>9, <1>10, <1>11, <1>12 DEF Proceed

\* Every row, counter and request of the daily run keeps its type.
THEOREM TypeCorrect == Spec => []TypeOK
<1>1. Init => TypeOK
  <2> SUFFICES ASSUME Init PROVE TypeOK
    OBVIOUS
  <2> QED
    BY NightlyConstants, Continuations DEF Init, TypeOK, JobRow, ReminderRow
<1>2. TypeOK /\ [Next]_vars => TypeOK'
  <2> SUFFICES ASSUME TypeOK, [Next]_vars PROVE TypeOK'
    OBVIOUS
  <2>1. CASE Tick
    BY <2>1, NightlyConstants DEF Tick, TypeOK, Board, Outbox
  <2>2. CASE JobGone
    <3>1. job' \in [Visits -> JobRow]
      BY <2>2 DEF JobGone, TypeOK, JobRow
    <3> QED
      BY <2>2, <3>1 DEF JobGone, TypeOK, Outbox, Clock
  <2>3. CASE Reschedule
    <3>1. Days \subseteq Nat
      BY DEF Days
    <3>2. job' \in [Visits -> JobRow]
      BY <2>3, <3>1 DEF Reschedule, TypeOK, JobRow
    <3> QED
      BY <2>3, <3>2 DEF Reschedule, TypeOK, Outbox, Clock
  <2>4. CASE UNCHANGED vars
    BY <2>4 DEF vars, TypeOK
  <2> QED
    BY <2>1, <2>2, <2>3, <2>4, StepTypes DEF Next
<1> QED
  BY <1>1, <1>2, PTL DEF Spec
-----------------------------------------------------------------------------
(***************************************************************************)
(* The board.                                                               *)
(***************************************************************************)

\* A visit is put on the board once: the runs and buttons that overlap all read a board
\* without it, and the unique key lets one of their inserts through.
THEOREM VisitsAlwaysOnBoardOnce == Spec => []VisitOnBoardOnce
<1>1. Init => VisitOnBoardOnce
  BY DEF Init, VisitOnBoardOnce
<1>2. TypeOK /\ VisitOnBoardOnce /\ [Next]_vars => VisitOnBoardOnce'
  <2> SUFFICES ASSUME TypeOK, VisitOnBoardOnce, [Next]_vars PROVE VisitOnBoardOnce'
    OBVIOUS
  <2>0. job \in [Visits -> JobRow]
    BY DEF TypeOK
  <2>1. ASSUME NEW w \in Workers, VisitInsert(w) PROVE VisitOnBoardOnce'
    <3>1. req[w].visit \in Visits
      BY <2>1, RequestFields DEF VisitInsert
    <3> QED
      BY <2>0, <2>1, <3>1 DEF VisitInsert, KeyTaken, OnBoard, VisitOnBoardOnce, JobRow
  <2>2. CASE JobGone \/ Reschedule
    <3>1. \A v \in Visits : job'[v].rows = job[v].rows
      BY <2>0, <2>2 DEF JobGone, Reschedule, JobRow
    <3> QED
      BY <3>1 DEF VisitOnBoardOnce
  <2>3. CASE UNCHANGED job
    BY <2>3 DEF VisitOnBoardOnce
  <2>4. ASSUME NEW w \in Workers,
               \/ CronStart(w) \/ OperatorStart(w) \/ ButtonStart(w)
               \/ Proceed(w) \/ Crash(w),
               ~VisitInsert(w)
        PROVE  UNCHANGED job
    BY <2>4 DEF CronStart, OperatorStart, ButtonStart, VisitsRead, Proceed, VisitDraw, Plan,
       Enqueue, DrainRead, DrainMark, SendSettles, SendRetryable, Crash, Board
  <2> QED
    BY <2>1, <2>2, <2>3, <2>4 DEF Next, Tick, Board, vars
<1> QED
  BY <1>1, <1>2, TypeCorrect, PTL DEF Spec
-----------------------------------------------------------------------------
(***************************************************************************)
(* The outbox.                                                              *)
(***************************************************************************)

\* A reminder nobody has doubts about is held by one run at most, which read it pending; and
\* the one a run has just sent is not among those it still has to send.
Held ==
    /\ \A k \in Reminders \ doubtful, w \in Workers :
        k \in Holding(w) =>
            /\ outbox[k].state = "pending"
            /\ \A v \in Workers : k \in Holding(v) => v = w
    /\ \A w \in Workers : At(w, "drain_mark") => req[w].reminder \notin req[w].batch

Outgoing == Held /\ OutboxIsTrue

\* What a worker that sends nothing moves to holds nothing and has sent nothing.
LEMMA OutsideTheDrain ==
  ASSUME TypeOK, Outgoing, NEW w \in Workers, NEW r,
         Goto(w, r), r.pc \notin {"drain_send", "drain_mark"},
         ~At(w, "drain_mark"), UNCHANGED <<outbox, accepted, doubtful>>
  PROVE  Outgoing'
  BY DEF TypeOK, Outgoing, Held, OutboxIsTrue, Holding, Unwritten, At, Goto

\* The first message of a batch, or the next.
LEMMA DrainReadKept ==
  ASSUME TypeOK, Outgoing, NEW w \in Workers, DrainRead(w)
  PROVE  Outgoing'
<1>0. req \in [Workers -> Request]
  BY DEF TypeOK
<1>1. PICK batch \in BatchesOf(Due) :
        /\ Goto(w, SendNext(batch))
        /\ doubtful' = doubtful \cup (batch \cap UNION {Holding(v) : v \in Workers})
  BY DEF DrainRead
<1>2. batch \subseteq Reminders /\ \A k \in batch : outbox[k].state = "pending"
  BY BatchTypes DEF Due
<1>3. req'[w] = SendNext(batch) /\ \A v \in Workers \ {w} : req'[v] = req[v]
  BY <1>0, <1>1 DEF Goto
<1>4. Holding(w)' = batch /\ \A v \in Workers \ {w} : Holding(v)' = Holding(v)
  BY <1>3 DEF Holding, At, SendNext, Idle
<1>5. ~At(w, "drain_mark") /\ ~At(w, "drain_mark")' /\ UNCHANGED <<outbox, accepted>>
  BY <1>3 DEF DrainRead, At, SendNext, Idle
<1>6. \A k : Unwritten(k)' <=> Unwritten(k)
  BY <1>3, <1>5 DEF Unwritten, At
<1>7. Held'
  <2>1. ASSUME NEW k \in Reminders \ doubtful', NEW v \in Workers, k \in Holding(v)'
        PROVE  outbox'[k].state = "pending" /\ \A u \in Workers : k \in Holding(u)' => u = v
    BY <1>1, <1>2, <1>4, <1>5, <2>1 DEF Outgoing, Held
  <2>2. \A v \in Workers : At(v, "drain_mark")' => req'[v].reminder \notin req'[v].batch
    BY <1>3, <1>5 DEF Outgoing, Held, At
  <2> QED
    BY <2>1, <2>2 DEF Held
<1> QED
  BY <1>1, <1>5, <1>6, <1>7 DEF Outgoing, OutboxIsTrue

\* What request w has in hand of a reminder without doubts has not been accepted yet.
LEMMA InBatchUnsent ==
  ASSUME TypeOK, Outgoing, NEW w \in Workers, NEW k \in Reminders \ doubtful,
         At(w, "drain_send") \/ At(w, "drain_mark"), k \in req[w].batch
  PROVE  accepted[k] = 0 /\ ~Unwritten(k)
<1>1. k \in Holding(w)
  BY DEF Holding, At
<1>2. ~Unwritten(k)
  BY <1>1 DEF Outgoing, Held, Holding, Unwritten, At
<1> QED
  BY <1>1, <1>2 DEF Outgoing, Held, OutboxIsTrue

\* A call of the provider, whatever comes of it.
LEMMA SendKept ==
  ASSUME TypeOK, Outgoing, NEW w \in Workers, NEW k \in Reminders,
         SendSettles(w, k) \/ SendRetryable(w, k)
  PROVE  Outgoing'
<1>0. req \in [Workers -> Request] /\ accepted \in [Reminders -> 0 .. 2]
  BY DEF TypeOK
<1>1. PICK answer \in {"sent", "pending", "failed"} :
        /\ Answered(w, k, answer)
        /\ \/ answer = "sent" /\ Accept(k) /\ UNCHANGED doubtful
           \/ answer # "sent" /\ UNCHANGED <<accepted, doubtful>>
           \/ answer # "sent" /\ Accept(k) /\ doubtful' = doubtful \cup {k}
  BY DEF SendSettles, SendRetryable, Outbox
<1>2. /\ At(w, "drain_send") /\ k \in req[w].batch /\ UNCHANGED outbox
  BY DEF SendSettles, SendRetryable
<1>3. /\ req'[w] = [pc |-> "drain_mark", batch |-> req[w].batch \ {k}, reminder |-> k,
                    answer |-> answer]
      /\ \A v \in Workers \ {w} : req'[v] = req[v]
  BY <1>0, <1>1 DEF Answered, Goto
<1>4. \A v \in Workers : Holding(v)' = Holding(v)
  <2>1. Holding(w) = req[w].batch
    BY <1>2 DEF Holding, At
  <2>2. Holding(w)' = (req[w].batch \ {k}) \cup {k}
    BY <1>3 DEF Holding, At
  <2>3. \A v \in Workers \ {w} : Holding(v)' = Holding(v)
    BY <1>3 DEF Holding, At
  <2> QED
    BY <1>2, <2>1, <2>2, <2>3
<1>5. /\ doubtful \subseteq doubtful'
      /\ \A j \in Reminders \ {k} : accepted'[j] = accepted[j]
      /\ accepted'[k] >= accepted[k]
  BY <1>0, <1>1 DEF Accept
<1>6. Held'
  <2>1. \A v \in Workers : At(v, "drain_mark")' => req'[v].reminder \notin req'[v].batch
    BY <1>3 DEF Outgoing, Held, At
  <2> QED
    BY <1>2, <1>4, <1>5, <2>1 DEF Outgoing, Held
<1>7. \A j \in Reminders \ {k} : Unwritten(j)' <=> Unwritten(j)
  BY <1>2, <1>3 DEF Unwritten, At
<1>8. (answer = "sent" => Unwritten(k)') /\ (answer # "sent" => (Unwritten(k)' <=> Unwritten(k)))
  BY <1>2, <1>3 DEF Unwritten, At
<1>9. OutboxIsTrue'
  <2>1. ASSUME NEW j \in Reminders
        PROVE  /\ j \notin doubtful' =>
                    accepted'[j] = IF outbox'[j].state = "sent" \/ Unwritten(j)' THEN 1 ELSE 0
               /\ outbox'[j].state = "sent" \/ Unwritten(j)' => accepted'[j] > 0
    <3>1. CASE j # k
      BY <1>2, <1>5, <1>7, <3>1 DEF Outgoing, OutboxIsTrue
    <3>2. CASE j = k
      <4>1. k \notin doubtful => accepted[k] = 0
        BY <1>2, InBatchUnsent
      <4>2. outbox[k].state = "sent" \/ Unwritten(k) => accepted[k] > 0
        BY DEF Outgoing, OutboxIsTrue
      <4>3. Accept(k) => accepted'[k] > 0 /\ (accepted[k] = 0 => accepted'[k] = 1)
        BY <1>0 DEF Accept
      <4>4. k \notin doubtful => outbox[k].state # "sent" /\ ~Unwritten(k)
        BY <1>2, InBatchUnsent, <4>2 
      <4> QED
        BY <1>0, <1>1, <1>2, <1>5, <1>8, <3>2, <4>1, <4>2, <4>3, <4>4
    <3> QED
      BY <3>1, <3>2
  <2> QED
    BY <2>1 DEF OutboxIsTrue
<1> QED
  BY <1>6, <1>9 DEF Outgoing

\* What became of it is written.
LEMMA DrainMarkKept ==
  ASSUME TypeOK, Outgoing, NEW w \in Workers, DrainMark(w)
  PROVE  Outgoing'
<1>k. PICK k \in Reminders : k = req[w].reminder
  BY RequestFields DEF DrainMark
<1>0. /\ req \in [Workers -> Request] /\ outbox \in [Reminders -> ReminderRow]
      /\ At(w, "drain_mark") /\ k = req[w].reminder /\ k \notin req[w].batch
  BY <1>k DEF TypeOK, DrainMark, Outgoing, Held
<1>1. req'[w] = SendNext(req[w].batch) /\ \A v \in Workers \ {w} : req'[v] = req[v]
  BY <1>0 DEF DrainMark, Goto
<1>2. /\ outbox'[k].state = req[w].answer
      /\ \A j \in Reminders \ {k} : outbox'[j] = outbox[j]
      /\ UNCHANGED <<accepted, doubtful>>
  BY <1>0 DEF DrainMark, StateAfter, ReminderRow
<1>3. /\ Holding(w) = req[w].batch \cup {k} /\ Holding(w)' = req[w].batch
      /\ \A v \in Workers \ {w} : Holding(v)' = Holding(v)
  BY <1>0, <1>1, SMTT(40) DEF Holding, At, SendNext, Idle
<1>4. Held'
  <2>1. \A v \in Workers : At(v, "drain_mark")' => req'[v].reminder \notin req'[v].batch
    BY <1>1 DEF Outgoing, Held, At, SendNext, Idle
  <2>2. ASSUME NEW j \in Reminders \ doubtful, NEW v \in Workers, j \in Holding(v)'
        PROVE  outbox'[j].state = "pending" /\ \A u \in Workers : j \in Holding(u)' => u = v
    <3>1. j \in Holding(v) /\ \A u \in Workers : j \in Holding(u)' => j \in Holding(u)
      BY <1>3, <2>2
    <3>2. outbox[j].state = "pending" /\ \A u \in Workers : j \in Holding(u) => u = v
      BY <3>1 DEF Outgoing, Held
    <3>3. j # k
      BY <1>0, <1>3, <2>2, <3>2
    <3> QED
      BY <1>2, <3>1, <3>2, <3>3
  <2> QED
    BY <1>2, <2>1, <2>2 DEF Held
<1>5. \A j \in Reminders \ {k} : Unwritten(j)' <=> Unwritten(j)
  BY <1>0, <1>1 DEF Unwritten, At, SendNext, Idle
<1>6. OutboxIsTrue'
  <2>1. ASSUME NEW j \in Reminders
        PROVE  /\ j \notin doubtful' =>
                    accepted'[j] = IF outbox'[j].state = "sent" \/ Unwritten(j)' THEN 1 ELSE 0
               /\ outbox'[j].state = "sent" \/ Unwritten(j)' => accepted'[j] > 0
    <3>1. CASE j # k
      BY <1>2, <1>5, <3>1 DEF Outgoing, OutboxIsTrue
    <3>2. CASE j = k
      <4>1. req[w].answer = "sent" => Unwritten(k)
        BY <1>0 DEF Unwritten
      <4>2. Unwritten(k)' => Unwritten(k)
        BY <1>0, <1>1 DEF Unwritten, At, SendNext, Idle
      <4>3. k \notin doubtful =>
              /\ outbox[k].state = "pending"
              /\ (Unwritten(k) => req[w].answer = "sent")
              /\ ~Unwritten(k)'
        BY <1>0, <1>1, <1>3 DEF Outgoing, Held, Unwritten, Holding, At, SendNext, Idle
      <4>4. k \notin doubtful =>
              accepted[k] = IF outbox[k].state = "sent" \/ Unwritten(k) THEN 1 ELSE 0
        BY <1>0 DEF Outgoing, OutboxIsTrue
      <4>5. outbox[k].state = "sent" \/ Unwritten(k) => accepted[k] > 0
        BY <1>0 DEF Outgoing, OutboxIsTrue
      <4> QED
        BY <1>2, <3>2, <4>1, <4>2, <4>3, <4>4, <4>5
    <3> QED
      BY <3>1, <3>2
  <2> QED
    BY <2>1 DEF OutboxIsTrue
<1> QED
  BY <1>4, <1>6 DEF Outgoing

\* The run dies: what it was about to write is in doubt.
LEMMA CrashKept ==
  ASSUME TypeOK, Outgoing, NEW w \in Workers, Crash(w)
  PROVE  Outgoing'
<1>0. req \in [Workers -> Request]
  BY DEF TypeOK
<1>1. req'[w] = Idle /\ (\A v \in Workers \ {w} : req'[v] = req[v]) /\ UNCHANGED <<outbox, accepted>>
  BY <1>0 DEF Crash, Finish, Goto
<1>2. Holding(w)' = {} /\ \A v \in Workers \ {w} : Holding(v)' = Holding(v)
  BY <1>1 DEF Holding, At, Idle
<1>3. /\ doubtful \subseteq doubtful'
      /\ At(w, "drain_mark") => req[w].reminder \in doubtful'
  BY DEF Crash
<1>4. Held'
  <2>1. \A v \in Workers : At(v, "drain_mark")' => req'[v].reminder \notin req'[v].batch
    BY <1>1 DEF Outgoing, Held, At, Idle
  <2> QED
    BY <1>1, <1>2, <1>3, <2>1 DEF Outgoing, Held
<1>5. \A k \in Reminders :
        /\ Unwritten(k)' => Unwritten(k)
        /\ k \notin doubtful' => (Unwritten(k)' <=> Unwritten(k))
  BY <1>1, <1>3 DEF Unwritten, At, Idle
<1> QED
  BY <1>1, <1>3, <1>4, <1>5 DEF Outgoing, OutboxIsTrue

\* A reminder is raised.
LEMMA EnqueueKept ==
  ASSUME TypeOK, Outgoing, NEW w \in Workers, Enqueue(w)
  PROVE  Outgoing'
<1>0. req \in [Workers -> Request]
  BY DEF TypeOK
<1>1. /\ \A k \in Reminders :
            outbox'[k].state = outbox[k].state
            \/ (outbox[k].state = "ABSENT" /\ outbox'[k].state = "pending")
      /\ UNCHANGED <<accepted, doubtful>>
  BY DEF Enqueue, Raised
<1>2. At(w, "enqueue") /\ req'[w].pc \in {"idle", "drain_read"}
      /\ \A v \in Workers \ {w} : req'[v] = req[v]
  BY <1>0 DEF Enqueue, Goto, AfterEnqueue, Idle
<1>3. \A v \in Workers : Holding(v)' = Holding(v)
  BY <1>2 DEF Holding, At
<1>4. \A k \in Reminders : Unwritten(k)' <=> Unwritten(k)
  BY <1>2 DEF Unwritten, At
<1>5. Held'
  BY <1>1, <1>2, <1>3 DEF Outgoing, Held, At
<1> QED
  BY <1>1, <1>4, <1>5 DEF Outgoing, OutboxIsTrue

\* A reminder that no second drain read meanwhile, no crash interrupted and no time-out
\* left open reaches its recipient exactly when the outbox says so, and once; and the outbox
\* never says sent what the provider did not accept.
THEOREM OutboxAlwaysTrue == Spec => []OutboxIsTrue
<1>1. Init => Outgoing
  BY DEF Init, Outgoing, Held, OutboxIsTrue, Holding, Unwritten, At, Idle
<1>2. TypeOK /\ Outgoing /\ [Next]_vars => Outgoing'
  <2> SUFFICES ASSUME TypeOK, Outgoing, [Next]_vars PROVE Outgoing'
    OBVIOUS
  <2>1. CASE UNCHANGED <<Outbox, req>>
    BY <2>1 DEF Outgoing, Held, OutboxIsTrue, Holding, Unwritten, At, Outbox
  <2>2. ASSUME NEW w \in Workers, NEW day, VisitsRead(w, day) PROVE Outgoing'
    BY <2>2, OutsideTheDrain DEF VisitsRead, VisitsLeft, AfterVisits, Idle, At, Outbox
  <2>3. ASSUME NEW w \in Workers, VisitDraw(w) \/ VisitInsert(w) \/ Plan(w) PROVE Outgoing'
    <3>1. \E r : Goto(w, r) /\ r.pc \notin {"drain_send", "drain_mark"}
      <4>1. CASE VisitDraw(w)
        <5>1. PICK v : Goto(w, [pc |-> "visit_insert", todo |-> req[w].todo \ {v},
                                day |-> req[w].day, visit |-> v, seq |-> NextInSeries])
          BY <4>1 DEF VisitDraw
        <5> QED
          BY <5>1
      <4>2. CASE VisitInsert(w)
        <5>1. Goto(w, Idle) \/ Goto(w, VisitsLeft(req[w].todo, req[w].day))
          BY <4>2 DEF VisitInsert, Finish
        <5> QED
          BY <5>1 DEF VisitsLeft, AfterVisits, Idle
      <4>3. CASE Plan(w)
        <5>1. Goto(w, AfterEnqueue)
              \/ Goto(w, [pc |-> "enqueue", planned |-> PlanReminders(req[w].day)])
          BY <4>3 DEF Plan
        <5> QED
          BY <5>1 DEF AfterEnqueue, Idle
      <4> QED
        BY <2>3, <4>1, <4>2, <4>3
    <3>2. ~At(w, "drain_mark") /\ UNCHANGED <<outbox, accepted, doubtful>>
      BY <2>3 DEF VisitDraw, VisitInsert, Plan, At, Outbox
    <3> QED
      BY <3>1, <3>2, OutsideTheDrain
  <2> QED
    BY <2>1, <2>2, <2>3, DrainReadKept, SendKept, DrainMarkKept, CrashKept, EnqueueKept
    DEF Next, Tick, JobGone, Reschedule, CronStart, OperatorStart, ButtonStart, Proceed, vars, Outbox
<1>3. Outgoing => OutboxIsTrue
  BY DEF Outgoing
<1> QED
  BY <1>1, <1>2, <1>3, TypeCorrect, PTL DEF Spec
-----------------------------------------------------------------------------
(***************************************************************************)
(* The numbers of the jobs.                                                 *)
(***************************************************************************)

\* The numbers drawn and not yet on a row.
Hand == {[year |-> 0, seq |-> req[w].seq] : w \in {v \in Workers : At(v, "visit_insert")}}

\* Every number drawn or borne is one the counter has passed, in one place.
NumbersApart ==
    /\ \A w \in Workers : At(w, "visit_insert") => req[w].seq \in 1 .. counter
    /\ \A w, v \in Workers :
        At(w, "visit_insert") /\ At(v, "visit_insert") /\ req[w].seq = req[v].seq => w = v
    /\ \A v \in Visits : ~OnBoard(v) => job[v].number = None

\* What a step does to the numbers in hand, when the worker goes somewhere else ...
LEMMA HandKept ==
  ASSUME TypeOK, NEW w \in Workers, NEW r, Goto(w, r),
         ~At(w, "visit_insert"), r.pc # "visit_insert"
  PROVE  Hand' = Hand
  BY DEF TypeOK, Goto, Hand, At

\* ... when it draws a number ...
LEMMA HandGains ==
  ASSUME TypeOK, NEW w \in Workers, NEW r, Goto(w, r),
         ~At(w, "visit_insert"), r.pc = "visit_insert"
  PROVE  Hand' = Hand \cup {[year |-> 0, seq |-> r.seq]}
<1>1. req'[w] = r /\ \A v \in Workers \ {w} : req'[v] = req[v]
  BY DEF TypeOK, Goto
<1> QED
  BY <1>1 DEF Hand, At

\* ... and when it has used its number, or lost it.
LEMMA HandLoses ==
  ASSUME TypeOK, NumbersApart, NEW w \in Workers, NEW r, Goto(w, r),
         At(w, "visit_insert"), r.pc # "visit_insert"
  PROVE  /\ [year |-> 0, seq |-> req[w].seq] \in Hand
         /\ Hand' = Hand \ {[year |-> 0, seq |-> req[w].seq]}
<1>1. req'[w] = r /\ \A v \in Workers \ {w} : req'[v] = req[v]
  BY DEF TypeOK, Goto
<1>2. \A v \in Workers \ {w} : At(v, "visit_insert") => req[v].seq # req[w].seq
  BY DEF NumbersApart
<1> QED
  BY <1>1, <1>2 DEF Hand, At

\* Where the requests of the daily run go that neither hold a number nor draw one.
LEMMA Elsewhere ==
  ASSUME NEW w \in Workers,
         ~VisitDraw(w), ~VisitInsert(w),
         CronStart(w) \/ OperatorStart(w) \/ ButtonStart(w) \/ Proceed(w)
  PROVE  UNCHANGED Board /\ ~At(w, "visit_insert")
         /\ \E r : Goto(w, r) /\ r.pc # "visit_insert"
<1>1. ASSUME NEW day, VisitsRead(w, day)
      PROVE  UNCHANGED Board /\ ~At(w, "visit_insert") /\ \E r : Goto(w, r) /\ r.pc # "visit_insert"
  BY <1>1 DEF VisitsRead, VisitsLeft, AfterVisits, Idle, At
<1>2. CASE Plan(w)
  <2>1. Goto(w, AfterEnqueue) \/ Goto(w, [pc |-> "enqueue", planned |-> PlanReminders(req[w].day)])
    BY <1>2 DEF Plan
  <2> QED
    BY <1>2, <2>1 DEF Plan, AfterEnqueue, Idle, At
<1>3. CASE Enqueue(w)
  BY <1>3 DEF Enqueue, AfterEnqueue, Idle, At
<1>4. CASE DrainRead(w)
  <2>1. PICK batch : Goto(w, SendNext(batch))
    BY <1>4 DEF DrainRead
  <2> QED
    BY <1>4, <2>1 DEF DrainRead, SendNext, Idle, At
<1>5. CASE DrainMark(w)
  <2>1. Goto(w, SendNext(req[w].batch))
    BY <1>5 DEF DrainMark
  <2> QED
    BY <1>5, <2>1 DEF DrainMark, SendNext, Idle, At
<1>6. ASSUME NEW k, SendSettles(w, k) \/ SendRetryable(w, k)
      PROVE  UNCHANGED Board /\ ~At(w, "visit_insert") /\ \E r : Goto(w, r) /\ r.pc # "visit_insert"
  <2>1. PICK answer : Answered(w, k, answer)
    BY <1>6 DEF SendSettles, SendRetryable
  <2>2. Goto(w, [pc |-> "drain_mark", batch |-> req[w].batch \ {k}, reminder |-> k, answer |-> answer])
    BY <2>1 DEF Answered
  <2> QED
    BY <1>6, <2>2 DEF SendSettles, SendRetryable, At
<1> QED
  BY <1>1, <1>2, <1>3, <1>4, <1>5, <1>6 DEF CronStart, OperatorStart, ButtonStart, Proceed

\* Every statement keeps the numbers apart.
LEMMA NextApart == TypeOK /\ NumbersApart /\ [Next]_vars => NumbersApart'
<1> SUFFICES ASSUME TypeOK, NumbersApart, [Next]_vars PROVE NumbersApart'
  OBVIOUS
<1>0. /\ req \in [Workers -> Request] /\ counter \in Nat /\ job \in [Visits -> JobRow]
  BY DEF TypeOK
<1>1. ASSUME NEW w \in Workers, VisitDraw(w) PROVE NumbersApart'
  <2>1. PICK v : Goto(w, [pc |-> "visit_insert", todo |-> req[w].todo \ {v},
                          day |-> req[w].day, visit |-> v, seq |-> NextInSeries])
    BY <1>1 DEF VisitDraw
  <2>2. /\ req'[w].seq = counter + 1 /\ counter' = counter + 1 /\ UNCHANGED job
        /\ \A u \in Workers \ {w} : req'[u] = req[u]
    BY <1>0, <1>1, <2>1 DEF Goto, NextInSeries, VisitDraw
  <2> QED
    BY <1>0, <2>2 DEF NumbersApart, At, OnBoard
<1>2. ASSUME NEW w \in Workers, VisitInsert(w) PROVE NumbersApart'
  <2>1. /\ req'[w].pc # "visit_insert" /\ UNCHANGED counter
        /\ \A u \in Workers \ {w} : req'[u] = req[u]
    <3>1. Goto(w, Idle) \/ Goto(w, VisitsLeft(req[w].todo, req[w].day))
      BY <1>2 DEF VisitInsert, Finish
    <3> QED
      BY <1>0, <1>2, <3>1 DEF Goto, VisitInsert, VisitsLeft, AfterVisits, Idle
  <2>2. \A v \in Visits : ~OnBoard(v)' => job'[v] = job[v] /\ ~OnBoard(v)
    <3>1. req[w].visit \in Visits
      BY <1>2, RequestFields DEF VisitInsert
    <3> QED
      BY <1>0, <1>2, <3>1 DEF VisitInsert, OnBoard, JobRow
  <2> QED
    BY <2>1, <2>2 DEF NumbersApart, At
<1>3. ASSUME NEW w \in Workers, Crash(w) PROVE NumbersApart'
  <2>1. /\ req'[w] = Idle /\ UNCHANGED <<job, counter>>
        /\ \A u \in Workers \ {w} : req'[u] = req[u]
    BY <1>0, <1>3 DEF Crash, Finish, Goto, Board
  <2> QED
    BY <2>1 DEF NumbersApart, At, OnBoard, Idle
<1>4. ASSUME NEW w \in Workers, ~VisitDraw(w), ~VisitInsert(w),
             CronStart(w) \/ OperatorStart(w) \/ ButtonStart(w) \/ Proceed(w)
      PROVE  NumbersApart'
  <2>1. UNCHANGED <<job, counter>> /\ \E r : Goto(w, r) /\ r.pc # "visit_insert"
    BY <1>4, Elsewhere DEF Board
  <2>2. req'[w].pc # "visit_insert" /\ \A u \in Workers \ {w} : req'[u] = req[u]
    BY <1>0, <2>1 DEF Goto
  <2> QED
    BY <2>1, <2>2 DEF NumbersApart, At, OnBoard
<1>5. CASE JobGone \/ Reschedule
  <2>1. \A v \in Visits : job'[v].rows = job[v].rows /\ job'[v].number = job[v].number
    BY <1>0, <1>5 DEF JobGone, Reschedule, JobRow
  <2> QED
    BY <1>5, <2>1 DEF JobGone, Reschedule, NumbersApart, At, OnBoard
<1>6. CASE UNCHANGED <<job, counter, req>>
  BY <1>6 DEF NumbersApart, At, OnBoard
<1> QED
  BY <1>1, <1>2, <1>3, <1>4, <1>5, <1>6 DEF Next, Tick, Board, vars

\* The series sees nothing of a step that touches none of its numbers.
LEMMA SeriesStutters ==
  ASSUME UNCHANGED counter, Hand' = Hand, \A v \in Visits : job'[v].number = job[v].number
  PROVE  UNCHANGED JobSeries!vars
  BY DEF JobSeries!vars, Hand

\* A number in hand that is borne or wasted is a step of the series.
LEMMA HandMoves ==
  ASSUME NEW n \in Hand,
         JobSeries!Waste(n) \/ \E v \in Visits : JobSeries!Bear(v, n)
  PROVE  JobSeries!Next
<1>1. Hand = {[year |-> 0, seq |-> req[w].seq] : w \in {v \in Workers : At(v, "visit_insert")}}
  BY DEF Hand
<1>2. \E m \in Hand : JobSeries!Waste(m) \/ \E v \in Visits : JobSeries!Bear(v, m)
  OBVIOUS
<1> HIDE DEF Hand
<1> QED
  BY <1>1, <1>2, Zenon DEF JobSeries!Next

\* A visit's insert bears the number drawn for it, or wastes it.
LEMMA InsertBearsOrWastes ==
  ASSUME TypeOK, NumbersApart, NEW w \in Workers, VisitInsert(w)
  PROVE  JobSeries!Next
<1>n. PICK n : n = [year |-> 0, seq |-> req[w].seq]
  OBVIOUS
<1>0. job \in [Visits -> JobRow] /\ req[w].visit \in Visits /\ At(w, "visit_insert") /\ UNCHANGED counter
  BY RequestFields DEF TypeOK, VisitInsert
<1>1. n \in Hand /\ Hand' = Hand \ {n}
  <2>1. Goto(w, Idle) \/ Goto(w, VisitsLeft(req[w].todo, req[w].day))
    BY DEF VisitInsert, Finish
  <2> QED
    BY <1>n, <1>0, <2>1, HandLoses DEF VisitsLeft, AfterVisits, Idle
<1>2. CASE KeyTaken(req[w].visit)
  <2>1. JobSeries!Waste(n)
    BY <1>0, <1>1, <1>2 DEF JobSeries!Waste, Hand, VisitInsert
  <2> QED
    BY <1>1, <2>1, HandMoves
<1>3. CASE ~KeyTaken(req[w].visit)
  <2>1. PICK v \in Visits : v = req[w].visit
    BY <1>0
  <2>2. job[v].number = None
    BY <1>3, <2>1 DEF KeyTaken, NumbersApart
  <2>3. job'[v].number = n /\ \A u \in Visits \ {v} : job'[u] = job[u]
    BY <1>n, <1>0, <1>3, <2>1 DEF VisitInsert
  <2>4. JobSeries!Bear(v, n)
    BY <1>0, <1>1, <2>1, <2>2, <2>3 DEF JobSeries!Bear, Hand
  <2> QED
    BY <1>1, <2>4, HandMoves
<1> QED
  BY <1>2, <1>3

\* The jobs of the visits implement the series: a number drawn is borne by one job or wasted,
\* however the runs overlap and wherever they die.
THEOREM JobSeriesImplemented == Spec => JobSeriesSpec
<1>1. Init => NumbersApart /\ JobSeries!Init
  BY DEF Init, NumbersApart, JobSeries!Init, At, Idle, OnBoard
<1>2. TypeOK /\ NumbersApart /\ [Next]_vars => [JobSeries!Next]_(JobSeries!vars)
  <2> SUFFICES ASSUME TypeOK, NumbersApart, [Next]_vars
               PROVE  [JobSeries!Next]_(JobSeries!vars)
    OBVIOUS
  <2>0. job \in [Visits -> JobRow] /\ counter \in Nat
    BY DEF TypeOK
  <2>1. ASSUME NEW w \in Workers, VisitDraw(w) PROVE JobSeries!Next
    <3>1. PICK v : Goto(w, [pc |-> "visit_insert", todo |-> req[w].todo \ {v},
                            day |-> req[w].day, visit |-> v, seq |-> NextInSeries])
      BY <2>1 DEF VisitDraw
    <3>2. Hand' = Hand \cup {[year |-> 0, seq |-> counter + 1]}
      BY <2>1, <3>1, HandGains DEF VisitDraw, At, NextInSeries
    <3>3. JobSeries!Draw(0)
      BY <2>0, <2>1, <3>2 DEF JobSeries!Draw, Hand, VisitDraw
    <3> QED
      BY <3>3 DEF JobSeries!Next
  <2>2. ASSUME NEW w \in Workers, Crash(w) PROVE [JobSeries!Next]_(JobSeries!vars)
    <3>1. Goto(w, Idle) /\ Idle.pc # "visit_insert" /\ UNCHANGED <<job, counter>>
      BY <2>2 DEF Crash, Finish, Board, Idle
    <3>2. CASE At(w, "visit_insert")
      <4>n. PICK n : n = [year |-> 0, seq |-> req[w].seq]
        OBVIOUS
      <4>1. n \in Hand /\ Hand' = Hand \ {n}
        BY <4>n, <3>1, <3>2, HandLoses
      <4>2. JobSeries!Waste(n)
        BY <3>1, <4>1 DEF JobSeries!Waste, Hand
      <4> QED
        BY <4>1, <4>2, HandMoves
    <3>3. CASE ~At(w, "visit_insert")
      BY <3>1, <3>3, HandKept, SeriesStutters
    <3> QED
      BY <3>2, <3>3
  <2>3. ASSUME NEW w \in Workers, ~VisitDraw(w), ~VisitInsert(w),
               CronStart(w) \/ OperatorStart(w) \/ ButtonStart(w) \/ Proceed(w)
        PROVE  UNCHANGED JobSeries!vars
    <3>1. UNCHANGED <<job, counter>> /\ ~At(w, "visit_insert")
          /\ \E r : Goto(w, r) /\ r.pc # "visit_insert"
      BY <2>3, Elsewhere DEF Board
    <3> QED
      BY <3>1, HandKept, SeriesStutters
  <2>4. CASE JobGone \/ Reschedule
    <3>1. \A v \in Visits : job'[v].number = job[v].number
      BY <2>0, <2>4 DEF JobGone, Reschedule, JobRow
    <3>2. Hand' = Hand /\ UNCHANGED counter
      BY <2>4 DEF JobGone, Reschedule, Hand, At
    <3> QED
      BY <3>1, <3>2, SeriesStutters
  <2>5. CASE UNCHANGED <<job, counter, req>>
    <3>1. Hand' = Hand
      BY <2>5 DEF Hand, At
    <3> QED
      BY <2>5, <3>1, SeriesStutters
  <2> QED
    BY <2>1, <2>2, <2>3, <2>4, <2>5, InsertBearsOrWastes DEF Next, Tick, Board, vars
<1> QED
  BY <1>1, <1>2, NextApart, TypeCorrect, PTL DEF Spec, JobSeriesSpec, JobSeries!Spec
=============================================================================
