-------------------------- MODULE BackOfficeProofs --------------------------
(* What holds of the desks of the back office, for every set of requests,     *)
(* rows and amounts.                                                          *)
EXTENDS BackOffice, FiniteSums

(***************************************************************************)
(* A behaviour is of one desk.                                              *)
(***************************************************************************)

\* What a step may be, by the desk it is of.
LEMMA DeskSteps ==
  ASSUME [Next]_vars
  PROVE  /\ desk' = desk
         /\ desk = "plans" => Platform!PlansNext \/ Platform!Interrupt \/ UNCHANGED Platform!vars
         /\ desk = "subscriptions" =>
                Platform!SubscriptionsNext \/ Platform!Interrupt \/ UNCHANGED Platform!vars
         /\ desk = "lifecycle" =>
                Platform!LifecycleNext \/ Platform!Interrupt \/ UNCHANGED Platform!vars
         /\ desk = "doors" => RateLimit!Next \/ UNCHANGED RateLimit!vars
         /\ desk = "sales" => Sales!SalesNext \/ UNCHANGED Sales!vars
         /\ desk = "service" => Service!ContractsNext \/ UNCHANGED Service!vars
         /\ desk = "purchases" => Purchases!Next \/ UNCHANGED Purchases!vars
         /\ desk = "stock" => Stock!Next \/ UNCHANGED Stock!vars
         /\ desk = "periods" => Periods!Next \/ UNCHANGED Periods!vars
  BY DEF Next, PlatformNext, vars, platformVars, rateVars, pipelineVars, purchaseVars, stockVars,
     periodVars, Platform!vars, Platform!Subscribing, Platform!Living, RateLimit!vars,
     RateLimit!History, Sales!vars, Service!vars, Purchases!vars, Stock!vars, Periods!vars

LEMMA DeskStarts ==
  ASSUME Init
  PROVE  /\ desk \in {"plans", "subscriptions", "lifecycle"} => Platform!Init
         /\ desk = "doors" => RateLimit!Init
         /\ desk = "sales" => Sales!StartsWith({})
         /\ desk = "service" => Service!StartsWith(ServedCustomers)
         /\ desk = "purchases" => Purchases!Init
         /\ desk = "stock" => Stock!Init
         /\ desk = "periods" => Periods!Init
  BY DEF Init
-----------------------------------------------------------------------------
(***************************************************************************)
(* The control plane (Platform).                                            *)
(***************************************************************************)

\* A set of numbers that is not empty has a smallest one.
LEMMA SmallestNumber ==
  ASSUME NEW S \in SUBSET Nat, S # {}
  PROVE  Platform!Min(S) \in S /\ \A n \in S : Platform!Min(S) <= n
<1>1. PICK m \in S : \A n \in S : <<n, m>> \notin OpToRel(<, Nat)
  BY NatLessThanWellFounded, WFMin
<1>2. ASSUME NEW n \in S PROVE m <= n
  <2>1. <<n, m>> \in Nat \X Nat /\ <<n, m>>[1] = n /\ <<n, m>>[2] = m
    OBVIOUS
  <2>2. ~(n < m)
    BY <1>1, <2>1 DEF OpToRel
  <2> QED
    BY <2>2
<1> QED
  BY <1>2 DEF Platform!Min

\* Who closes a firm has read an export of the last day, and a retention beyond today.
Decided(w) ==
    Platform!At(w, "life_write") =>
        /\ req[w].to = "CLOSED" =>
            /\ req[w].exported \in Nat /\ req[w].retention \in Nat
            /\ req[w].at - req[w].exported <= 1
            /\ req[w].retention > req[w].at
        /\ req[w].to # "CLOSED" => req[w].was # "CLOSED"

LEMMA DecisionsStand ==
  ASSUME Platform!TypeOK, \A w \in Workers : Decided(w), Platform!Next \/ UNCHANGED Platform!vars
  PROVE  \A w \in Workers : Decided(w)'
<1> USE DEF Decided, Platform!TypeOK, Platform!At, Platform!Goto, Platform!Finish, Platform!Idle
<1>0. /\ {Defaults, TrialEnds, MaxTime} \subseteq Nat
      /\ None \notin Nat \cup Grants
  BY BackOfficeConstants DEF Platform!PlatformConstants
<1>1. ASSUME NEW w \in Workers, NEW to \in Platform!Lives, NEW retention \in 0..MaxTime + 1,
             Platform!LifeRead(w, to, retention)
      PROVE  \A v \in Workers : Decided(v)'
  BY <1>0, <1>1 DEF Platform!LifeRead, Platform!LifeRow, Platform!Recent
<1>2. ASSUME NEW w \in Workers, NEW r, Platform!Goto(w, r), r.pc # "life_write"
      PROVE  \A v \in Workers : Decided(v)'
  BY <1>2
<1>3. CASE UNCHANGED req
  BY <1>3
<1>4. ASSUME NEW w \in Workers, Platform!RecordsLife(w) PROVE \A v \in Workers : Decided(v)'
  <2>1. req[w] \in [pc : {"records_life", "records_read"}, grant : Grants]
    BY <1>4 DEF Platform!RecordsLife, Platform!Request
  <2>2. [req[w] EXCEPT !.pc = "records_read"].pc = "records_read"
    BY <2>1
  <2>3. PICK r : r.pc = "records_read" /\ r = [req[w] EXCEPT !.pc = "records_read"]
    BY <2>2
  <2>4. Platform!Finish(w) \/ Platform!Goto(w, r)
    BY <1>4, <2>3 DEF Platform!RecordsLife
  <2>5. CASE Platform!Finish(w)
    BY <2>5
  <2>6. CASE Platform!Goto(w, r)
    <3>1. r.pc # "life_write"
      BY <2>3
    <3> QED
      BY <1>2, <2>6, <3>1
  <2> QED
    BY <2>4, <2>5, <2>6
<1> QED
  <2>1. CASE Platform!PlansNext
    BY <1>3, <2>1 DEF Platform!PlansNext, Platform!BootRead, Platform!BootSnapshot, Platform!BootInsert,
       Platform!BootAnswer, Platform!PlanCreate, Platform!Retire
  <2>2. CASE Platform!SubscriptionsNext
    BY <1>3, <2>2 DEF Platform!SubscriptionsNext, Platform!EventRead, Platform!EventWrite, Platform!Maintain
  <2>3. CASE Platform!LifecycleNext
    <3>1. ASSUME NEW w \in Workers,
                 \/ Platform!ExportRead(w) \/ Platform!ExportWrite(w) \/ Platform!LifeWrite(w)
                 \/ Platform!GrantRead(w) \/ Platform!GrantInsert(w) \/ Platform!RecordsRead(w)
                 \/ \E g \in Grants : Platform!RecordsGrant(w, g)
          PROVE  \E r : Platform!Goto(w, r) /\ r.pc # "life_write"
      BY <3>1 DEF Platform!ExportRead, Platform!ExportWrite, Platform!LifeWrite, Platform!GrantRead,
         Platform!GrantInsert, Platform!RecordsRead, Platform!RecordsGrant
    <3>2. (\E g \in Grants : Platform!Revoke(g)) => UNCHANGED req
      BY DEF Platform!Revoke
    <3> QED
      BY <1>1, <1>2, <1>3, <1>4, <2>3, <3>1, <3>2 DEF Platform!LifecycleNext
  <2>4. CASE Platform!Interrupt \/ UNCHANGED Platform!vars
    BY <1>3, <2>4 DEF Platform!Interrupt, Platform!Tick, Platform!Crash, Platform!vars
  <2> QED
    BY <2>1, <2>2, <2>3, <2>4 DEF Platform!Next

LEMMA PlatformTypes ==
  ASSUME Platform!TypeOK, \A w \in Workers : Decided(w), Platform!Next \/ UNCHANGED Platform!vars
  PROVE  Platform!TypeOK'
<1> USE DEF Platform!TypeOK, Platform!Subscribing, Platform!Living, Platform!At, Platform!Goto,
            Platform!Finish, Platform!Idle, Platform!Request
<1>0. /\ {Defaults, TrialEnds, MaxTime} \subseteq Nat
      /\ None \notin Nat \cup Grants
  BY BackOfficeConstants DEF Platform!PlatformConstants
<1>1. CASE \E w \in Workers : Platform!BootRead(w)
  BY <1>1 DEF Platform!BootRead
<1>2. CASE \E w \in Workers : Platform!BootSnapshot(w)
  <2>1. Platform!Free # {} => Platform!Min(Platform!Free) \in Platform!PlanCodes
    <3>1. Platform!Free \in SUBSET Nat /\ Platform!Free \in SUBSET Platform!PlanCodes
      BY <1>0 DEF Platform!Free, Platform!DefaultCodes, Platform!PlanCodes
    <3> QED
      BY <3>1, SmallestNumber
  <2> QED
    BY <1>2, <2>1 DEF Platform!BootSnapshot
<1>3. CASE \E w \in Workers : Platform!BootInsert(w)
  BY <1>3 DEF Platform!BootInsert, Platform!CodeInserted, Platform!PlanRow
<1>4. CASE \E w \in Workers : Platform!BootAnswer(w)
  BY <1>4 DEF Platform!BootAnswer
<1>5. CASE Platform!PlanCreate
  BY <1>5 DEF Platform!PlanCreate, Platform!PlanRow
<1>6. CASE Platform!Retire
  BY <1>6 DEF Platform!Retire, Platform!PlanRow
<1>7. ASSUME NEW w \in Workers, NEW kind \in Platform!Kinds, Platform!EventRead(w, kind)
      PROVE  Platform!TypeOK'
  BY <1>7 DEF Platform!EventRead
<1>8. CASE \E w \in Workers : Platform!EventWrite(w)
  BY <1>8 DEF Platform!EventWrite, Platform!StatusAfter, Platform!Statuses
<1>9. CASE Platform!Maintain
  BY <1>9 DEF Platform!Maintain, Platform!Statuses
<1>10. CASE \E w \in Workers : Platform!ExportRead(w)
  BY <1>10 DEF Platform!ExportRead
<1>11. CASE \E w \in Workers : Platform!ExportWrite(w)
  BY <1>11 DEF Platform!ExportWrite, Platform!LifeRow
<1>12. CASE \E w \in Workers : Platform!LifeWrite(w)
  <2>1. PICK w \in Workers : Platform!LifeWrite(w)
    BY <1>12
  <2>2. req[w] \in [pc : {"life_write"}, was : Platform!Lives, to : Platform!Lives,
                    retention : Nat \cup {None}, at : Nat, exported : Nat \cup {None}]
    BY <2>1 DEF Platform!LifeWrite
  <2>3. life' \in Platform!LifeRow
    BY <2>1, <2>2 DEF Platform!LifeWrite, Platform!LifeRow
  <2>4. closure' \in {None} \cup [at : Nat, exported : Nat]
    BY <2>1, <2>2 DEF Platform!LifeWrite, Decided
  <2> QED
    BY <2>1, <2>3, <2>4 DEF Platform!LifeWrite
<1>13. CASE \E w \in Workers : Platform!GrantRead(w)
  BY <1>13 DEF Platform!GrantRead
<1>14. CASE \E w \in Workers : Platform!GrantInsert(w)
  BY <1>14 DEF Platform!GrantInsert, Platform!GrantRow
<1>15. CASE \E w \in Workers : Platform!RecordsLife(w)
  BY <1>15 DEF Platform!RecordsLife
<1>16. CASE \E w \in Workers : Platform!RecordsRead(w)
  BY <1>16 DEF Platform!RecordsRead
<1>17. ASSUME NEW w \in Workers, NEW to \in Platform!Lives, NEW retention \in 0..MaxTime + 1,
              Platform!LifeRead(w, to, retention)
       PROVE  Platform!TypeOK'
  BY <1>0, <1>17 DEF Platform!LifeRead, Platform!LifeRow
<1>18. ASSUME NEW w \in Workers, NEW g \in Grants, Platform!RecordsGrant(w, g)
       PROVE  Platform!TypeOK'
  BY <1>18 DEF Platform!RecordsGrant
<1>19. ASSUME NEW g \in Grants, Platform!Revoke(g) PROVE Platform!TypeOK'
  BY <1>19 DEF Platform!Revoke, Platform!GrantRow
<1>20. CASE Platform!Interrupt
  BY <1>0, <1>20 DEF Platform!Interrupt, Platform!Tick, Platform!Crash
<1>21. CASE UNCHANGED Platform!vars
  BY <1>21 DEF Platform!vars
<1> QED
  BY <1>1, <1>2, <1>3, <1>4, <1>5, <1>6, <1>7, <1>8, <1>9, <1>10, <1>11, <1>12, <1>13, <1>14, <1>15,
     <1>16, <1>17, <1>18, <1>19, <1>20, <1>21
     DEF Platform!Next, Platform!PlansNext, Platform!SubscriptionsNext, Platform!LifecycleNext

\* Default codes are taken in order, and by whoever inserts one first: whoever holds a code
\* that is free still, chose it when no plan was active, and none has become so.
OneTaken ==
    /\ \A c, d \in Platform!DefaultCodes : d < c /\ plan[c] # "ABSENT" => plan[d] # "ABSENT"
    /\ \A c, d \in Platform!DefaultCodes : plan[c] = "ACTIVE" /\ plan[d] = "ACTIVE" => c = d
    /\ \A w \in Workers : Platform!At(w, "boot_insert") =>
        LET code == req[w].code IN
        /\ code \in Platform!DefaultCodes
        /\ \A d \in Platform!DefaultCodes : d < code => plan[d] # "ABSENT"
        /\ plan[code] = "ABSENT" => \A d \in Platform!DefaultCodes : plan[d] # "ACTIVE"

LEMMA OneTakenKept ==
  ASSUME Platform!TypeOK, OneTaken, \/ Platform!PlansNext \/ Platform!Interrupt
                                   \/ UNCHANGED Platform!vars
  PROVE  OneTaken'
<1> USE DEF OneTaken, Platform!At, Platform!Goto, Platform!Finish, Platform!Idle
<1>0. /\ Defaults \in Nat
      /\ plan \in [Platform!PlanCodes -> Platform!PlanRow] /\ req \in [Workers -> Platform!Request]
      /\ Platform!DefaultCodes \subseteq Nat /\ Platform!DefaultCodes \subseteq Platform!PlanCodes
  BY BackOfficeConstants DEF Platform!PlatformConstants, Platform!TypeOK, Platform!DefaultCodes,
     Platform!PlanCodes
<1>1. ASSUME UNCHANGED plan,
             \A w \in Workers : Platform!At(w, "boot_insert")' => UNCHANGED req[w]
      PROVE  OneTaken'
  BY <1>1
<1>2. ASSUME NEW w \in Workers, Platform!BootRead(w) \/ Platform!BootAnswer(w) \/ Platform!Crash(w)
      PROVE  OneTaken'
  BY <1>0, <1>1, <1>2 DEF Platform!BootRead, Platform!BootAnswer, Platform!Crash
<1>3. ASSUME NEW w \in Workers, Platform!BootSnapshot(w) PROVE OneTaken'
  <2>1. CASE Platform!ActivePlans = {}
    <3>1. PICK c \in Platform!DefaultCodes :
            /\ req' = [req EXCEPT ![w] = [pc |-> "boot_insert", code |-> c]]
            /\ \A d \in Platform!DefaultCodes : d < c => plan[d] # "ABSENT"
      <4>1. Platform!Free \in SUBSET Nat
        BY <1>0 DEF Platform!Free
      <4>2. /\ Platform!Min(Platform!Free) \in Platform!Free
            /\ \A d \in Platform!Free : Platform!Min(Platform!Free) <= d
        BY <1>3, <2>1, <4>1, SmallestNumber DEF Platform!BootSnapshot
      <4>3. PICK c \in Platform!Free : c = Platform!Min(Platform!Free) /\ \A d \in Platform!Free : c <= d
        BY <4>2
      <4>4. c \in Platform!DefaultCodes /\ \A d \in Platform!DefaultCodes : d < c => plan[d] # "ABSENT"
        <5>1. c \in Platform!DefaultCodes
          BY DEF Platform!Free
        <5>2. ASSUME NEW d \in Platform!DefaultCodes, d < c PROVE plan[d] # "ABSENT"
          <6>1. d \in Nat /\ c \in Nat /\ ~(c <= d)
            BY <1>0, <5>1, <5>2
          <6>2. d \notin Platform!Free
            BY <4>3, <6>1
          <6> QED
            BY <6>2 DEF Platform!Free
        <5> QED
          BY <5>1, <5>2
      <4> QED
        BY <1>3, <2>1, <4>3, <4>4 DEF Platform!BootSnapshot
    <3>2. UNCHANGED plan /\ \A d \in Platform!DefaultCodes : plan[d] # "ACTIVE"
      BY <1>0, <1>3, <2>1 DEF Platform!BootSnapshot, Platform!ActivePlans
    <3> QED
      BY <1>0, <3>1, <3>2
  <2>2. CASE Platform!ActivePlans # {}
    BY <1>0, <1>1, <1>3, <2>2 DEF Platform!BootSnapshot
  <2> QED
    BY <2>1, <2>2
<1>4. ASSUME NEW w \in Workers, Platform!BootInsert(w) PROVE OneTaken'
  <2>1. PICK c \in Platform!DefaultCodes :
            /\ req[w].code = c
            /\ \A d \in Platform!DefaultCodes : d < c => plan[d] # "ABSENT"
            /\ plan[c] = "ABSENT" => \A d \in Platform!DefaultCodes : plan[d] # "ACTIVE"
    BY <1>4 DEF Platform!BootInsert
  <2>2. req' = [req EXCEPT ![w] = [pc |-> "boot_answer"]]
    BY <1>4 DEF Platform!BootInsert
  <2>3. CASE plan[c] # "ABSENT"
    BY <1>0, <1>1, <1>4, <2>1, <2>2, <2>3 DEF Platform!BootInsert, Platform!CodeInserted
  <2>4. CASE plan[c] = "ABSENT"
    <3>1. plan' = [plan EXCEPT ![c] = "ACTIVE"]
      BY <1>4, <2>1, <2>4 DEF Platform!BootInsert, Platform!CodeInserted
    <3> QED
      BY <1>0, <2>1, <2>2, <2>4, <3>1
  <2> QED
    BY <2>3, <2>4
<1>5. ASSUME Platform!PlanCreate PROVE OneTaken'
  <2>1. PICK c \in {-1, 0} : plan[c] = "ABSENT" /\ plan' = [plan EXCEPT ![c] = "ACTIVE"]
    BY <1>5 DEF Platform!PlanCreate
  <2>2. UNCHANGED req
    BY <1>5 DEF Platform!PlanCreate
  <2>3. CASE c = -1
    <3>1. \A d \in Platform!DefaultCodes : plan'[d] = plan[d]
      BY <1>0, <2>1, <2>3
    <3> QED
      BY <2>2, <3>1
  <2>4. CASE c = 0 /\ 0 \notin Platform!DefaultCodes
    <3>1. \A d \in Platform!DefaultCodes : plan'[d] = plan[d]
      BY <1>0, <2>1, <2>4
    <3> QED
      BY <2>2, <3>1
  <2>5. CASE c = 0 /\ 0 \in Platform!DefaultCodes
    <3>1. \A d \in Platform!DefaultCodes : plan[d] = "ABSENT"
      <4> TAKE d \in Platform!DefaultCodes
      <4>1. d = 0 \/ 0 < d
        BY <1>0
      <4> QED
        BY <2>1, <2>5, <4>1
    <3>2. plan'[0] = "ACTIVE" /\ \A d \in Platform!DefaultCodes : d # 0 => plan'[d] = "ABSENT"
      BY <1>0, <2>1, <2>5, <3>1
    <3>3. \A c1, d \in Platform!DefaultCodes : d < c1 => c1 # 0 /\ plan'[c1] = "ABSENT"
      BY <1>0, <3>2
    <3>4. \A w \in Workers : Platform!At(w, "boot_insert") => req[w].code = 0
      <4> SUFFICES ASSUME NEW w \in Workers, Platform!At(w, "boot_insert"), req[w].code # 0 PROVE FALSE
        OBVIOUS
      <4>1. req[w].code \in Platform!DefaultCodes /\ req[w].code \in Nat
        BY <1>0
      <4>2. 0 < req[w].code
        BY <4>1
      <4> QED
        BY <2>1, <2>5, <4>1, <4>2
    <3> QED
      BY <1>0, <2>2, <2>5, <3>2, <3>3, <3>4
  <2> QED
    BY <2>3, <2>4, <2>5
<1>6. ASSUME Platform!Retire PROVE OneTaken'
  <2>1. PICK c \in Platform!PlanCodes : plan[c] = "ACTIVE" /\ plan' = [plan EXCEPT ![c] = "RETIRED"]
    BY <1>6 DEF Platform!Retire, Platform!ActivePlans
  <2>2. UNCHANGED req
    BY <1>6 DEF Platform!Retire
  <2> QED
    BY <1>0, <2>1, <2>2
<1>7. CASE Platform!Tick \/ UNCHANGED Platform!vars
  BY <1>1, <1>7 DEF Platform!Tick, Platform!vars
<1> QED
  BY <1>2, <1>3, <1>4, <1>5, <1>6, <1>7 DEF Platform!PlansNext, Platform!Interrupt

\* A module that is instantiated counts as this one does.
LEMMA PlatformCounts == \A S : Platform!Cardinality(S) = Cardinality(S)
  BY DEF Platform!Cardinality, Cardinality

LEMMA OneTakenSuffices ==
  ASSUME OneTaken
  PROVE  Platform!OneDefaultPlan
<1> DEFINE S == Platform!ActivePlans \cap Platform!DefaultCodes
<1>1. \A c, d \in S : c = d
  BY DEF OneTaken, Platform!ActivePlans
<1>2. CASE S = {}
  BY <1>2, FS_EmptySet, PlatformCounts DEF Platform!OneDefaultPlan
<1>3. ASSUME NEW c \in S PROVE Platform!OneDefaultPlan
  <2>1. S = {c}
    BY <1>1
  <2> QED
    BY <2>1, FS_Singleton, PlatformCounts DEF Platform!OneDefaultPlan
<1> QED
  BY <1>2, <1>3
-----------------------------------------------------------------------------
\* A firm whose trial is said to be over was read on trial; one that paid is on trial no more,
\* unless an event was written over another.
PaidOnce ==
    /\ Platform!PaidNeverExpires
    /\ \A w \in Workers :
        Platform!At(w, "event_write") /\ req[w].kind = "TRIAL_EXPIRED" => req[w].was = "TRIAL"

LEMMA PaidOnceKept ==
  ASSUME Platform!TypeOK, PaidOnce, \/ Platform!SubscriptionsNext \/ Platform!Interrupt
                                   \/ UNCHANGED Platform!vars
  PROVE  PaidOnce'
<1> USE DEF PaidOnce, Platform!PaidNeverExpires, Platform!At, Platform!Goto, Platform!Finish, Platform!Idle
<1>0. req \in [Workers -> Platform!Request]
  BY DEF Platform!TypeOK
<1>1. ASSUME NEW w \in Workers, NEW kind \in Platform!Kinds, Platform!EventRead(w, kind)
      PROVE  PaidOnce'
  BY <1>0, <1>1 DEF Platform!EventRead, Platform!Subscribing, Platform!Due
<1>2. ASSUME NEW w \in Workers, Platform!EventWrite(w) PROVE PaidOnce'
  <2>1. req[w] \in [pc : {"event_write"}, kind : Platform!Kinds, was : Platform!Statuses]
    BY <1>0, <1>2 DEF Platform!EventWrite, Platform!Request
  <2>2. paid' /\ ~overtaken' => subscription' \in {"ACTIVE", "PAST_DUE"}
    BY <1>2, <2>1 DEF Platform!EventWrite, Platform!StatusAfter, Platform!Kinds
  <2> QED
    BY <1>0, <1>2, <2>2 DEF Platform!EventWrite
<1>3. CASE Platform!Maintain
  BY <1>3 DEF Platform!Maintain, Platform!Due
<1>4. ASSUME NEW w \in Workers, Platform!Crash(w) PROVE PaidOnce'
  BY <1>0, <1>4 DEF Platform!Crash, Platform!Subscribing
<1>5. CASE Platform!Tick \/ UNCHANGED Platform!vars
  BY <1>5 DEF Platform!Tick, Platform!vars, Platform!Subscribing
<1> QED
  BY <1>1, <1>2, <1>3, <1>4, <1>5 DEF Platform!SubscriptionsNext, Platform!Interrupt
-----------------------------------------------------------------------------
LEMMA ClosureKept ==
  ASSUME Platform!TypeOK, \A w \in Workers : Decided(w), Platform!ClosureHolds,
         Platform!LifecycleNext \/ Platform!Interrupt \/ UNCHANGED Platform!vars
  PROVE  Platform!ClosureHolds'
<1> USE DEF Platform!ClosureHolds
<1>0. life \in Platform!LifeRow /\ closure \in {None} \cup [at : Nat, exported : Nat]
  BY DEF Platform!TypeOK
<1>1. CASE UNCHANGED <<life, closure, overtaken>>
  BY <1>1
<1>2. ASSUME NEW w \in Workers, Platform!ExportWrite(w) PROVE Platform!ClosureHolds'
  BY <1>0, <1>2 DEF Platform!ExportWrite, Platform!LifeRow, Platform!Subscribing
<1>3. ASSUME NEW w \in Workers, Platform!LifeWrite(w) PROVE Platform!ClosureHolds'
  <2>1. req[w] \in [pc : {"life_write"}, was : Platform!Lives, to : Platform!Lives,
                    retention : Nat \cup {None}, at : Nat, exported : Nat \cup {None}]
    BY <1>3 DEF Platform!LifeWrite, Platform!TypeOK, Platform!Request, Platform!At, Platform!Idle
  <2>2. Decided(w) /\ Platform!At(w, "life_write")
    BY <1>3 DEF Platform!LifeWrite
  <2>3. life'.status = req[w].to /\ life'.retention = req[w].retention
    BY <1>0, <1>3 DEF Platform!LifeWrite, Platform!LifeRow
  <2>4. CASE req[w].to = "CLOSED"
    BY <1>3, <2>1, <2>2, <2>3, <2>4 DEF Platform!LifeWrite, Decided
  <2>5. CASE req[w].to # "CLOSED"
    BY <1>0, <1>3, <2>1, <2>2, <2>5 DEF Platform!LifeWrite, Decided
  <2> QED
    BY <2>4, <2>5
<1> QED
  BY <1>1, <1>2, <1>3 DEF Platform!LifecycleNext, Platform!Interrupt, Platform!Tick, Platform!Crash,
     Platform!vars, Platform!Subscribing, Platform!Living, Platform!ExportRead, Platform!LifeRead,
     Platform!GrantRead, Platform!GrantInsert, Platform!RecordsGrant, Platform!RecordsLife,
     Platform!RecordsRead, Platform!Revoke

\* The tables of the desk keep their types, whoever closes a firm has checked what a closure
\* stands on, and the desk's own invariant holds.
ControlPlane ==
    /\ desk \in {"plans", "subscriptions", "lifecycle"} =>
        Platform!TypeOK /\ \A w \in Workers : Decided(w)
    /\ desk = "plans" => OneTaken
    /\ desk = "subscriptions" => PaidOnce
    /\ desk = "lifecycle" => Platform!ClosureHolds

LEMMA ControlPlaneStarts ==
  ASSUME Init
  PROVE  ControlPlane
<1>1. CASE desk \in {"plans", "subscriptions", "lifecycle"}
  <2>1. Platform!Init
    BY <1>1, DeskStarts
  <2>2. /\ {Defaults, TrialEnds, MaxTime} \subseteq Nat
        /\ None \notin Nat \cup Grants
    BY BackOfficeConstants DEF Platform!PlatformConstants
  <2>3. Platform!TypeOK
    BY <2>1, <2>2 DEF Platform!Init, Platform!TypeOK, Platform!PlanRow, Platform!Statuses,
       Platform!LifeRow, Platform!Lives, Platform!GrantRow, Platform!Request
  <2>4. \A w \in Workers : Decided(w)
    BY <2>1 DEF Platform!Init, Decided, Platform!At, Platform!Idle
  <2>5. OneTaken
    BY <2>1 DEF Platform!Init, OneTaken, Platform!At, Platform!Idle, Platform!PlanCodes,
       Platform!DefaultCodes
  <2>6. PaidOnce
    BY <2>1 DEF Platform!Init, PaidOnce, Platform!PaidNeverExpires, Platform!At, Platform!Idle
  <2>7. Platform!ClosureHolds
    BY <2>1 DEF Platform!Init, Platform!ClosureHolds
  <2> QED
    BY <2>3, <2>4, <2>5, <2>6, <2>7 DEF ControlPlane
<1>2. CASE desk \notin {"plans", "subscriptions", "lifecycle"}
  BY <1>2 DEF ControlPlane
<1> QED
  BY <1>1, <1>2

LEMMA ControlPlaneKept ==
  ASSUME ControlPlane, [Next]_vars
  PROVE  ControlPlane'
<1>1. desk' = desk
  BY DeskSteps
<1>2. CASE desk \in {"plans", "subscriptions", "lifecycle"}
  <2>1. Platform!TypeOK /\ \A w \in Workers : Decided(w)
    BY <1>2 DEF ControlPlane
  <2>2. Platform!Next \/ UNCHANGED Platform!vars
    BY <1>2, DeskSteps DEF Platform!Next
  <2>3. Platform!TypeOK' /\ \A w \in Workers : Decided(w)'
    BY <2>1, <2>2, PlatformTypes, DecisionsStand
  <2>4. CASE desk = "plans"
    BY <1>1, <2>1, <2>3, <2>4, DeskSteps, OneTakenKept DEF ControlPlane
  <2>5. CASE desk = "subscriptions"
    BY <1>1, <2>1, <2>3, <2>5, DeskSteps, PaidOnceKept DEF ControlPlane
  <2>6. CASE desk = "lifecycle"
    BY <1>1, <2>1, <2>3, <2>6, DeskSteps, ClosureKept DEF ControlPlane
  <2> QED
    BY <1>2, <2>4, <2>5, <2>6
<1>3. CASE desk \notin {"plans", "subscriptions", "lifecycle"}
  BY <1>1, <1>3 DEF ControlPlane
<1> QED
  BY <1>2, <1>3

\* At most one of the plans a firm may be given by default is active, a firm that paid does not
\* expire, and a closed firm was exported within a day and is kept beyond it: however the reads
\* and writes of operators, the maintenance run and crashes interleave (platform.ts).
THEOREM ControlPlaneAlwaysHolds == Spec => []ControlPlaneHolds
<1>1. ControlPlane => ControlPlaneHolds
  BY OneTakenSuffices DEF ControlPlane, ControlPlaneHolds, PaidOnce
<1> QED
  BY <1>1, ControlPlaneStarts, ControlPlaneKept, PTL DEF Spec
-----------------------------------------------------------------------------
(***************************************************************************)
(* The budgets in front of the doors (RateLimit).                           *)
(***************************************************************************)

LEMMA DoorConstants ==
  /\ {MaxAccount, MaxAddress, Window} \subseteq Nat \ {0} /\ {MaxTime, MaxHits} \subseteq Nat
  /\ Address \notin Accounts /\ Address \in RateLimit!Keys
  /\ \A a : RateLimit!Spent(a) = {a, Address} /\ RateLimit!GivenBack(a) = {a, Address}
  BY BackOfficeConstants DEF RateLimit!RateLimitConstants, RateLimit!Keys, RateLimit!Spent,
     RateLimit!GivenBack

\* An attempt that has begun, with what it carries.
Attempt == [pc : {"spend", "judge", "forgive"}, account : Accounts, left : SUBSET RateLimit!Keys,
            refused : BOOLEAN, window : Nat]

LEMMA AttemptShape ==
  ASSUME RateLimit!TypeOK, NEW w \in Workers, req[w] # RateLimit!Idle
  PROVE  req[w] \in Attempt
  BY DEF RateLimit!TypeOK, RateLimit!Request, Attempt

LEMMA RowsStayRows ==
  ASSUME RateLimit!TypeOK, NEW k \in RateLimit!Keys
  PROVE  /\ RateLimit!Hit(k) \in [start : Nat, hits : Nat]
         /\ RateLimit!Forgiven(k) \in [start : Nat, hits : Nat]
<1>1. now \in Nat /\ limit[k] \in [start : Nat, hits : Nat]
  BY DEF RateLimit!TypeOK
<1>2. RateLimit!Hit(k) \in [start : Nat, hits : Nat]
  BY <1>1 DEF RateLimit!Hit
<1>3. RateLimit!Forgiven(k) \in [start : Nat, hits : Nat]
  BY <1>1 DEF RateLimit!Forgiven, RateLimit!NoRow
<1> QED
  BY <1>2, <1>3

LEMMA RateTypes ==
  ASSUME RateLimit!TypeOK, RateLimit!Next \/ UNCHANGED RateLimit!vars
  PROVE  RateLimit!TypeOK'
<1> USE DEF RateLimit!Goto, RateLimit!Finish, RateLimit!History, RateLimit!At
<1>0. /\ now \in Nat /\ limit \in [RateLimit!Keys -> [start : Nat, hits : Nat]]
      /\ req \in [Workers -> RateLimit!Request]
      /\ failed \in Nat /\ lost \in Nat /\ late \in Nat
      /\ RateLimit!Idle \in RateLimit!Request /\ Attempt \subseteq RateLimit!Request
  BY DEF RateLimit!TypeOK, RateLimit!Request, Attempt
<1>1. ASSUME NEW w \in Workers, NEW a \in Accounts, RateLimit!Arrive(w, a) PROVE RateLimit!TypeOK'
  <2>1. [pc |-> "spend", account |-> a, left |-> RateLimit!Spent(a), refused |-> FALSE, window |-> 0]
            \in Attempt
    BY DoorConstants DEF Attempt, RateLimit!Keys
  <2> QED
    BY <1>0, <1>1, <2>1 DEF RateLimit!Arrive, RateLimit!TypeOK
<1>2. ASSUME NEW w \in Workers, NEW k \in RateLimit!Keys, RateLimit!Spend(w, k) PROVE RateLimit!TypeOK'
  <2> DEFINE row == RateLimit!Hit(k)
             denied == req[w].refused \/ row.hits > RateLimit!Max(k)
             left == req[w].left \ {k}
             window == IF k = Address THEN row.start ELSE req[w].window
             opens == k = Address /\ RateLimit!Over(k)
  <2>1. req[w] \in Attempt
    BY <1>2, AttemptShape DEF RateLimit!Spend, RateLimit!Idle
  <2>2. row \in [start : Nat, hits : Nat]
    BY RowsStayRows
  <2>3. [req[w] EXCEPT !.pc = IF left = {} THEN "judge" ELSE "spend", !.left = left,
                       !.refused = denied, !.window = window] \in Attempt
    <3>1. window \in Nat /\ left \in SUBSET RateLimit!Keys /\ denied \in BOOLEAN
      BY <2>1, <2>2 DEF Attempt
    <3> HIDE DEF window, left, denied
    <3> QED
      BY <2>1, <3>1 DEF Attempt
  <2>4. req' \in [Workers -> RateLimit!Request]
    BY <1>0, <1>2, <2>3 DEF RateLimit!Spend
  <2>5. limit' \in [RateLimit!Keys -> [start : Nat, hits : Nat]]
    BY <1>0, <1>2, <2>2 DEF RateLimit!Spend
  <2>6. failed' \in Nat /\ late' \in Nat /\ now' \in Nat /\ lost' \in Nat
    <3>1. failed' \in Nat /\ late' \in Nat /\ now' \in Nat
      BY <1>0, <1>2 DEF RateLimit!Spend
    <3>2. lost' \in {lost, 0, lost + 1, 0 + 1, lost + 0, 0 + 0}
      BY <1>2 DEF RateLimit!Spend
    <3> QED
      BY <1>0, <3>1, <3>2
  <2> QED
    BY <2>4, <2>5, <2>6 DEF RateLimit!TypeOK
<1>3. ASSUME NEW w \in Workers, RateLimit!Judge(w) PROVE RateLimit!TypeOK'
  <2>1. req[w] \in Attempt
    BY <1>3, AttemptShape DEF RateLimit!Judge, RateLimit!Idle
  <2>2. RateLimit!GivenBack(req[w].account) \in SUBSET RateLimit!Keys
    BY <2>1, DoorConstants DEF Attempt, RateLimit!Keys
  <2>3. [req[w] EXCEPT !.pc = "forgive", !.left = RateLimit!GivenBack(req[w].account)] \in Attempt
    BY <2>1, <2>2 DEF Attempt
  <2> QED
    BY <1>0, <1>3, <2>3 DEF RateLimit!Judge, RateLimit!TypeOK
<1>4. ASSUME NEW w \in Workers, NEW k \in RateLimit!Keys, RateLimit!GiveBack(w, k) PROVE RateLimit!TypeOK'
  <2>1. req[w] \in Attempt
    BY <1>4, AttemptShape DEF RateLimit!GiveBack, RateLimit!Idle
  <2>2. RateLimit!Forgiven(k) \in [start : Nat, hits : Nat]
    BY RowsStayRows
  <2>3. [req[w] EXCEPT !.left = req[w].left \ {k}] \in Attempt
    BY <2>1 DEF Attempt
  <2>4. req' \in [Workers -> RateLimit!Request]
    BY <1>0, <1>4, <2>3 DEF RateLimit!GiveBack
  <2>5. limit' \in [RateLimit!Keys -> [start : Nat, hits : Nat]]
    BY <1>0, <1>4, <2>2 DEF RateLimit!GiveBack
  <2>6. failed' \in Nat /\ late' \in Nat /\ now' \in Nat /\ lost' \in Nat
    BY <1>0, <1>4 DEF RateLimit!GiveBack
  <2> QED
    BY <2>4, <2>5, <2>6 DEF RateLimit!TypeOK
<1>5. ASSUME NEW w \in Workers, RateLimit!Crash(w) PROVE RateLimit!TypeOK'
  BY <1>0, <1>5 DEF RateLimit!Crash, RateLimit!TypeOK
<1>6. CASE RateLimit!Tick \/ UNCHANGED RateLimit!vars
  BY <1>0, <1>6 DEF RateLimit!Tick, RateLimit!vars, RateLimit!TypeOK
<1> QED
  BY <1>1, <1>2, <1>3, <1>4, <1>5, <1>6 DEF RateLimit!Next

\* No window opens before the last, and a request holds no hit of one still to come.
Windows ==
    /\ now >= 1
    /\ limit[Address].start <= now
    /\ \A w \in Workers :
        req[w] # RateLimit!Idle => req[w].window <= limit[Address].start

LEMMA WindowOver ==
  ASSUME RateLimit!TypeOK, Windows, RateLimit!Over(Address)
  PROVE  limit[Address].start < now
<1>1. /\ now \in Nat /\ limit[Address] \in [start : Nat, hits : Nat]
      /\ Window \in Nat \ {0}
  BY DoorConstants DEF RateLimit!TypeOK
<1> QED
  BY <1>1 DEF Windows, RateLimit!Over, RateLimit!NoRow

LEMMA WindowsKept ==
  ASSUME RateLimit!TypeOK, Windows, RateLimit!Next \/ UNCHANGED RateLimit!vars
  PROVE  Windows'
<1> USE DEF RateLimit!Goto, RateLimit!Finish, RateLimit!At
<1>0. /\ now \in Nat /\ limit \in [RateLimit!Keys -> [start : Nat, hits : Nat]]
      /\ req \in [Workers -> RateLimit!Request] /\ Address \in RateLimit!Keys
  BY DoorConstants DEF RateLimit!TypeOK
<1>1. ASSUME NEW w \in Workers, NEW r,
             req' = [req EXCEPT ![w] = r], r = RateLimit!Idle \/ r.window <= limit'[Address].start,
             UNCHANGED now, limit'[Address].start <= now,
             limit[Address].start <= limit'[Address].start, limit'[Address].start \in Nat
      PROVE  Windows'
  <2>1. ASSUME NEW v \in Workers, req'[v] # RateLimit!Idle
        PROVE  req'[v].window <= limit'[Address].start
    <3>1. CASE v = w
      BY <1>0, <1>1, <2>1, <3>1
    <3>2. CASE v # w
      <4>1. req'[v] = req[v]
        BY <1>0, <1>1, <3>2
      <4>2. req[v].window \in Nat /\ req[v].window <= limit[Address].start
        BY <2>1, <4>1, AttemptShape DEF Windows, Attempt
      <4>3. limit[Address].start \in Nat
        BY <1>0
      <4> QED
        BY <1>1, <4>1, <4>2, <4>3
    <3> QED
      BY <3>1, <3>2
  <2> QED
    BY <1>1, <2>1 DEF Windows
<1>2. ASSUME NEW w \in Workers, NEW a \in Accounts, RateLimit!Arrive(w, a) PROVE Windows'
  <2> DEFINE arrived == [pc |-> "spend", account |-> a, left |-> RateLimit!Spent(a),
                         refused |-> FALSE, window |-> 0]
  <2>1. arrived.window = 0
    OBVIOUS
  <2>2. req' = [req EXCEPT ![w] = arrived] /\ UNCHANGED <<now, limit>>
    BY <1>2 DEF RateLimit!Arrive
  <2> HIDE DEF arrived
  <2> QED
    BY <1>0, <1>1, <2>1, <2>2 DEF Windows
<1>3. ASSUME NEW w \in Workers, NEW k \in RateLimit!Keys, RateLimit!Spend(w, k) PROVE Windows'
  <2> DEFINE window == IF k = Address THEN RateLimit!Hit(k).start ELSE req[w].window
  <2>1. req[w] \in Attempt /\ req[w].window <= limit[Address].start
    BY <1>3, AttemptShape DEF RateLimit!Spend, RateLimit!Idle, Windows
  <2> DEFINE left == req[w].left \ {k}
             denied == req[w].refused \/ RateLimit!Hit(k).hits > RateLimit!Max(k)
             goes == [req[w] EXCEPT !.pc = IF left = {} THEN "judge" ELSE "spend", !.left = left,
                                    !.refused = denied, !.window = window]
  <2>6. goes.window = window
    BY <2>1 DEF Attempt
  <2>7. req' = [req EXCEPT ![w] = RateLimit!Idle] \/ req' = [req EXCEPT ![w] = goes]
    BY <1>3 DEF RateLimit!Spend
  <2> HIDE DEF goes
  <2>2. PICK r : /\ req' = [req EXCEPT ![w] = r]
                 /\ r = RateLimit!Idle \/ r.window = window
    BY <2>6, <2>7
  <2> HIDE DEF window
  <2>3. /\ limit' = [limit EXCEPT ![k] = RateLimit!Hit(k)] /\ UNCHANGED now
    BY <1>3 DEF RateLimit!Spend
  <2>4. CASE k = Address
    <3>1. /\ limit'[Address].start \in Nat /\ limit'[Address].start <= now
          /\ limit[Address].start <= limit'[Address].start
          /\ window = limit'[Address].start
      BY <1>0, <2>3, <2>4, WindowOver DEF RateLimit!Hit, Windows, window
    <3>2. r = RateLimit!Idle \/ r.window <= limit'[Address].start
      BY <2>2, <3>1
    <3>3. UNCHANGED now
      BY <2>3
    <3> QED
      BY <1>1, <2>2, <3>1, <3>2, <3>3
  <2>5. CASE k # Address
    <3>1. limit'[Address] = limit[Address] /\ window = req[w].window
      BY <1>0, <2>3, <2>5 DEF window
    <3> QED
      BY <1>0, <1>1, <2>1, <2>2, <2>3, <3>1 DEF Windows
  <2> QED
    BY <2>4, <2>5
<1>4. ASSUME NEW w \in Workers, RateLimit!Judge(w) PROVE Windows'
  <2>1. req[w] \in Attempt /\ req[w].window <= limit[Address].start
    BY <1>4, AttemptShape DEF RateLimit!Judge, RateLimit!Idle, Windows
  <2>2. PICK r : /\ req' = [req EXCEPT ![w] = r]
                 /\ r = RateLimit!Idle \/ r.window = req[w].window
    BY <1>4, <2>1 DEF RateLimit!Judge, Attempt
  <2> QED
    BY <1>0, <1>1, <1>4, <2>1, <2>2 DEF RateLimit!Judge, Windows
<1>5. ASSUME NEW w \in Workers, NEW k \in RateLimit!Keys, RateLimit!GiveBack(w, k) PROVE Windows'
  <2>1. req[w] \in Attempt /\ req[w].window <= limit[Address].start
    BY <1>5, AttemptShape DEF RateLimit!GiveBack, RateLimit!Idle, Windows
  <2>2. PICK r : /\ req' = [req EXCEPT ![w] = r]
                 /\ r = RateLimit!Idle \/ r.window = req[w].window
    BY <1>5, <2>1 DEF RateLimit!GiveBack, Attempt
  <2>3. limit'[Address].start = limit[Address].start /\ UNCHANGED now
    <3>1. limit' = [limit EXCEPT ![k] = RateLimit!Forgiven(k)] /\ UNCHANGED now
      BY <1>5 DEF RateLimit!GiveBack
    <3>2. k = Address => RateLimit!Forgiven(k).start = limit[k].start
      BY <1>0 DEF RateLimit!Forgiven
    <3> QED
      BY <1>0, <3>1, <3>2
  <2> QED
    BY <1>0, <1>1, <2>1, <2>2, <2>3 DEF Windows
<1>6. ASSUME NEW w \in Workers, RateLimit!Crash(w) PROVE Windows'
  BY <1>0, <1>1, <1>6 DEF RateLimit!Crash, Windows
<1>7. CASE RateLimit!Tick \/ UNCHANGED RateLimit!vars
  BY <1>0, <1>7 DEF RateLimit!Tick, RateLimit!vars, Windows
<1> QED
  BY <1>2, <1>3, <1>4, <1>5, <1>6, <1>7 DEF RateLimit!Next

\* Whether a request r holds a hit of the window of the address that began at start.
Holds(r, start) ==
    /\ r # RateLimit!Idle
    /\ r.window = start
    /\ \/ r.pc = "spend" /\ Address \notin r.left
       \/ r.pc = "judge"
       \/ r.pc = "forgive" /\ Address \in r.left

Holding == {w \in Workers : Holds(req[w], limit[Address].start)}

\* RateLimit!BudgetIsFailures, of the door that the desk has.
Budget ==
    /\ limit[Address].hits + late >= failed + Cardinality(Holding)
    /\ limit[Address].hits <= failed + Cardinality(Holding) + lost

LEMMA BudgetSuffices == Budget => RateLimit!BudgetIsFailures
<1>1. RateLimit!Cardinality({w \in Workers : RateLimit!HoldsHit(w)}) = Cardinality(Holding)
  <2>1. {w \in Workers : RateLimit!HoldsHit(w)} = Holding
    BY DEF Holding, Holds, RateLimit!HoldsHit, RateLimit!InWindow, RateLimit!At
  <2>2. \A S : RateLimit!Cardinality(S) = Cardinality(S)
    BY DEF RateLimit!Cardinality, Cardinality
  <2> QED
    BY <2>1, <2>2
<1> QED
  BY <1>1 DEF Budget, RateLimit!BudgetIsFailures

\* While the window of the address stands, a request that changes counts for itself.
LEMMA OneMoreOrLess ==
  ASSUME RateLimit!TypeOK, NEW w \in Workers, NEW r, req' = [req EXCEPT ![w] = r],
         limit'[Address].start = limit[Address].start
  PROVE  /\ Cardinality(Holding) \in Nat /\ Cardinality(Holding)' \in Nat
         /\ Holds(req[w], limit[Address].start) => Cardinality(Holding) >= 1
         /\ Cardinality(Holding)' =
              Cardinality(Holding)
                - (IF Holds(req[w], limit[Address].start) THEN 1 ELSE 0)
                + (IF Holds(r, limit[Address].start) THEN 1 ELSE 0)
<1> DEFINE rest == Holding \ {w}
<1>1. IsFiniteSet(Holding) /\ Cardinality(Holding) \in Nat
  <2>1. IsFiniteSet(Holding)
    BY FiniteTables, FS_Subset DEF Holding
  <2> QED
    BY <2>1, FS_CardinalityType
<1>2. /\ IsFiniteSet(rest) /\ Cardinality(rest) \in Nat
      /\ Cardinality(rest) = Cardinality(Holding) - IF w \in Holding THEN 1 ELSE 0
  <2>1. IsFiniteSet(rest)
    BY <1>1, FS_RemoveElement
  <2> QED
    BY <1>1, <2>1, FS_RemoveElement, FS_CardinalityType
<1>3. /\ w \in Holding <=> Holds(req[w], limit[Address].start)
      /\ Holding' = IF Holds(r, limit[Address].start) THEN rest \cup {w} ELSE rest
  <2>1. req \in [Workers -> RateLimit!Request]
    BY DEF RateLimit!TypeOK
  <2>2. req'[w] = r /\ \A v \in Workers \ {w} : req'[v] = req[v]
    BY <2>1
  <2>3. Holding' = {v \in Workers : Holds(req'[v], limit[Address].start)}
    BY DEF Holding, Holds, RateLimit!Idle
  <2>4. w \in Holding <=> Holds(req[w], limit[Address].start)
    BY DEF Holding
  <2>5. \A v \in Workers \ {w} : v \in Holding <=> v \in Holding'
    BY <2>2, <2>3 DEF Holding
  <2>6. w \in Holding' <=> Holds(r, limit[Address].start)
    BY <2>2, <2>3
  <2>7. Holding' \subseteq Workers /\ Holding \subseteq Workers
    BY <2>3 DEF Holding
  <2> HIDE DEF Holding
  <2> QED
    BY <2>4, <2>5, <2>6, <2>7
<1>4. Cardinality(Holding)' = Cardinality(Holding')
  OBVIOUS
<1>5. Cardinality(rest \cup {w}) = Cardinality(rest) + 1
  BY <1>2, FS_AddElement
<1> HIDE DEF Holding, rest
<1> QED
  BY <1>1, <1>2, <1>3, <1>4, <1>5

LEMMA BudgetKept ==
  ASSUME RateLimit!TypeOK, Windows, Budget, RateLimit!Next \/ UNCHANGED RateLimit!vars
  PROVE  Budget'
<1> USE DEF RateLimit!Goto, RateLimit!Finish, RateLimit!At
<1>0. /\ now \in Nat /\ limit \in [RateLimit!Keys -> [start : Nat, hits : Nat]]
      /\ req \in [Workers -> RateLimit!Request] /\ Address \in RateLimit!Keys
      /\ failed \in Nat /\ lost \in Nat /\ late \in Nat
      /\ limit[Address].hits \in Nat
  BY DoorConstants DEF RateLimit!TypeOK
<1> DEFINE start == limit[Address].start
           held == Cardinality(Holding)
<1>h. held \in Nat
  <2>1. IsFiniteSet(Holding)
    BY FiniteTables, FS_Subset DEF Holding
  <2> QED
    BY <2>1, FS_CardinalityType
<1>1. ASSUME NEW w \in Workers, NEW a \in Accounts, RateLimit!Arrive(w, a) PROVE Budget'
  <2> DEFINE r == [pc |-> "spend", account |-> a, left |-> RateLimit!Spent(a),
                   refused |-> FALSE, window |-> 0]
  <2>1. ~Holds(r, start) /\ ~Holds(req[w], start)
    BY <1>1, DoorConstants DEF Holds, RateLimit!Arrive
  <2>2. req' = [req EXCEPT ![w] = r] /\ UNCHANGED <<now, limit, failed, lost, late>>
    BY <1>1 DEF RateLimit!Arrive, RateLimit!History
  <2> HIDE DEF r
  <2>3. held' = held
    <3>1. limit'[Address].start = start
      BY <2>2
    <3>9. held' = held - (IF Holds(req[w], start) THEN 1 ELSE 0) + (IF Holds(r, start) THEN 1 ELSE 0)
      BY <2>2, <3>1, OneMoreOrLess
    <3> QED
      BY <1>h, <2>1, <3>9
  <2> QED
    BY <2>2, <2>3 DEF Budget
<1>3. ASSUME NEW w \in Workers, RateLimit!Judge(w) PROVE Budget'
  <2>1. req[w] \in Attempt /\ req[w].pc = "judge"
    BY <1>3, AttemptShape DEF RateLimit!Judge, RateLimit!Idle
  <2>2. Holds(req[w], start) <=> req[w].window = start
    BY <2>1 DEF Holds, RateLimit!Idle, Attempt
  <2>3. UNCHANGED <<now, limit, lost, late>>
    BY <1>3 DEF RateLimit!Judge
  <2>4. CASE /\ req' = [req EXCEPT ![w] = RateLimit!Idle]
             /\ failed' = IF RateLimit!InWindow(w) THEN failed + 1 ELSE failed
    <3>1. ~Holds(RateLimit!Idle, start)
      BY DEF Holds
    <3>2. held' = held - IF req[w].window = start THEN 1 ELSE 0
      <4>1. limit'[Address].start = start
        BY <2>3
      <4>9. held' = held - (IF Holds(req[w], start) THEN 1 ELSE 0) + (IF Holds(RateLimit!Idle, start) THEN 1 ELSE 0)
        BY <2>4, <4>1, OneMoreOrLess
      <4> QED
        BY <1>h, <4>9, <2>2, <3>1
    <3> HIDE DEF held
    <3> QED
      BY <1>0, <1>h, <2>3, <2>4, <3>2 DEF Budget, RateLimit!InWindow, held
  <2>5. CASE /\ req' = [req EXCEPT ![w] = [req[w] EXCEPT !.pc = "forgive",
                                           !.left = RateLimit!GivenBack(req[w].account)]]
             /\ UNCHANGED failed
    <3> DEFINE r == [req[w] EXCEPT !.pc = "forgive", !.left = RateLimit!GivenBack(req[w].account)]
    <3>1. Holds(r, start) <=> req[w].window = start
      BY <2>1, DoorConstants DEF Holds, RateLimit!Idle, Attempt
    <3> HIDE DEF r
    <3>2. held' = held
      <4>1. limit'[Address].start = start /\ req' = [req EXCEPT ![w] = r]
        BY <2>3, <2>5 DEF r
      <4>9. held' = held - (IF Holds(req[w], start) THEN 1 ELSE 0) + (IF Holds(r, start) THEN 1 ELSE 0)
        BY <4>1, OneMoreOrLess
      <4> QED
        BY <1>h, <4>9, <2>2, <3>1
    <3> QED
      BY <2>3, <2>5, <3>2 DEF Budget
  <2>6. RateLimit!GivenBack(req[w].account) # {}
    BY DoorConstants
  <2> QED
    BY <1>3, <2>4, <2>5, <2>6 DEF RateLimit!Judge
<1>4. ASSUME NEW w \in Workers, NEW k \in RateLimit!Keys, RateLimit!GiveBack(w, k) PROVE Budget'
  <2> DEFINE left == req[w].left \ {k}
             goes == [req[w] EXCEPT !.left = left]
  <2>1. req[w] \in Attempt /\ req[w].pc = "forgive" /\ k \in req[w].left
    BY <1>4, AttemptShape DEF RateLimit!GiveBack, RateLimit!Idle
  <2>2. goes.pc = "forgive" /\ goes.left = left /\ goes.window = req[w].window
    BY <2>1 DEF Attempt
  <2>3. /\ limit' = [limit EXCEPT ![k] = RateLimit!Forgiven(k)]
        /\ late' = IF k = Address /\ ~RateLimit!InWindow(w) THEN late + 1 ELSE late
        /\ UNCHANGED <<failed, lost>>
    BY <1>4 DEF RateLimit!GiveBack
  <2>4. PICK r : /\ req' = [req EXCEPT ![w] = r]
                 /\ r = IF left = {} THEN RateLimit!Idle ELSE goes
    BY <1>4 DEF RateLimit!GiveBack
  <2>5. Holds(r, start) <=> Address \in left /\ req[w].window = start
    BY <2>2, <2>4 DEF Holds, RateLimit!Idle
  <2>6. Holds(req[w], start) <=> Address \in req[w].left /\ req[w].window = start
    BY <2>1 DEF Holds, RateLimit!Idle
  <2>7. limit'[Address].start = start
    BY <1>0, <2>3 DEF RateLimit!Forgiven
  <2> HIDE DEF goes
  <2>8. CASE k = Address
    <3>1. limit'[Address].hits = IF limit[Address].hits > 0 THEN limit[Address].hits - 1 ELSE 0
      BY <1>0, <2>3, <2>8 DEF RateLimit!Forgiven
    <3>2. /\ held' = held - IF req[w].window = start THEN 1 ELSE 0
          /\ req[w].window = start => held >= 1
      <4>1. ~Holds(r, start) /\ (Holds(req[w], start) <=> req[w].window = start)
        BY <2>1, <2>5, <2>6, <2>8
      <4> QED
        BY <1>h, <2>4, <2>7, <4>1, OneMoreOrLess
    <3>3. late' = IF req[w].window = start THEN late ELSE late + 1
      BY <2>3, <2>8 DEF RateLimit!InWindow
    <3> HIDE DEF held, start
    <3> QED
      BY <1>0, <1>h, <2>3, <3>1, <3>2, <3>3 DEF Budget, held
  <2>9. CASE k # Address
    <3>1. held' = held
      <4>1. Holds(r, start) <=> Holds(req[w], start)
        BY <2>5, <2>6, <2>9
      <4> QED
        BY <1>h, <2>4, <2>7, <4>1, OneMoreOrLess
    <3>2. limit'[Address] = limit[Address] /\ late' = late
      BY <1>0, <2>3, <2>9
    <3> QED
      BY <2>3, <3>1, <3>2 DEF Budget
  <2> QED
    BY <2>8, <2>9
<1>5. ASSUME NEW w \in Workers, RateLimit!Crash(w) PROVE Budget'
  <2>1. /\ req' = [req EXCEPT ![w] = RateLimit!Idle] /\ UNCHANGED <<limit, failed, late>>
        /\ lost' = IF Holds(req[w], start) THEN lost + 1 ELSE lost
    BY <1>5 DEF RateLimit!Crash, RateLimit!HoldsHit, RateLimit!InWindow, Holds
  <2>2. ~Holds(RateLimit!Idle, start)
    BY DEF Holds
  <2>3. held' = held - IF Holds(req[w], start) THEN 1 ELSE 0
    <3>1. limit'[Address].start = start
      BY <2>1
    <3>9. held' = held - (IF Holds(req[w], start) THEN 1 ELSE 0) + (IF Holds(RateLimit!Idle, start) THEN 1 ELSE 0)
      BY <2>1, <3>1, OneMoreOrLess
    <3> QED
      BY <1>h, <2>2, <3>9
  <2> HIDE DEF held, start
  <2> QED
    BY <1>0, <1>h, <2>1, <2>3 DEF Budget, held
<1>6. CASE RateLimit!Tick \/ UNCHANGED RateLimit!vars
  BY <1>6 DEF RateLimit!Tick, RateLimit!vars, RateLimit!History, Budget, Holding
<1>2. ASSUME NEW w \in Workers, NEW k \in RateLimit!Keys, RateLimit!Spend(w, k) PROVE Budget'
  <2> DEFINE left == req[w].left \ {k}
             denied == req[w].refused \/ RateLimit!Hit(k).hits > RateLimit!Max(k)
             window == IF k = Address THEN RateLimit!Hit(k).start ELSE req[w].window
             goes == [req[w] EXCEPT !.pc = IF left = {} THEN "judge" ELSE "spend", !.left = left,
                                    !.refused = denied, !.window = window]
             opens == k = Address /\ RateLimit!Over(k)
             ends == left = {} /\ denied
  <2>1. req[w] \in Attempt /\ req[w].pc = "spend" /\ k \in req[w].left
    BY <1>2, AttemptShape DEF RateLimit!Spend, RateLimit!Idle
  <2>2. /\ goes.pc = IF left = {} THEN "judge" ELSE "spend"
        /\ goes.left = left /\ goes.window = window
    BY <2>1 DEF Attempt
  <2>3. /\ limit' = [limit EXCEPT ![k] = RateLimit!Hit(k)]
        /\ failed' = IF opens THEN 0 ELSE failed
        /\ late' = IF opens THEN 0 ELSE late
        /\ lost' = (IF opens THEN 0 ELSE lost) + (IF ends /\ (opens \/ window = start) THEN 1 ELSE 0)
    BY <1>2 DEF RateLimit!Spend
  <2>4. PICK r : /\ req' = [req EXCEPT ![w] = r]
                 /\ r = IF ends THEN RateLimit!Idle ELSE goes
    BY <1>2 DEF RateLimit!Spend
  <2> HIDE DEF goes
  <2>5. \A s : Holds(r, s) <=> ~ends /\ window = s /\ Address \notin left
    BY <2>2, <2>4 DEF Holds, RateLimit!Idle
  <2>6. Holds(req[w], start) <=> Address \notin req[w].left /\ req[w].window = start
    BY <2>1 DEF Holds, RateLimit!Idle
  <2>7. CASE k # Address
    <3>1. limit'[Address] = limit[Address] /\ failed' = failed /\ late' = late /\ window = req[w].window
      BY <1>0, <2>3, <2>7
    <3>2. lost' = lost + IF ends /\ window = start THEN 1 ELSE 0
      BY <1>0, <2>3, <2>7
    <3>3. held' = held - IF ends /\ window = start THEN 1 ELSE 0
      <4>1. /\ Holds(r, start) <=> ~ends /\ Holds(req[w], start)
            /\ ends => Address \notin req[w].left
        BY <2>5, <2>6, <2>7, <3>1
      <4>2. ends => (Holds(req[w], start) <=> window = start)
        BY <2>6, <3>1, <4>1
      <4> HIDE DEF ends, window
      <4> QED
        <5>1. limit'[Address].start = start
          BY <3>1
        <5>9. held' = held - (IF Holds(req[w], start) THEN 1 ELSE 0) + (IF Holds(r, start) THEN 1 ELSE 0)
          BY <2>4, <5>1, OneMoreOrLess
        <5> QED
          BY <1>h, <5>9, <4>1, <4>2
    <3> HIDE DEF held, start, ends, window
    <3> QED
      BY <1>0, <1>h, <3>1, <3>2, <3>3 DEF Budget, held
  <2>8. CASE k = Address /\ ~RateLimit!Over(k)
    <3>1. /\ limit'[Address].start = start /\ limit'[Address].hits = limit[Address].hits + 1
          /\ window = start /\ failed' = failed /\ late' = late
      BY <1>0, <2>3, <2>8 DEF RateLimit!Hit
    <3>2. lost' = lost + IF ends THEN 1 ELSE 0
      BY <1>0, <2>3, <2>8, <3>1
    <3>3. held' = held + IF ends THEN 0 ELSE 1
      <4>1. /\ Holds(r, start) <=> ~ends
            /\ ~Holds(req[w], start)
        BY <2>1, <2>5, <2>6, <2>8, <3>1
      <4> HIDE DEF ends, window
      <4> QED
        <5>1. limit'[Address].start = start
          BY <3>1
        <5>9. held' = held - (IF Holds(req[w], start) THEN 1 ELSE 0) + (IF Holds(r, start) THEN 1 ELSE 0)
          BY <2>4, <5>1, OneMoreOrLess
        <5> QED
          BY <1>h, <5>9, <4>1
    <3> HIDE DEF held, start, ends, window
    <3> QED
      BY <1>0, <1>h, <3>1, <3>2, <3>3 DEF Budget, held
  <2>9. CASE k = Address /\ RateLimit!Over(k)
    <3>1. /\ limit'[Address].start = now /\ limit'[Address].hits = 1 /\ window = now
          /\ failed' = 0 /\ late' = 0 /\ lost' = IF ends THEN 1 ELSE 0
      BY <1>0, <2>3, <2>9 DEF RateLimit!Hit
    <3>2. start < now
      BY <2>9, WindowOver
    <3>3. ASSUME NEW v \in Workers \ {w} PROVE ~Holds(req[v], now)
      <4>1. req[v] # RateLimit!Idle => req[v].window \in Nat /\ req[v].window <= start
        BY AttemptShape DEF Windows, Attempt
      <4>2. start \in Nat
        BY <1>0
      <4> HIDE DEF start
      <4> QED
        BY <1>0, <3>2, <4>1, <4>2 DEF Holds
    <3>4. Holds(r, now) <=> ~ends
      BY <2>5, <2>9, <3>1
    <3>5. Holding' = IF ends THEN {} ELSE {w}
      <4>1. Holding' = {v \in Workers : Holds(req'[v], now)}
        BY <3>1 DEF Holding, Holds, RateLimit!Idle
      <4>2. req'[w] = r /\ \A v \in Workers \ {w} : req'[v] = req[v]
        BY <1>0, <2>4
      <4> HIDE DEF ends
      <4> QED
        BY <3>3, <3>4, <4>1, <4>2
    <3>6. held' = IF ends THEN 0 ELSE 1
      <4>1. held' = Cardinality(Holding')
        OBVIOUS
      <4> HIDE DEF ends, Holding
      <4> QED
        BY <3>5, <4>1, FS_EmptySet, FS_Singleton
    <3> HIDE DEF held, ends
    <3> QED
      BY <3>1, <3>6 DEF Budget, held
  <2> QED
    BY <2>7, <2>8, <2>9
<1> QED
  BY <1>1, <1>2, <1>3, <1>4, <1>5, <1>6 DEF RateLimit!Next

\* The budget of the address, with the windows it is counted in.
Doors == desk = "doors" => RateLimit!TypeOK /\ Windows /\ Budget

LEMMA DoorsStart ==
  ASSUME Init
  PROVE  Doors
<1> SUFFICES ASSUME desk = "doors" PROVE RateLimit!TypeOK /\ Windows /\ Budget
  BY DEF Doors
<1>1. RateLimit!Init
  BY DeskStarts
<1>2. RateLimit!TypeOK /\ Windows
  BY <1>1, DoorConstants DEF RateLimit!Init, RateLimit!TypeOK, RateLimit!NoRow, RateLimit!Request,
     RateLimit!Idle, Windows
<1>3. Holding = {}
  BY <1>1 DEF RateLimit!Init, Holding, Holds
<1>4. Cardinality(Holding) = 0
  BY <1>3, FS_EmptySet
<1>5. limit[Address].hits = 0
  BY <1>1, DoorConstants DEF RateLimit!Init, RateLimit!NoRow
<1>6. Budget
  BY <1>1, <1>4, <1>5 DEF RateLimit!Init, Budget
<1> QED
  BY <1>2, <1>6

LEMMA DoorsKept ==
  ASSUME Doors, [Next]_vars
  PROVE  Doors'
<1>1. desk' = desk
  BY DeskSteps
<1>2. CASE desk = "doors"
  <2>1. RateLimit!TypeOK /\ Windows /\ Budget
    BY <1>2 DEF Doors
  <2>2. RateLimit!Next \/ UNCHANGED RateLimit!vars
    BY <1>2, DeskSteps
  <2> QED
    BY <1>1, <2>1, <2>2, RateTypes, WindowsKept, BudgetKept DEF Doors
<1>3. CASE desk # "doors"
  BY <1>1, <1>3 DEF Doors
<1> QED
  BY <1>2, <1>3

\* What the budget of an address says was spent is what its failures, the attempts under way and
\* the lost ones account for, whatever the interleaving of the attempts behind it and however
\* often the window closes between the hit and the refund (rate-limit.ts, 0006 and 0012).
THEOREM BudgetAlwaysFailures == Spec => []BudgetIsFailures
<1>1. Doors => BudgetIsFailures
  BY BudgetSuffices DEF Doors, BudgetIsFailures
<1> QED
  BY <1>1, DoorsStart, DoorsKept, PTL DEF Spec
-----------------------------------------------------------------------------
(***************************************************************************)
(* Vendors and their bills (Purchases).                                     *)
(***************************************************************************)

LEMMA PurchaseConstants ==
  /\ {SingleLimit, AnnualLimit, AnnualLimitJ, YearLength} \subseteq Nat \ {0}
  /\ {ShortLimit, LongLimit, BillTime} \subseteq Nat /\ Amounts \subseteq Nat /\ Percents \subseteq Nat
  /\ Vendors \subseteq Purchases!Vendor /\ Reverse \subseteq BOOLEAN
  /\ Asked \subseteq Purchases!Sections
  /\ None \notin Nat \cup Purchases!Bill
  BY BackOfficeConstants DEF Purchases!PurchasesConstants, Purchases!Vendor

\* The taxable values in a table of bills.
Taxables(rows) == [b \in Bills |-> rows[b].taxable]

LEMMA SumOfBills ==
  ASSUME NEW rows, NEW S \in SUBSET Bills
  PROVE  Purchases!MapThenSumSet(LAMBDA b : rows[b].taxable, S) = SumOver(Taxables(rows), S)
<1> DEFINE Adds(g) == g = [s \in SUBSET S |->
                IF s = {} THEN 0
                ELSE rows[CHOOSE x \in s : TRUE].taxable + g[s \ {CHOOSE x \in s : TRUE}]]
<1>1. IsFiniteSet(S)
  BY FiniteTables, FS_Subset
<1>2. \A g : Adds(g) <=> Tabulates(g, Taxables(rows), S)
  BY AnyIn DEF Tabulates, AnyOf, Taxables
<1>3. Purchases!MapThenSumSet(LAMBDA b : rows[b].taxable, S) = (CHOOSE g : Adds(g))[S]
  BY DEF Purchases!MapThenSumSet, Purchases!MapThenFoldSet
<1>4. \E g : Tabulates(g, Taxables(rows), S)
  BY <1>1, TableExists
<1> HIDE DEF Adds
<1>5. Tabulates(CHOOSE g : Adds(g), Taxables(rows), S)
  BY <1>2, <1>4
<1> QED
  BY <1>1, <1>3, <1>5, SumTabulated

\* So it is before a step and after it.
LEMMA TaxableIsSum ==
  ASSUME NEW S \in SUBSET Bills
  PROVE  Purchases!TaxableOf(S) = SumOver(Taxables(bill), S)
  BY SumOfBills DEF Purchases!TaxableOf

LEMMA BillTotals ==
  ASSUME NEW rows, NEW S \in SUBSET Bills, \A b \in S : rows[b] \in Purchases!Bill
  PROVE  /\ IsFiniteSet(S) /\ \A b \in S : Taxables(rows)[b] \in Nat
         /\ SumOver(Taxables(rows), S) \in Nat
<1>1. IsFiniteSet(S)
  BY FiniteTables, FS_Subset
<1>2. ASSUME NEW b \in S PROVE Taxables(rows)[b] \in Nat
  <2>1. rows[b].taxable \in Amounts
    BY DEF Purchases!Bill
  <2>2. Amounts \subseteq Nat
    BY BackOfficeConstants DEF Purchases!PurchasesConstants
  <2> QED
    BY <2>1, <2>2 DEF Taxables
<1> QED
  BY <1>1, <1>2, SumType

Recording == [pc : {"bill_insert"}, taxable : Amounts, date : Nat, section : Purchases!Sections,
              reverse : BOOLEAN, billed : Nat]

Settling == [pc : {"pay_write"}, bill : Bills, on : Nat]

\* Tax deducted is a whole per cent of what is billed, and none of nothing.
LEMMA Rates ==
  ASSUME NEW r \in Recording, NEW v \in Purchases!Vendor
  PROVE  /\ Purchases!TdsRate(r.section, r.taxable, v, r.billed) \in {0, 1, 2, 10, 20}
         /\ v.pan /\ r.section = "194C"
              /\ Purchases!TdsRate(r.section, r.taxable, v, r.billed) = 0
              => r.taxable < SingleLimit /\ r.billed + r.taxable < AnnualLimit
         /\ v.pan /\ r.section = "194J"
              /\ Purchases!TdsRate(r.section, r.taxable, v, r.billed) = 0
              => r.billed + r.taxable < AnnualLimitJ
<1>1. r.section \in {"194C", "194J", "NONE"} /\ v.pan \in BOOLEAN
  BY DEF Recording, Purchases!Sections, Purchases!Vendor
<1> QED
  BY <1>1 DEF Purchases!TdsRate, Purchases!WithThis

LEMMA PurchaseRequests ==
  ASSUME Purchases!TypeOK, NEW w \in Workers
  PROVE  /\ req[w].pc = "bill_insert" => req[w] \in Recording
         /\ req[w].pc = "pay_write" => req[w] \in Settling
  BY DEF Purchases!TypeOK, Purchases!Request, Purchases!Idle, Recording, Settling

LEMMA Products ==
  ASSUME NEW m \in Nat, NEW n \in Nat
  PROVE  m * n \in Nat
  OBVIOUS

\* The row that a request inserts.
RowOf(r, percent) ==
    LET tds == r.taxable * Purchases!TdsRate(r.section, r.taxable, vendor, r.billed) IN
    [taxable |-> r.taxable, date |-> r.date, section |-> r.section, tds |-> tds,
     gst |-> r.taxable * percent, reverse |-> r.reverse,
     payable |-> Purchases!Payable(r.taxable, percent, r.reverse, tds), paidOn |-> None]

LEMMA RowIsBill ==
  ASSUME vendor \in Purchases!Vendor, NEW r \in Recording, NEW percent \in Percents
  PROVE  /\ RowOf(r, percent) \in Purchases!Bill /\ RowOf(r, percent) # None
         /\ RowOf(r, percent).taxable = r.taxable /\ RowOf(r, percent).section = r.section
         /\ RowOf(r, percent).paidOn = None
         /\ RowOf(r, percent).tds =
                r.taxable * Purchases!TdsRate(r.section, r.taxable, vendor, r.billed)
<1> DEFINE tds == r.taxable * Purchases!TdsRate(r.section, r.taxable, vendor, r.billed)
<1>1. r.taxable \in Nat /\ percent \in Nat
  BY PurchaseConstants DEF Recording
<1>2. tds \in Nat
  <2>1. Purchases!TdsRate(r.section, r.taxable, vendor, r.billed) \in {0, 1, 2, 10, 20}
    BY Rates
  <2> QED
    BY <1>1, <2>1, Products
<1>3. r.taxable * percent \in Nat
  BY <1>1, Products
<1> HIDE DEF tds
<1>4. Purchases!Payable(r.taxable, percent, r.reverse, tds) \in Int
  BY <1>1, <1>2, <1>3 DEF Purchases!Payable
<1>5. RowOf(r, percent) =
        [taxable |-> r.taxable, date |-> r.date, section |-> r.section, tds |-> tds,
         gst |-> r.taxable * percent, reverse |-> r.reverse,
         payable |-> Purchases!Payable(r.taxable, percent, r.reverse, tds), paidOn |-> None]
  BY DEF RowOf, tds
<1>6. RowOf(r, percent) \in Purchases!Bill
  BY <1>2, <1>3, <1>4, <1>5 DEF Purchases!Bill, Recording
<1> QED
  BY <1>5, <1>6, PurchaseConstants DEF tds

LEMMA BilledIsNumber == Purchases!TypeOK =>
    /\ Purchases!Billed = SumOver(Taxables(bill), Purchases!Recorded)
    /\ Purchases!Billed \in Nat
<1> SUFFICES ASSUME Purchases!TypeOK
    PROVE  /\ Purchases!Billed = SumOver(Taxables(bill), Purchases!Recorded)
           /\ Purchases!Billed \in Nat
  OBVIOUS
<1>1. Purchases!Recorded \in SUBSET Bills /\ \A b \in Purchases!Recorded : bill[b] \in Purchases!Bill
  BY DEF Purchases!Recorded, Purchases!TypeOK
<1>2. Purchases!Billed = SumOver(Taxables(bill), Purchases!Recorded)
  BY <1>1, TaxableIsSum DEF Purchases!Billed
<1> QED
  BY <1>1, <1>2, BillTotals

LEMMA PurchaseTypes ==
  ASSUME Purchases!TypeOK, vendor = None => \A w \in Workers : req[w].pc # "bill_insert",
         \A w \in Workers : req[w].pc = "pay_write" => req[w].bill \in Purchases!Recorded,
         Purchases!Next \/ UNCHANGED Purchases!vars
  PROVE  Purchases!TypeOK'
<1> USE DEF Purchases!Goto
<1>0. /\ now \in Nat /\ vendor \in Purchases!Vendor \cup {None}
      /\ bill \in [Bills -> Purchases!Bill \cup {None}] /\ req \in [Workers -> Purchases!Request]
      /\ settled \in [Bills -> Nat] /\ together \subseteq Bills
      /\ Purchases!Idle \in Purchases!Request
      /\ Recording \subseteq Purchases!Request /\ Settling \subseteq Purchases!Request
  BY DEF Purchases!TypeOK, Purchases!Request, Recording, Settling
<1>1. CASE Purchases!AddVendor
  BY <1>0, <1>1, PurchaseConstants DEF Purchases!AddVendor, Purchases!TypeOK
<1>2. CASE Purchases!Tick
  BY <1>0, <1>2 DEF Purchases!Tick, Purchases!TypeOK
<1>3. ASSUME NEW w \in Workers, NEW taxable \in Amounts, NEW date \in 0..now, NEW section \in Asked,
             NEW reverse \in Reverse, Purchases!BillRead(w, taxable, date, section, reverse)
      PROVE  Purchases!TypeOK'
  <2>1. Purchases!Billed \in Nat
    BY BilledIsNumber
  <2>2. [pc |-> "bill_insert", taxable |-> taxable, date |-> date, section |-> section,
         reverse |-> reverse, billed |-> Purchases!Billed] \in Recording
    BY <1>0, <2>1, PurchaseConstants DEF Recording
  <2> QED
    BY <1>0, <1>3, <2>2 DEF Purchases!BillRead, Purchases!TypeOK
<1>4. ASSUME NEW w \in Workers, NEW b \in Bills, NEW percent \in Percents,
             Purchases!BillInsert(w, b, percent)
      PROVE  Purchases!TypeOK'
  <2>1. req[w] \in Recording /\ vendor \in Purchases!Vendor
    BY <1>0, <1>4, PurchaseRequests DEF Purchases!BillInsert
  <2>2. RowOf(req[w], percent) \in Purchases!Bill
    BY <2>1, RowIsBill
  <2>3. bill' = bill \/ bill' = [bill EXCEPT ![b] = RowOf(req[w], percent)]
    BY <1>4 DEF Purchases!BillInsert, RowOf
  <2>4. bill' \in [Bills -> Purchases!Bill \cup {None}]
    BY <1>0, <2>2, <2>3
  <2> QED
    BY <1>0, <1>4, <2>4 DEF Purchases!BillInsert, Purchases!TypeOK
<1>5. ASSUME NEW w \in Workers, NEW b \in Bills, NEW on \in 0..now, Purchases!PayRead(w, b, on)
      PROVE  Purchases!TypeOK'
  <2>1. [pc |-> "pay_write", bill |-> b, on |-> on] \in Settling
    BY <1>0 DEF Settling
  <2> QED
    BY <1>0, <1>5, <2>1 DEF Purchases!PayRead, Purchases!TypeOK
<1>6. ASSUME NEW w \in Workers, Purchases!PayWrite(w)
      PROVE  Purchases!TypeOK'
  <2>1. req[w] \in Settling /\ req[w].bill \in Purchases!Recorded
    BY <1>6, PurchaseRequests DEF Purchases!PayWrite
  <2>2. PICK b \in Bills, on \in Nat :
            /\ b = req[w].bill /\ on = req[w].on /\ bill[b] \in Purchases!Bill
            /\ bill' = [bill EXCEPT ![b].paidOn = on]
            /\ settled' = [settled EXCEPT ![b] = @ + 1]
    BY <1>0, <1>6, <2>1 DEF Purchases!PayWrite, Settling, Purchases!Recorded
  <2>3. bill' \in [Bills -> Purchases!Bill \cup {None}]
    <3>1. [bill[b] EXCEPT !.paidOn = on] \in Purchases!Bill
      BY <2>2 DEF Purchases!Bill
    <3> QED
      BY <1>0, <2>2, <3>1
  <2>4. settled' \in [Bills -> Nat]
    BY <1>0, <2>2
  <2> QED
    BY <1>0, <1>6, <2>1, <2>2, <2>3, <2>4 DEF Purchases!PayWrite, Purchases!TypeOK
<1>7. ASSUME NEW w \in Workers, Purchases!Crash(w) PROVE Purchases!TypeOK'
  BY <1>0, <1>7 DEF Purchases!Crash, Purchases!TypeOK
<1>8. CASE UNCHANGED Purchases!vars
  BY <1>0, <1>8 DEF Purchases!vars, Purchases!TypeOK
<1> QED
  BY <1>1, <1>2, <1>3, <1>4, <1>5, <1>6, <1>7, <1>8 DEF Purchases!Next

\* What went without deduction, in a table of bills: some of them recorded on a total that was
\* out of date, or settled twice, which are not counted.
Spared(rows, apart, section) ==
    {b \in Bills \ apart : rows[b] # None /\ rows[b].section = section /\ rows[b].tds = 0}

SparedTotal(section) == SumOver(Taxables(bill), Spared(bill, together, section))

\* Before there is a vendor there is no bill; a request settles a bill that is there, on a day
\* it had been raised; a bill is settled as often as it was paid, but for those of two requests;
\* and what goes without deduction stays below the thresholds.
Books ==
    /\ vendor = None =>
        Purchases!Recorded = {} /\ \A w \in Workers : req[w].pc # "bill_insert"
    /\ \A w \in Workers : req[w].pc = "pay_write" =>
        req[w].bill \in Purchases!Recorded /\ req[w].on >= bill[req[w].bill].date
    /\ \A b \in Bills :
        /\ bill[b] = None \/ bill[b].paidOn = None => settled[b] = 0
        /\ settled[b] > 1 => b \in together
        /\ bill[b] # None /\ bill[b].paidOn # None => bill[b].paidOn >= bill[b].date
    /\ vendor # None /\ vendor.pan =>
        /\ SparedTotal("194C") < AnnualLimit
        /\ SparedTotal("194J") < AnnualLimitJ
        /\ \A b \in Spared(bill, together, "194C") : bill[b].taxable < SingleLimit

LEMMA SparedShape ==
  ASSUME NEW rows \in [Bills -> Purchases!Bill \cup {None}], NEW apart, NEW section
  PROVE  /\ Spared(rows, apart, section) \in SUBSET Bills /\ IsFiniteSet(Spared(rows, apart, section))
         /\ \A b \in Spared(rows, apart, section) :
                rows[b] \in Purchases!Bill /\ Taxables(rows)[b] \in Nat
         /\ SumOver(Taxables(rows), Spared(rows, apart, section)) \in Nat
<1>1. Spared(rows, apart, section) \in SUBSET Bills
  BY DEF Spared
<1>2. \A b \in Spared(rows, apart, section) : rows[b] \in Purchases!Bill
  BY DEF Spared
<1> QED
  BY <1>1, <1>2, BillTotals

\* The total falls as bills are set apart, and rises by a bill that is recorded.
LEMMA SparedFalls ==
  ASSUME NEW rows \in [Bills -> Purchases!Bill \cup {None}],
         NEW after \in [Bills -> Purchases!Bill \cup {None}], NEW section, NEW apart, NEW gone,
         Spared(after, gone, section) \subseteq Spared(rows, apart, section),
         \A b \in Spared(after, gone, section) : after[b].taxable = rows[b].taxable
  PROVE  SumOver(Taxables(after), Spared(after, gone, section))
            <= SumOver(Taxables(rows), Spared(rows, apart, section))
<1>1. SumOver(Taxables(after), Spared(after, gone, section))
        = SumOver(Taxables(rows), Spared(after, gone, section))
  <2>1. \A b \in Spared(after, gone, section) : Taxables(after)[b] = Taxables(rows)[b]
    BY SparedShape DEF Taxables
  <2> QED
    BY <2>1, SparedShape, SumAgree
<1>2. SumOver(Taxables(rows), Spared(after, gone, section))
        <= SumOver(Taxables(rows), Spared(rows, apart, section))
  BY SparedShape, SumGrows
<1> QED
  BY <1>1, <1>2

LEMMA SparedRises ==
  ASSUME NEW rows \in [Bills -> Purchases!Bill \cup {None}], NEW apart, NEW section,
         NEW b \in Bills, rows[b] = None, NEW row \in Purchases!Bill,
         NEW after \in [Bills -> Purchases!Bill \cup {None}],
         after[b] = row, \A c \in Bills : c # b => after[c] = rows[c],
         row.section = section, row.tds = 0, b \notin apart
  PROVE  /\ Spared(after, apart, section) = Spared(rows, apart, section) \cup {b}
         /\ SumOver(Taxables(after), Spared(after, apart, section))
              = row.taxable + SumOver(Taxables(rows), Spared(rows, apart, section))
<1> DEFINE S == Spared(rows, apart, section)
<1>1. row # None
  BY PurchaseConstants
<1>2. Spared(after, apart, section) = S \cup {b} /\ b \notin S
  BY <1>1 DEF Spared
<1>3. IsFiniteSet(S) /\ \A c \in S \cup {b} : Taxables(after)[c] \in Int
  <2>1. \A c \in Spared(after, apart, section) : Taxables(after)[c] \in Nat
    BY <1>1, SparedShape
  <2>2. IsFiniteSet(S)
    BY SparedShape
  <2>3. ASSUME NEW c \in S \cup {b} PROVE Taxables(after)[c] \in Int
    BY <1>2, <2>1
  <2> QED
    BY <2>2, <2>3
<1>4. SumOver(Taxables(after), S \cup {b}) = Taxables(after)[b] + SumOver(Taxables(after), S)
  <2> HIDE DEF S
  <2> QED
    BY <1>2, <1>3, SumAdd
<1>5. SumOver(Taxables(after), S) = SumOver(Taxables(rows), S)
  <2>1. \A c \in S : Taxables(after)[c] = Taxables(rows)[c]
    BY <1>2, SparedShape DEF Taxables
  <2> QED
    BY <1>3, <2>1, SumAgree
<1>6. Taxables(after)[b] = row.taxable
  BY <1>1 DEF Taxables
<1> QED
  BY <1>2, <1>4, <1>5, <1>6

LEMMA BooksKept ==
  ASSUME Purchases!TypeOK, Books, Purchases!Next \/ UNCHANGED Purchases!vars
  PROVE  Books'
<1> USE DEF Purchases!Goto, Purchases!Idle, Purchases!Recorded
<1>0. /\ now \in Nat /\ vendor \in Purchases!Vendor \cup {None}
      /\ bill \in [Bills -> Purchases!Bill \cup {None}] /\ req \in [Workers -> Purchases!Request]
      /\ settled \in [Bills -> Nat] /\ together \subseteq Bills
      /\ Purchases!Recorded \subseteq Bills
  BY DEF Purchases!TypeOK
<1>1. CASE Purchases!AddVendor
  <2>1. \A b \in Bills : bill[b] = None
    BY <1>1 DEF Books, Purchases!AddVendor
  <2>2. \A section : Spared(bill, together, section) = {}
    BY <2>1 DEF Spared
  <2>3. \A section : SparedTotal(section) = 0
    <3> TAKE section
    <3>1. SumOver(Taxables(bill), {}) = 0
      BY FS_EmptySet, SumUnfolds
    <3> QED
      BY <2>2, <3>1 DEF SparedTotal
  <2>4. UNCHANGED <<bill, together, req, settled>>
    BY <1>1 DEF Purchases!AddVendor
  <2>5. /\ SparedTotal("194C")' = 0 /\ SparedTotal("194J")' = 0
        /\ Spared(bill, together, "194C")' = {}
    BY <2>2, <2>3, <2>4 DEF SparedTotal
  <2>6. \A w \in Workers : req[w].pc # "bill_insert" /\ req[w].pc # "pay_write"
    BY <1>1, <2>1 DEF Books, Purchases!AddVendor
  <2>7. \A b \in Bills : settled[b] = 0
    BY <2>1 DEF Books
  <2>8. 0 < AnnualLimit /\ 0 < AnnualLimitJ
    BY PurchaseConstants
  <2>9. vendor' # None /\ vendor'.pan =>
            /\ SparedTotal("194C")' < AnnualLimit
            /\ SparedTotal("194J")' < AnnualLimitJ
            /\ \A b \in Spared(bill', together', "194C") : bill'[b].taxable < SingleLimit
    BY <2>5, <2>8
  <2>10. /\ vendor' = None =>
            Purchases!Recorded' = {} /\ \A w \in Workers : req'[w].pc # "bill_insert"
         /\ \A w \in Workers : req'[w].pc # "pay_write"
         /\ \A b \in Bills : settled'[b] = 0 /\ bill'[b] = None
    BY <2>1, <2>4, <2>6, <2>7
  <2> QED
    BY <2>9, <2>10 DEF Books
<1>2. ASSUME UNCHANGED <<vendor, bill, together, settled>>,
             \A w \in Workers : req'[w] # req[w] =>
                /\ req'[w].pc = "bill_insert" => vendor # None
                /\ req'[w].pc = "pay_write" =>
                    req'[w].bill \in Purchases!Recorded /\ req'[w].on >= bill[req'[w].bill].date
      PROVE  Books'
  BY <1>2 DEF Books, SparedTotal
<1>3. CASE Purchases!Tick \/ UNCHANGED Purchases!vars
  BY <1>2, <1>3 DEF Purchases!Tick, Purchases!vars
<1>4. ASSUME NEW w \in Workers, NEW taxable \in Amounts, NEW date \in 0..now, NEW section \in Asked,
             NEW reverse \in Reverse, Purchases!BillRead(w, taxable, date, section, reverse)
      PROVE  Books'
  BY <1>0, <1>2, <1>4 DEF Purchases!BillRead
<1>5. ASSUME NEW w \in Workers, NEW b \in Bills, NEW on \in 0..now, Purchases!PayRead(w, b, on)
      PROVE  Books'
  BY <1>0, <1>2, <1>5 DEF Purchases!PayRead
<1>6. ASSUME NEW w \in Workers, Purchases!Crash(w) PROVE Books'
  BY <1>0, <1>2, <1>6 DEF Purchases!Crash
<1>7. ASSUME NEW w \in Workers, NEW b \in Bills, NEW percent \in Percents,
             Purchases!BillInsert(w, b, percent)
      PROVE  Books'
  <2> DEFINE r == req[w]
             rate == Purchases!TdsRate(r.section, r.taxable, vendor, r.billed)
             tds == r.taxable * rate
             row == RowOf(r, percent)
  <2>1. r \in Recording /\ vendor \in Purchases!Vendor /\ vendor # None
    BY <1>0, <1>7, PurchaseRequests DEF Purchases!BillInsert, Books
  <2>2. UNCHANGED <<vendor, settled>> /\ req' = [req EXCEPT ![w] = Purchases!Idle]
    BY <1>7 DEF Purchases!BillInsert
  <2>3. CASE bill[b] # None
    <3>1. UNCHANGED <<bill, together>>
      BY <1>7, <2>3 DEF Purchases!BillInsert
    <3> QED
      BY <1>0, <1>2, <2>2, <3>1
  <2>4. CASE bill[b] = None
    <3>1. /\ bill' = [bill EXCEPT ![b] = row]
          /\ together' = IF r.billed # Purchases!Billed THEN together \cup {b} ELSE together
      BY <1>7, <2>4 DEF Purchases!BillInsert, RowOf
    <3>2. row \in Purchases!Bill
      BY <2>1, RowIsBill
    <3>3. row.paidOn = None /\ row.taxable = r.taxable /\ row.section = r.section /\ row.tds = tds
      BY <2>1, RowIsBill
    <3> HIDE DEF row
    <3>4. \A c \in Bills : c # b => bill'[c] = bill[c]
      BY <1>0, <3>1
    <3>5. bill'[b] = row /\ row # None
      BY <1>0, <3>1, <3>2, PurchaseConstants
    <3>6. together \subseteq together'
      BY <3>1
    <3>7. \A section : section # r.section \/ tds # 0 \/ b \in together' =>
            Spared(bill', together', section) \subseteq Spared(bill, together, section)
      BY <3>3, <3>4, <3>5, <3>6 DEF Spared
    <3>8. bill' \in [Bills -> Purchases!Bill \cup {None}]
      BY <1>0, <3>1, <3>2
    <3>9. ASSUME NEW section, section # r.section \/ tds # 0 \/ b \in together'
          PROVE  SparedTotal(section)' <= SparedTotal(section)
      <4>1. Spared(bill', together', section) \subseteq Spared(bill, together, section)
        BY <3>7, <3>9
      <4>2. \A c \in Spared(bill', together', section) : bill'[c].taxable = bill[c].taxable
        BY <2>4, <3>4, <4>1 DEF Spared
      <4>3. SumOver(Taxables(bill'), Spared(bill', together', section))
              <= SumOver(Taxables(bill), Spared(bill, together, section))
        BY <1>0, <3>8, <4>1, <4>2, SparedFalls
      <4> QED
        BY <4>3 DEF SparedTotal
    <3>10. ASSUME NEW section, section = r.section, tds = 0, b \notin together'
           PROVE  /\ SparedTotal(section)' = r.taxable + SparedTotal(section)
                  /\ Spared(bill', together', section) = Spared(bill, together, section) \cup {b}
                  /\ SparedTotal(section) <= r.billed
      <4>1. together' = together /\ r.billed = Purchases!Billed
        BY <3>1, <3>10
      <4>2. /\ Spared(bill', together, section) = Spared(bill, together, section) \cup {b}
            /\ SumOver(Taxables(bill'), Spared(bill', together, section))
                 = row.taxable + SumOver(Taxables(bill), Spared(bill, together, section))
        <5>1. row.section = section /\ row.tds = 0 /\ b \notin together
          BY <3>3, <3>10, <4>1
        <5> HIDE DEF tds, rate, r
        <5> QED
          BY <1>0, <2>4, <3>2, <3>4, <3>5, <3>8, <5>1, SparedRises
      <4>3. SparedTotal(section) <= Purchases!Billed
        <5>1. Spared(bill, together, section) \in SUBSET Purchases!Recorded
          BY DEF Spared
        <5>2. /\ IsFiniteSet(Purchases!Recorded)
              /\ \A c \in Purchases!Recorded : Taxables(bill)[c] \in Nat
          <6>1. \A c \in Purchases!Recorded : bill[c] \in Purchases!Bill
            BY <1>0
          <6> QED
            BY <1>0, <6>1, BillTotals
        <5> QED
          BY <5>1, <5>2, SumGrows, BilledIsNumber DEF SparedTotal
      <4> QED
        BY <3>3, <4>1, <4>2, <4>3 DEF SparedTotal
    <3>11. ASSUME vendor.pan
           PROVE  /\ SparedTotal("194C")' < AnnualLimit
                  /\ SparedTotal("194J")' < AnnualLimitJ
                  /\ \A c \in Spared(bill', together', "194C") : bill'[c].taxable < SingleLimit
      <4>0. /\ SparedTotal("194C") < AnnualLimit
            /\ SparedTotal("194J") < AnnualLimitJ
            /\ \A c \in Spared(bill, together, "194C") : bill[c].taxable < SingleLimit
        BY <2>1, <3>11 DEF Books
      <4>1. \A section : SparedTotal(section) \in Nat /\ SparedTotal(section)' \in Nat
        BY <1>0, <3>8, SparedShape DEF SparedTotal
      <4>2. r.taxable \in Nat /\ r.billed \in Nat
        BY <2>1, PurchaseConstants DEF Recording
      <4>3. tds = 0 => rate = 0 \/ r.taxable = 0
        <5>1. rate \in {0, 1, 2, 10, 20}
          BY <2>1, Rates
        <5> HIDE DEF rate
        <5> QED
          BY <4>2, <5>1
      <4>4. /\ r.section = "194C" /\ rate = 0 => r.taxable < SingleLimit /\ r.billed + r.taxable < AnnualLimit
            /\ r.section = "194J" /\ rate = 0 => r.billed + r.taxable < AnnualLimitJ
        BY <2>1, <3>11, Rates
      <4>5. {SingleLimit, AnnualLimit, AnnualLimitJ} \subseteq Nat \ {0}
        BY PurchaseConstants
      <4> HIDE DEF r, tds, rate
      <4>6. SparedTotal("194C")' < AnnualLimit
        <5>1. CASE "194C" # r.section \/ tds # 0 \/ b \in together'
          <6>1. SparedTotal("194C")' <= SparedTotal("194C")
            BY <3>9, <5>1
          <6> QED
            BY <4>0, <4>1, <4>5, <6>1
        <5>2. CASE "194C" = r.section /\ tds = 0 /\ b \notin together'
          <6>1. SparedTotal("194C")' = r.taxable + SparedTotal("194C") /\ SparedTotal("194C") <= r.billed
            BY <3>10, <5>2
          <6> QED
            BY <4>0, <4>1, <4>2, <4>3, <4>4, <4>5, <5>2, <6>1
        <5> QED
          BY <5>1, <5>2
      <4>7. SparedTotal("194J")' < AnnualLimitJ
        <5>1. CASE "194J" # r.section \/ tds # 0 \/ b \in together'
          <6>1. SparedTotal("194J")' <= SparedTotal("194J")
            BY <3>9, <5>1
          <6> QED
            BY <4>0, <4>1, <4>5, <6>1
        <5>2. CASE "194J" = r.section /\ tds = 0 /\ b \notin together'
          <6>1. SparedTotal("194J")' = r.taxable + SparedTotal("194J") /\ SparedTotal("194J") <= r.billed
            BY <3>10, <5>2
          <6> QED
            BY <4>0, <4>1, <4>2, <4>3, <4>4, <4>5, <5>2, <6>1
        <5> QED
          BY <5>1, <5>2
      <4>8. ASSUME NEW c \in Spared(bill', together', "194C") PROVE bill'[c].taxable < SingleLimit
        <5>1. CASE c = b
          <6>1. "194C" = r.section /\ tds = 0 /\ b \notin together'
            BY <3>3, <3>5, <4>8, <5>1 DEF Spared
          <6>2. bill'[c].taxable = r.taxable
            BY <3>3, <3>5, <5>1
          <6> QED
            BY <4>2, <4>3, <4>4, <4>5, <6>1, <6>2
        <5>2. CASE c # b
          <6>1. c \in Spared(bill, together, "194C") /\ bill'[c] = bill[c]
            BY <3>4, <3>6, <4>8, <5>2 DEF Spared
          <6> QED
            BY <4>0, <6>1
        <5> QED
          BY <5>1, <5>2
      <4> QED
        BY <4>6, <4>7, <4>8
    <3>12. \A v \in Workers : req'[v].pc = "pay_write" =>
              req'[v].bill \in Purchases!Recorded' /\ req'[v].on >= bill'[req'[v].bill].date
      BY <1>0, <2>2, <2>4, <3>4, <3>5 DEF Books
    <3>13. \A c \in Bills :
              /\ bill'[c] = None \/ bill'[c].paidOn = None => settled'[c] = 0
              /\ settled'[c] > 1 => c \in together'
              /\ bill'[c] # None /\ bill'[c].paidOn # None => bill'[c].paidOn >= bill'[c].date
      BY <1>0, <2>2, <2>4, <3>3, <3>4, <3>5, <3>6 DEF Books
    <3> QED
      BY <2>1, <2>2, <3>11, <3>12, <3>13 DEF Books
  <2> QED
    BY <2>3, <2>4
<1>8. ASSUME NEW w \in Workers, Purchases!PayWrite(w)
      PROVE  Books'
  <2>1. req[w] \in Settling /\ req[w].bill \in Purchases!Recorded
    BY <1>8, PurchaseRequests DEF Purchases!PayWrite, Books
  <2>2. PICK b \in Bills, on \in Nat :
            /\ b = req[w].bill /\ on = req[w].on /\ bill[b] \in Purchases!Bill /\ bill[b] # None
            /\ on >= bill[b].date
            /\ bill' = [bill EXCEPT ![b].paidOn = on]
            /\ settled' = [settled EXCEPT ![b] = @ + 1]
            /\ together' = IF bill[b].paidOn = None THEN together ELSE together \cup {b}
            /\ req' = [req EXCEPT ![w] = Purchases!Idle]
            /\ UNCHANGED vendor
    BY <1>0, <1>8, <2>1 DEF Purchases!PayWrite, Purchases!Unpaid, Settling, Books
  <2>3. PICK row \in Purchases!Bill :
            /\ bill' = [bill EXCEPT ![b] = row] /\ row.paidOn = on
            /\ row.taxable = bill[b].taxable /\ row.section = bill[b].section
            /\ row.tds = bill[b].tds /\ row.date = bill[b].date
    <3>1. [bill[b] EXCEPT !.paidOn = on] \in Purchases!Bill
      BY <2>2 DEF Purchases!Bill
    <3> QED
      BY <1>0, <2>2, <3>1 DEF Purchases!Bill
  <2>4. /\ bill'[b] = row /\ row # None /\ \A c \in Bills : c # b => bill'[c] = bill[c]
        /\ bill' \in [Bills -> Purchases!Bill \cup {None}] /\ together \subseteq together'
        /\ on # None
    BY <1>0, <2>2, <2>3, PurchaseConstants, SMTT(40)
  <2>5. \A section : Spared(bill', together', section) \subseteq Spared(bill, together, section)
    BY <2>2, <2>3, <2>4 DEF Spared
  <2>6. \A c \in Bills : bill[c] # None => bill'[c].taxable = bill[c].taxable
    BY <2>3, <2>4
  <2>7. ASSUME NEW section PROVE SparedTotal(section)' <= SparedTotal(section)
    <3>1. \A c \in Spared(bill', together', section) : bill'[c].taxable = bill[c].taxable
      BY <2>5, <2>6 DEF Spared
    <3>2. SumOver(Taxables(bill'), Spared(bill', together', section))
            <= SumOver(Taxables(bill), Spared(bill, together, section))
      BY <1>0, <2>4, <2>5, <3>1, SparedFalls
    <3> QED
      BY <3>2 DEF SparedTotal
  <2>8. vendor' # None /\ vendor'.pan =>
            /\ SparedTotal("194C")' < AnnualLimit
            /\ SparedTotal("194J")' < AnnualLimitJ
            /\ \A c \in Spared(bill', together', "194C") : bill'[c].taxable < SingleLimit
    <3>1. \A section : SparedTotal(section) \in Nat /\ SparedTotal(section)' \in Nat
      BY <1>0, <2>4, SparedShape DEF SparedTotal
    <3>2. \A c \in Spared(bill', together', "194C") :
            c \in Spared(bill, together, "194C") /\ bill'[c].taxable = bill[c].taxable
      BY <2>5, <2>6 DEF Spared
    <3>3. AnnualLimit \in Nat /\ AnnualLimitJ \in Nat
      BY PurchaseConstants
    <3>4. /\ SparedTotal("194C")' <= SparedTotal("194C")
          /\ SparedTotal("194J")' <= SparedTotal("194J")
      BY <2>7
    <3>5. ASSUME vendor # None, vendor.pan
          PROVE  /\ SparedTotal("194C") < AnnualLimit
                 /\ SparedTotal("194J") < AnnualLimitJ
                 /\ \A c \in Spared(bill, together, "194C") : bill[c].taxable < SingleLimit
      BY <3>5 DEF Books
    <3>6. vendor' = vendor
      BY <2>2
    <3>7. ASSUME vendor # None, vendor.pan
          PROVE  SparedTotal("194C")' < AnnualLimit /\ SparedTotal("194J")' < AnnualLimitJ
      BY <3>1, <3>3, <3>4, <3>5, <3>7
    <3>8. ASSUME vendor # None, vendor.pan, NEW c \in Spared(bill', together', "194C")
          PROVE  bill'[c].taxable < SingleLimit
      BY <3>2, <3>5, <3>8
    <3> QED
      BY <3>6, <3>7, <3>8
  <2>9. \A v \in Workers : req'[v].pc = "pay_write" =>
            req'[v].bill \in Purchases!Recorded' /\ req'[v].on >= bill'[req'[v].bill].date
    BY <1>0, <2>2, <2>3, <2>4 DEF Books
  <2>10. \A c \in Bills :
            /\ bill'[c] = None \/ bill'[c].paidOn = None => settled'[c] = 0
            /\ settled'[c] > 1 => c \in together'
            /\ bill'[c] # None /\ bill'[c].paidOn # None => bill'[c].paidOn >= bill'[c].date
    <3> TAKE c \in Bills
    <3>1. CASE c = b
      <4>1. settled'[b] = settled[b] + 1 /\ settled[b] \in Nat
        BY <1>0, <2>2
      <4>2. bill[b].paidOn = None => settled[b] = 0
        BY DEF Books
      <4>3. bill[b].paidOn # None => b \in together'
        BY <2>2
      <4>4. row.paidOn # None /\ row.paidOn >= row.date
        BY <2>2, <2>3, <2>4
      <4> QED
        BY <2>4, <3>1, <4>1, <4>2, <4>3, <4>4
    <3>2. CASE c # b
      BY <1>0, <2>2, <2>4, <3>2 DEF Books
    <3> QED
      BY <3>1, <3>2
  <2>11. vendor' = None => Purchases!Recorded' = {} /\ \A v \in Workers : req'[v].pc # "bill_insert"
    BY <2>1, <2>2 DEF Books
  <2> QED
    BY <2>8, <2>9, <2>10, <2>11 DEF Books
<1> QED
  BY <1>1, <1>3, <1>4, <1>5, <1>6, <1>7, <1>8 DEF Purchases!Next

LEMMA BooksSuffice ==
  ASSUME Purchases!TypeOK, Books
  PROVE  /\ Purchases!SettledOnce /\ Purchases!DeductedAtThreshold /\ Purchases!OwedHasAClock
<1>0. /\ bill \in [Bills -> Purchases!Bill \cup {None}] /\ vendor \in Purchases!Vendor \cup {None}
      /\ now \in Nat /\ together \subseteq Bills
  BY DEF Purchases!TypeOK
<1>1. Purchases!SettledOnce
  BY DEF Books, Purchases!SettledOnce, Purchases!Unpaid, Purchases!Recorded
<1>2. Purchases!DeductedAtThreshold
  <2>1. \A section : /\ Purchases!Untaxed(section) = Spared(bill, together, section)
                     /\ Spared(bill, together, section) \in SUBSET Bills
    BY DEF Purchases!Untaxed, Purchases!Recorded, Spared
  <2>2. \A section : Purchases!TaxableOf(Purchases!Untaxed(section)) = SparedTotal(section)
    BY <2>1, TaxableIsSum DEF SparedTotal
  <2> QED
    BY <2>1, <2>2 DEF Books, Purchases!DeductedAtThreshold
<1>3. Purchases!OwedHasAClock
  <2> SUFFICES ASSUME vendor # None, Purchases!MsmedLimit(vendor) # None
               PROVE  Purchases!AtRisk + Purchases!Lost
                        = Purchases!TaxableOf({b \in Purchases!Recorded : Purchases!Unpaid(b)})
    BY DEF Purchases!OwedHasAClock
  <2> DEFINE counting == {b \in Purchases!Recorded : Purchases!Clock(b) = "counting"}
             lapsed == {b \in Purchases!Recorded : Purchases!Clock(b) = "lapsed"}
             owed == {b \in Purchases!Recorded : Purchases!Unpaid(b)}
  <2>1. ASSUME NEW b \in Purchases!Recorded
        PROVE  /\ Purchases!Unpaid(b) => Purchases!Clock(b) \in {"lapsed", "counting"}
               /\ ~Purchases!Unpaid(b) => Purchases!Clock(b) = "paid"
    BY DEF Purchases!Clock
  <2>2. counting \cup lapsed = owed /\ counting \cap lapsed = {}
    BY <2>1
  <2>3. counting \in SUBSET Bills /\ lapsed \in SUBSET Bills /\ owed \in SUBSET Bills
    BY DEF Purchases!Recorded
  <2>4. \A b \in owed : bill[b] \in Purchases!Bill
    BY <1>0 DEF Purchases!Recorded
  <2>5. /\ Purchases!AtRisk = SumOver(Taxables(bill), counting)
        /\ Purchases!Lost = SumOver(Taxables(bill), lapsed)
        /\ Purchases!TaxableOf(owed) = SumOver(Taxables(bill), owed)
    BY <2>3, TaxableIsSum DEF Purchases!AtRisk, Purchases!Lost
  <2> HIDE DEF counting, lapsed, owed
  <2>6. \A b \in owed : Taxables(bill)[b] \in Nat
    BY <2>3, <2>4, BillTotals
  <2>7. IsFiniteSet(counting) /\ IsFiniteSet(lapsed)
    BY <2>3, FiniteTables, FS_Subset
  <2>8. ASSUME NEW b \in counting \cup lapsed PROVE Taxables(bill)[b] \in Int
    BY <2>2, <2>6
  <2>9. SumOver(Taxables(bill), counting \cup lapsed)
          = SumOver(Taxables(bill), counting) + SumOver(Taxables(bill), lapsed)
    BY <2>2, <2>7, <2>8, SumDisjoint
  <2> QED
    BY <2>2, <2>5, <2>9 DEF owed
<1> QED
  BY <1>1, <1>2, <1>3

\* The vendor's books, of the desk that keeps them.
Purchasing == desk = "purchases" => Purchases!TypeOK /\ Books

LEMMA PurchasingStarts ==
  ASSUME Init
  PROVE  Purchasing
<1> SUFFICES ASSUME desk = "purchases" PROVE Purchases!TypeOK /\ Books
  BY DEF Purchasing
<1>1. Purchases!Init
  BY DeskStarts
<1>2. Purchases!TypeOK
  BY <1>1 DEF Purchases!Init, Purchases!TypeOK, Purchases!Request
<1>3. vendor = None /\ \A b \in Bills : bill[b] = None /\ settled[b] = 0
  BY <1>1 DEF Purchases!Init
<1>4. \A w \in Workers : req[w].pc = "idle"
  BY <1>1 DEF Purchases!Init, Purchases!Idle
<1> QED
  BY <1>2, <1>3, <1>4 DEF Books, Purchases!Recorded

LEMMA PurchasingKept ==
  ASSUME Purchasing, [Next]_vars
  PROVE  Purchasing'
<1>1. desk' = desk
  BY DeskSteps
<1>2. CASE desk = "purchases"
  <2>1. Purchases!TypeOK /\ Books
    BY <1>2 DEF Purchasing
  <2>2. Purchases!Next \/ UNCHANGED Purchases!vars
    BY <1>2, DeskSteps
  <2>3. /\ vendor = None => \A w \in Workers : req[w].pc # "bill_insert"
        /\ \A w \in Workers : req[w].pc = "pay_write" => req[w].bill \in Purchases!Recorded
    BY <2>1 DEF Books
  <2> QED
    BY <1>1, <2>1, <2>2, <2>3, PurchaseTypes, BooksKept DEF Purchasing
<1>3. CASE desk # "purchases"
  BY <1>1, <1>3 DEF Purchasing
<1> QED
  BY <1>2, <1>3

\* A bill is settled once and not before it was raised, what goes without deduction stays below
\* the thresholds however a vendor's work is split into bills, and all that is owed to a small
\* enterprise is counted as deductible or as lost, but for bills recorded or settled at once:
\* for every number of bills and of requests, and all amounts (purchases.ts, vendors.ts).
THEOREM BillsAlwaysSettleOnce == Spec => []BillsSettleOnce
<1>1. Purchasing => BillsSettleOnce
  BY BooksSuffice DEF Purchasing, BillsSettleOnce
<1> QED
  BY <1>1, PurchasingStarts, PurchasingKept, PTL DEF Spec
-----------------------------------------------------------------------------
(***************************************************************************)
(* Parts and where they are (Stock).                                        *)
(***************************************************************************)

\* Movements are between places there are, or come from outside the firm, or leave it.
Journeys ==
    \A m \in Stock!Ledger :
        /\ {movement[m].from, movement[m].to} \subseteq Stock!Locations \cup {None}
        /\ movement[m] \in Stock!Movement

LEMMA StockTypes ==
  ASSUME Stock!TypeOK, Journeys, Stock!Next \/ UNCHANGED Stock!vars
  PROVE  Stock!TypeOK' /\ Journeys'
<1>0. /\ part \in [Parts -> Levels \cup {None}] /\ place \in [Places -> {"STORE", "VAN", None}]
      /\ movement \in [Rows -> Stock!Movement \cup {None}] /\ fitted \subseteq Parts
      /\ Stock!Locations \subseteq Places
  BY DEF Stock!TypeOK, Stock!Locations
<1>1. CASE UNCHANGED Stock!vars
  BY <1>1 DEF Stock!vars, Stock!TypeOK, Journeys, Stock!Ledger, Stock!Locations
<1>2. ASSUME NEW p \in Parts, Stock!Fit(p) PROVE Stock!TypeOK' /\ Journeys'
  BY <1>2 DEF Stock!Fit, Stock!TypeOK, Journeys, Stock!Ledger, Stock!Locations
<1>3. ASSUME NEW p \in Parts, NEW level \in Levels, Stock!AddPart(p, level)
      PROVE  Stock!TypeOK' /\ Journeys'
  BY <1>3 DEF Stock!AddPart, Stock!TypeOK, Journeys, Stock!Ledger, Stock!Locations
<1>4. ASSUME NEW l \in Places, NEW kind \in {"STORE", "VAN"}, Stock!AddPlace(l, kind)
      PROVE  Stock!TypeOK' /\ Journeys'
  <2>1. Stock!Locations \subseteq Stock!Locations'
    BY <1>0, <1>4 DEF Stock!AddPlace, Stock!Locations
  <2>2. Journeys'
    BY <1>4, <2>1 DEF Stock!AddPlace, Journeys, Stock!Ledger
  <2> QED
    BY <1>0, <1>4, <2>2 DEF Stock!AddPlace, Stock!TypeOK
<1>5. ASSUME NEW m \in Rows, NEW p \in Parts, NEW kind \in Stock!Kinds, NEW qty \in Quantities,
             NEW challan \in BOOLEAN, NEW from \in Stock!Locations \cup {None},
             NEW to \in Stock!Locations \cup {None},
             Stock!Move(m, p, kind, from, to, qty, challan)
      PROVE  Stock!TypeOK' /\ Journeys'
  <2> DEFINE row == [part |-> p, kind |-> kind, from |-> from, to |-> to, qty |-> qty,
                     challan |-> challan, at |-> Stock!Cardinality(Stock!Ledger)]
  <2>1. Stock!Cardinality(Stock!Ledger) \in Nat
    <3>1. Stock!Cardinality(Stock!Ledger) = Cardinality(Stock!Ledger)
      BY DEF Stock!Cardinality, Cardinality
    <3>2. IsFiniteSet(Stock!Ledger)
      BY FiniteTables, FS_Subset DEF Stock!Ledger
    <3> QED
      BY <3>1, <3>2, FS_CardinalityType
  <2>2. row \in Stock!Movement /\ row.from = from /\ row.to = to
    BY <1>0, <2>1 DEF Stock!Movement
  <2>3. movement' = [movement EXCEPT ![m] = row] /\ UNCHANGED <<part, place, fitted>>
    BY <1>5 DEF Stock!Move
  <2> HIDE DEF row
  <2>4. Journeys'
    BY <1>0, <2>2, <2>3 DEF Journeys, Stock!Ledger, Stock!Locations
  <2> QED
    BY <1>0, <2>2, <2>3, <2>4 DEF Stock!TypeOK
<1> QED
  BY <1>1, <1>2, <1>3, <1>4, <1>5 DEF Stock!Next

\* What each movement does to a place, what a set of movements does to each place, and how much
\* each moves.
Effects(l) == [m \in Rows |-> Stock!Arrived(m, l) - Stock!Left(m, l)]

Balances(rows) == [l \in Places |-> SumOver(Effects(l), rows)]

Moved == [m \in Rows |-> movement[m].qty]

\* What came from outside the firm, and what left it.
FromOutside(rows) == {m \in rows : movement[m].from = None}

ToOutside(rows) == {m \in rows : movement[m].to = None}

OfPart(p) == {m \in Stock!Ledger : movement[m].part = p}

\* The sums of the screen are sums in any order.
LEMMA StockSums ==
  ASSUME Stock!TypeOK, NEW p
  PROVE  /\ \A l \in Places : Stock!Balance(p, l) = SumOver(Effects(l), OfPart(p))
         /\ Stock!OnHand(p) = SumOver(Balances(OfPart(p)), Stock!Locations)
         /\ \A rows \in SUBSET Rows : Stock!Total(rows) = SumOver(Moved, rows)
<1>0. \A rows \in SUBSET Rows : IsFiniteSet(rows)
  BY FiniteTables, FS_Subset
<1>1. ASSUME NEW l \in Places PROVE Stock!Balance(p, l) = SumOver(Effects(l), OfPart(p))
  <2> DEFINE T == OfPart(p)
             Adds(g) == g = [s \in SUBSET T |->
                IF s = {} THEN 0
                ELSE (Stock!Arrived(CHOOSE x \in s : TRUE, l) - Stock!Left(CHOOSE x \in s : TRUE, l))
                        + g[s \ {CHOOSE x \in s : TRUE}]]
  <2>1. T \in SUBSET Rows /\ IsFiniteSet(T)
    BY <1>0 DEF OfPart, Stock!Ledger
  <2>2. \A g : Adds(g) <=> Tabulates(g, Effects(l), T)
    BY <2>1, AnyIn DEF Tabulates, AnyOf, Effects
  <2>3. Stock!Balance(p, l) = (CHOOSE g : Adds(g))[T]
    BY DEF Stock!Balance, Stock!MapThenSumSet, Stock!MapThenFoldSet, OfPart
  <2>4. \E g : Tabulates(g, Effects(l), T)
    BY <2>1, TableExists
  <2> HIDE DEF T, Adds
  <2>5. Tabulates(CHOOSE g : Adds(g), Effects(l), T)
    BY <2>2, <2>4
  <2> QED
    BY <2>1, <2>3, <2>5, SumTabulated DEF T
<1>2. Stock!OnHand(p) = SumOver(Balances(OfPart(p)), Stock!Locations)
  <2> DEFINE T == Stock!Locations
             f == Balances(OfPart(p))
             Adds(g) == g = [s \in SUBSET T |->
                IF s = {} THEN 0
                ELSE Stock!Balance(p, CHOOSE x \in s : TRUE) + g[s \ {CHOOSE x \in s : TRUE}]]
  <2>1. T \in SUBSET Places /\ IsFiniteSet(T)
    BY FiniteTables, FS_Subset DEF Stock!Locations
  <2>2. \A g : Adds(g) <=> Tabulates(g, f, T)
    BY <1>1, <2>1, AnyIn, ZenonT(60) DEF Tabulates, AnyOf, Balances
  <2>3. Stock!OnHand(p) = (CHOOSE g : Adds(g))[T]
    BY DEF Stock!OnHand, Stock!MapThenSumSet, Stock!MapThenFoldSet
  <2>4. \E g : Tabulates(g, f, T)
    BY <2>1, TableExists
  <2> HIDE DEF T, f, Adds
  <2>5. Tabulates(CHOOSE g : Adds(g), f, T)
    BY <2>2, <2>4
  <2> QED
    BY <2>1, <2>3, <2>5, SumTabulated DEF T, f
<1>3. ASSUME NEW T \in SUBSET Rows PROVE Stock!Total(T) = SumOver(Moved, T)
  <2> DEFINE Adds(g) == g = [s \in SUBSET T |->
                IF s = {} THEN 0
                ELSE movement[CHOOSE x \in s : TRUE].qty + g[s \ {CHOOSE x \in s : TRUE}]]
  <2>1. \A g : Adds(g) <=> Tabulates(g, Moved, T)
    BY AnyIn DEF Tabulates, AnyOf, Moved
  <2>2. Stock!Total(T) = (CHOOSE g : Adds(g))[T]
    BY DEF Stock!Total, Stock!MapThenSumSet, Stock!MapThenFoldSet
  <2>3. \E g : Tabulates(g, Moved, T)
    BY <1>0, TableExists
  <2> HIDE DEF Adds
  <2>4. Tabulates(CHOOSE g : Adds(g), Moved, T)
    BY <2>1, <2>3
  <2> QED
    BY <1>0, <2>2, <2>4, SumTabulated
<1> QED
  BY <1>1, <1>2, <1>3

\* One movement takes from one place what it gives to another.
LEMMA EffectOfOne ==
  ASSUME Stock!TypeOK, Journeys, NEW m \in Stock!Ledger
  PROVE  /\ movement[m].qty \in Nat
         /\ \A l : Effects(l)[m] \in Int
         /\ SumOver([l \in Places |-> Effects(l)[m]], Stock!Locations)
              = (IF movement[m].to = None THEN 0 ELSE movement[m].qty)
                - (IF movement[m].from = None THEN 0 ELSE movement[m].qty)
<1> DEFINE q == movement[m].qty
           L == Stock!Locations
           gives == [l \in Places |-> IF l = movement[m].to THEN q ELSE 0]
           takes == [l \in Places |-> IF l = movement[m].from THEN -q ELSE 0]
           f == [l \in Places |-> Effects(l)[m]]
<1>1. /\ m \in Rows /\ movement[m] \in Stock!Movement
      /\ movement[m].to \in L \cup {None} /\ movement[m].from \in L \cup {None}
  BY DEF Journeys, Stock!Ledger
<1>2. q \in Nat
  BY <1>1, BackOfficeConstants DEF Stock!StockConstants, Stock!Movement
<1>3. \A l : Effects(l)[m] = (IF l = movement[m].to THEN q ELSE 0) - (IF l = movement[m].from THEN q ELSE 0)
  BY <1>1 DEF Effects, Stock!Arrived, Stock!Left
<1>4. L \in SUBSET Places /\ IsFiniteSet(L) /\ None \notin L
  BY FiniteTables, FS_Subset, BackOfficeConstants DEF Stock!Locations, Stock!StockConstants
<1> HIDE DEF q, L
<1>5. \A l : Effects(l)[m] \in Int
  BY <1>2, <1>3
<1>6. \A l \in L : gives[l] \in Int /\ takes[l] \in Int /\ f[l] = gives[l] + takes[l]
  BY <1>2, <1>3, <1>4
<1>7. SumOver(gives, L) = IF movement[m].to \in L THEN q ELSE 0
  <2>1. CASE movement[m].to \in L
    <3> DEFINE l == movement[m].to
    <3>1. l \in L /\ gives[l] = q /\ gives[l] \in Int /\ \A k \in L \ {l} : gives[k] = 0
      BY <1>2, <1>4, <2>1
    <3> HIDE DEF gives, l
    <3>2. SumOver(gives, L) = gives[l]
      BY <1>4, <3>1, SumSingle
    <3> QED
      BY <2>1, <3>1, <3>2
  <2>2. CASE movement[m].to \notin L
    <3>1. \A k \in L : gives[k] = 0
      BY <1>4, <2>2
    <3> HIDE DEF gives
    <3> QED
      BY <1>4, <2>2, <3>1, SumZero
  <2> QED
    BY <2>1, <2>2
<1>8. SumOver(takes, L) = IF movement[m].from \in L THEN -q ELSE 0
  <2>1. CASE movement[m].from \in L
    <3> DEFINE l == movement[m].from
    <3>1. l \in L /\ takes[l] = -q /\ takes[l] \in Int /\ \A k \in L \ {l} : takes[k] = 0
      BY <1>2, <1>4, <2>1
    <3> HIDE DEF takes, l
    <3>2. SumOver(takes, L) = takes[l]
      BY <1>4, <3>1, SumSingle
    <3> QED
      BY <2>1, <3>1, <3>2
  <2>2. CASE movement[m].from \notin L
    <3>1. \A k \in L : takes[k] = 0
      BY <1>4, <2>2
    <3> HIDE DEF takes
    <3> QED
      BY <1>4, <2>2, <3>1, SumZero
  <2> QED
    BY <2>1, <2>2
<1> HIDE DEF gives, takes, f
<1>9. SumOver(f, L) = SumOver(gives, L) + SumOver(takes, L)
  BY <1>4, <1>6, SumPlus
<1>10. SumOver(f, L) = (IF movement[m].to = None THEN 0 ELSE q) - (IF movement[m].from = None THEN 0 ELSE q)
  BY <1>1, <1>2, <1>4, <1>7, <1>8, <1>9
<1> QED
  BY <1>2, <1>5, <1>10 DEF f, L, q

\* Over all its places, the firm has what came into it and did not leave.
LEMMA Conserved ==
  ASSUME Stock!TypeOK, Journeys, NEW S \in SUBSET Stock!Ledger
  PROVE  /\ \A l \in Places : Balances(S)[l] \in Int
         /\ SumOver(Moved, FromOutside(S)) \in Int /\ SumOver(Moved, ToOutside(S)) \in Int
         /\ SumOver(Balances(S), Stock!Locations)
              = SumOver(Moved, FromOutside(S)) - SumOver(Moved, ToOutside(S))
<1> DEFINE L == Stock!Locations
           Net(rows) == SumOver(Moved, FromOutside(rows)) - SumOver(Moved, ToOutside(rows))
           Bad == {rows \in SUBSET S : SumOver(Balances(rows), L) # Net(rows)}
<1>0. /\ L \in SUBSET Places /\ IsFiniteSet(L) /\ IsFiniteSet(S)
  BY FiniteTables, FS_Subset DEF Stock!Locations, Stock!Ledger
<1>1. ASSUME NEW rows \in SUBSET S
      PROVE  /\ IsFiniteSet(rows) /\ IsFiniteSet(FromOutside(rows)) /\ IsFiniteSet(ToOutside(rows))
             /\ \A m \in rows : m \in Rows /\ Moved[m] \in Nat /\ \A l : Effects(l)[m] \in Int
             /\ SumOver(Moved, FromOutside(rows)) \in Int /\ SumOver(Moved, ToOutside(rows)) \in Int
             /\ \A l \in Places : Balances(rows)[l] \in Int
             /\ SumOver(Balances(rows), L) \in Int
  <2>1. /\ IsFiniteSet(rows) /\ FromOutside(rows) \in SUBSET rows /\ ToOutside(rows) \in SUBSET rows
    BY <1>0, FS_Subset DEF FromOutside, ToOutside
  <2>2. IsFiniteSet(FromOutside(rows)) /\ IsFiniteSet(ToOutside(rows))
    BY <2>1, FS_Subset
  <2>3. \A m \in rows : m \in Rows /\ Moved[m] \in Nat /\ \A l : Effects(l)[m] \in Int
    BY EffectOfOne DEF Moved, Stock!Ledger
  <2>4. SumOver(Moved, FromOutside(rows)) \in Int
    <3>1. \A m \in FromOutside(rows) : Moved[m] \in Int
      BY <2>1, <2>3
    <3> QED
      BY <2>2, <3>1, SumType
  <2>5. SumOver(Moved, ToOutside(rows)) \in Int
    <3>1. \A m \in ToOutside(rows) : Moved[m] \in Int
      BY <2>1, <2>3
    <3> QED
      BY <2>2, <3>1, SumType
  <2>6. ASSUME NEW l \in Places PROVE Balances(rows)[l] \in Int
    <3>1. SumOver(Effects(l), rows) \in Int
      BY <2>1, <2>3, SumType
    <3> QED
      BY <3>1 DEF Balances
  <2>7. SumOver(Balances(rows), L) \in Int
    <3>1. \A l \in L : Balances(rows)[l] \in Int
      BY <1>0, <2>6
    <3> QED
      BY <1>0, <3>1, SumType
  <2> QED
    BY <2>1, <2>2, <2>3, <2>4, <2>5, <2>6, <2>7
<1>2. ASSUME Bad # {} PROVE FALSE
  <2>1. PICK T \in Bad : \A R \in SUBSET T : R # T => R \notin Bad
    <3>1. Bad \in SUBSET (SUBSET S)
      OBVIOUS
    <3> HIDE DEF Bad
    <3> QED
      BY <1>0, <1>2, <3>1, SmallestSet
  <2>2. T # {}
    <3> SUFFICES ASSUME T = {} PROVE FALSE
      OBVIOUS
    <3>1. \A f : SumOver(f, {}) = 0
      BY FS_EmptySet, SumUnfolds
    <3>2. \A l \in L : Balances(T)[l] = 0
      BY <1>0, <3>1 DEF Balances
    <3>3. SumOver(Balances(T), L) = 0
      BY <1>0, <3>2, SumZero
    <3>4. FromOutside(T) = {} /\ ToOutside(T) = {}
      BY DEF FromOutside, ToOutside
    <3>5. Net(T) = 0
      BY <3>1, <3>4
    <3> QED
      BY <2>1, <3>3, <3>5
  <2>3. PICK x \in T : TRUE
    BY <2>2
  <2> DEFINE R == T \ {x}
             e == [l \in Places |-> Effects(l)[x]]
             q == movement[x].qty
             in == movement[x].from = None
             out == movement[x].to = None
  <2>4. T \in SUBSET S /\ R \in SUBSET S /\ x \in Stock!Ledger /\ x \in Rows /\ Moved[x] = q /\ q \in Nat
    BY <2>1, EffectOfOne DEF Moved, Stock!Ledger
  <2>5. SumOver(Balances(R), L) = Net(R)
    BY <2>1, <2>3
  <2>6. SumOver(Balances(T), L) = SumOver(e, L) + SumOver(Balances(R), L)
    <3>1. ASSUME NEW l \in L
          PROVE  /\ e[l] \in Int /\ Balances(R)[l] \in Int
                 /\ Balances(T)[l] = e[l] + Balances(R)[l]
      <4>1. l \in Places /\ e[l] = Effects(l)[x] /\ e[l] \in Int
        BY <1>0, <1>1, <2>4
      <4>2. SumOver(Effects(l), T) = Effects(l)[x] + SumOver(Effects(l), R)
        BY <1>1, <2>4, SumRemove
      <4> QED
        BY <1>1, <2>4, <4>1, <4>2 DEF Balances
    <3> HIDE DEF e, R, L
    <3> QED
      BY <1>0, <3>1, SumPlus
  <2>7. SumOver(e, L) = (IF out THEN 0 ELSE q) - (IF in THEN 0 ELSE q)
    BY <2>4, EffectOfOne
  <2>8. SumOver(Moved, FromOutside(T)) = (IF in THEN q ELSE 0) + SumOver(Moved, FromOutside(R))
    <3>1. CASE in
      <4>1. x \in FromOutside(T) /\ FromOutside(R) = FromOutside(T) \ {x}
        BY <3>1 DEF FromOutside
      <4>2. ASSUME NEW m \in FromOutside(T) PROVE Moved[m] \in Int
        <5>1. m \in T
          BY DEF FromOutside
        <5> QED
          BY <1>1, <2>4, <5>1
      <4>3. SumOver(Moved, FromOutside(T)) = Moved[x] + SumOver(Moved, FromOutside(T) \ {x})
        BY <1>1, <2>4, <4>1, <4>2, SumRemove
      <4> QED
        BY <2>4, <3>1, <4>1, <4>3
    <3>2. CASE ~in
      <4>1. FromOutside(R) = FromOutside(T)
        BY <3>2 DEF FromOutside
      <4> QED
        BY <1>1, <2>4, <3>2, <4>1
    <3> QED
      BY <3>1, <3>2
  <2>9. SumOver(Moved, ToOutside(T)) = (IF out THEN q ELSE 0) + SumOver(Moved, ToOutside(R))
    <3>1. CASE out
      <4>1. x \in ToOutside(T) /\ ToOutside(R) = ToOutside(T) \ {x}
        BY <3>1 DEF ToOutside
      <4>2. ASSUME NEW m \in ToOutside(T) PROVE Moved[m] \in Int
        <5>1. m \in T
          BY DEF ToOutside
        <5> QED
          BY <1>1, <2>4, <5>1
      <4>3. SumOver(Moved, ToOutside(T)) = Moved[x] + SumOver(Moved, ToOutside(T) \ {x})
        BY <1>1, <2>4, <4>1, <4>2, SumRemove
      <4> QED
        BY <2>4, <3>1, <4>1, <4>3
    <3>2. CASE ~out
      <4>1. ToOutside(R) = ToOutside(T)
        BY <3>2 DEF ToOutside
      <4> QED
        BY <1>1, <2>4, <3>2, <4>1
    <3> QED
      BY <3>1, <3>2
  <2>10. /\ SumOver(Moved, FromOutside(R)) \in Int /\ SumOver(Moved, ToOutside(R)) \in Int
         /\ SumOver(Balances(R), L) \in Int
    BY <1>1, <2>4
  <2>11. SumOver(Balances(T), L) = Net(T)
    <3> HIDE DEF e, R, L, q, in, out, Bad
    <3> QED
      BY <2>4, <2>5, <2>6, <2>7, <2>8, <2>9, <2>10
  <2> QED
    BY <2>1, <2>11
<1>3. SumOver(Balances(S), L) = Net(S)
  BY <1>2
<1> QED
  BY <1>1, <1>3

LEMMA StockSuffices ==
  ASSUME Stock!TypeOK, Journeys
  PROVE  Stock!StockConserved
<1> SUFFICES ASSUME NEW p \in Stock!Catalogue
             PROVE  LET rows == {m \in Stock!Ledger : movement[m].part = p}
                        had == Stock!Total({m \in rows : movement[m].from = None})
                        gone == Stock!Total({m \in rows : movement[m].to = None}) IN
                    /\ Stock!OnHand(p) = had - gone
                    /\ had < gone => \E l \in Stock!Locations : <<p, l>> \in Stock!Negative
                    /\ part[p] > 0 /\ had <= gone => p \in Stock!Reorder
  BY DEF Stock!StockConserved
<1> DEFINE rows == {m \in Stock!Ledger : movement[m].part = p}
           had == Stock!Total({m \in rows : movement[m].from = None})
           gone == Stock!Total({m \in rows : movement[m].to = None})
<1>1. /\ rows = OfPart(p) /\ rows \in SUBSET Stock!Ledger
      /\ {m \in rows : movement[m].from = None} = FromOutside(rows)
      /\ {m \in rows : movement[m].to = None} = ToOutside(rows)
  BY DEF OfPart, FromOutside, ToOutside
<1>2. had = SumOver(Moved, FromOutside(rows)) /\ gone = SumOver(Moved, ToOutside(rows))
  <2>1. FromOutside(rows) \in SUBSET Rows /\ ToOutside(rows) \in SUBSET Rows
    BY DEF FromOutside, ToOutside, Stock!Ledger
  <2> QED
    BY <1>1, <2>1, StockSums
<1>3. /\ Stock!OnHand(p) = SumOver(Balances(rows), Stock!Locations)
      /\ \A l \in Places : Stock!Balance(p, l) = Balances(rows)[l]
  BY <1>1, StockSums DEF Balances
<1> HIDE DEF rows, had, gone
<1>4. /\ Stock!OnHand(p) = had - gone /\ had \in Int /\ gone \in Int
      /\ \A l \in Places : Balances(rows)[l] \in Int
  BY <1>1, <1>2, <1>3, Conserved
<1>5. ASSUME had < gone PROVE \E l \in Stock!Locations : <<p, l>> \in Stock!Negative
  <2>1. Stock!Locations \in SUBSET Places /\ IsFiniteSet(Stock!Locations)
    BY FiniteTables, FS_Subset DEF Stock!Locations
  <2>2. SUFFICES ASSUME \A l \in Stock!Locations : <<p, l>> \notin Stock!Negative PROVE FALSE
    OBVIOUS
  <2>3. ASSUME NEW l \in Stock!Locations PROVE Balances(rows)[l] \in Int /\ Balances(rows)[l] >= 0
    <3>1. Balances(rows)[l] \in Int /\ Stock!Balance(p, l) = Balances(rows)[l]
      BY <1>3, <1>4, <2>1
    <3>2. ~(Stock!Balance(p, l) < 0)
      BY <2>2 DEF Stock!Negative
    <3> QED
      BY <3>1, <3>2
  <2>4. SumOver(Balances(rows), Stock!Locations) >= 0
    BY <2>1, <2>3, SumType
  <2> QED
    BY <1>3, <1>4, <1>5, <2>4
<1>6. ASSUME part[p] > 0, had <= gone PROVE p \in Stock!Reorder
  <2>1. part[p] \in Nat
    <3>1. part[p] \in Levels
      BY DEF Stock!Catalogue, Stock!TypeOK
    <3> QED
      BY <3>1, BackOfficeConstants DEF Stock!StockConstants
  <2>2. Stock!OnHand(p) <= part[p]
    BY <1>4, <1>6, <2>1
  <2> QED
    BY <1>6, <2>2 DEF Stock!Reorder
<1> QED
  BY <1>4, <1>5, <1>6 DEF rows, had, gone

\* The ledger, of the desk that keeps it.
Stocking == desk = "stock" => Stock!TypeOK /\ Journeys

LEMMA StockDeskKept == Spec => []Stocking
<1>1. Init => Stocking
  <2> SUFFICES ASSUME Init, desk = "stock" PROVE Stock!TypeOK /\ Journeys
    BY DEF Stocking
  <2>1. Stock!Init
    BY DeskStarts
  <2> QED
    BY <2>1 DEF Stock!Init, Stock!TypeOK, Journeys, Stock!Ledger
<1>2. Stocking /\ [Next]_vars => Stocking'
  <2> SUFFICES ASSUME Stocking, [Next]_vars PROVE Stocking'
    OBVIOUS
  <2>1. desk' = desk
    BY DeskSteps
  <2>2. CASE desk = "stock"
    <3>1. Stock!TypeOK /\ Journeys /\ (Stock!Next \/ UNCHANGED Stock!vars)
      BY <2>2, DeskSteps DEF Stocking
    <3> QED
      BY <2>1, <3>1, StockTypes DEF Stocking
  <2>3. CASE desk # "stock"
    BY <2>1, <2>3 DEF Stocking
  <2> QED
    BY <2>2, <2>3
<1> QED
  BY <1>1, <1>2, PTL DEF Spec

\* What came into the firm and did not leave it is in its places, a shortage shows in one of them
\* and a part that ran out is to be reordered: for every ledger, all parts and all quantities
\* (parts.ts adds balances up, and stores none).
THEOREM StockAlwaysConserved == Spec => []StockConserved
<1>1. Stocking => StockConserved
  BY StockSuffices DEF Stocking, StockConserved
<1> QED
  BY <1>1, StockDeskKept, PTL
-----------------------------------------------------------------------------
(***************************************************************************)
(* The sales desk: from a call to a customer.                               *)
(***************************************************************************)

SalesConvert == {"customer", "site", "contact", "mark", "job"}

\* What a request holds, by the statement it executes next: a lead that is on file, with the
\* number it is called under, and what the customer it has inserted is ready for.
SalesHeld(w) ==
    LET r == req[w] IN
    /\ r.pc \in {"idle", "capture", "patch"} \cup SalesConvert
    /\ r.pc \in {"idle", "capture", "patch", "customer"} => r.customer = None
    /\ r.pc = "patch" =>
        /\ r.lead \in Sales!OnFile(lead) /\ r.was \in [stage : Sales!Stages, dated : BOOLEAN]
        /\ r.was.stage = "OPEN" => r.was.dated \/ r.lead \in reopened
    /\ r.pc \in SalesConvert =>
        r.lead = None \/ (r.lead \in Sales!OnFile(lead) /\ r.phone = lead[r.lead].phone)
    /\ r.pc \in {"site", "contact", "mark", "job"} =>
        r.customer \in Sales!OnFile(customer) /\ customer[r.customer].from = r.lead
    /\ r.pc \in {"contact", "mark"} => customer[r.customer].site
    /\ r.pc = "contact" => r.phone # None
    /\ r.pc = "mark" => r.phone = None \/ r.phone \in customer[r.customer].contacts
    /\ r.pc \in {"mark", "job"} => r.lead # None

LEMMA SalesConstants ==
  /\ MaxNumber \in Nat
  /\ None \notin Sales!Stages \cup {"lead", "customer"}
  /\ None \notin SalesLeads \cup SalesCustomers \cup Sales!LeadRow \cup Sales!CustomerRow
  BY BackOfficeConstants DEF Sales!PipelineConstants

LEMMA SalesTypes ==
  ASSUME Sales!TypeOK, \A w \in Workers : SalesHeld(w), Sales!SalesNext \/ UNCHANGED Sales!vars
  PROVE  Sales!TypeOK'
<1> USE DEF Sales!Goto, Sales!Finish, Sales!Step, Sales!Begin, Sales!At, Sales!Advance, SalesConvert
<1>0. /\ lead \in [SalesLeads -> Sales!LeadRow \cup {None}]
      /\ customer \in [SalesCustomers -> Sales!CustomerRow \cup {None}]
      /\ contract \in [{} -> Sales!ContractRow \cup {None}]
      /\ series \in [Branches -> Nat] /\ req \in [Workers -> Sales!Request]
      /\ jobs \subseteq SalesLeads /\ refused \in BOOLEAN
      /\ reopened \subseteq SalesLeads /\ disturbed \subseteq SalesLeads \cup {}
      /\ Sales!Idle \in Sales!Request
      /\ Sales!OnFile(lead) = {l \in SalesLeads : lead[l] # None}
      /\ Sales!OnFile(customer) = {c \in SalesCustomers : customer[c] # None}
  BY DEF Sales!TypeOK, Sales!Idle, Sales!Request, Sales!OnFile
<1>r. ASSUME NEW w \in Workers
      PROVE  /\ req[w] \in Sales!Request
             /\ req[w].lead \in SalesLeads \cup {None} /\ req[w].customer \in SalesCustomers \cup {None}
             /\ req[w].contract = None /\ req[w].n \in Nat /\ req[w].phone \in Phones \cup {None}
             /\ [req[w] EXCEPT !.pc = "contact"] \in Sales!Request
             /\ [req[w] EXCEPT !.pc = "mark"] \in Sales!Request
             /\ [req[w] EXCEPT !.pc = "job"] \in Sales!Request
             /\ \A c \in SalesCustomers : [req[w] EXCEPT !.pc = "site", !.customer = c] \in Sales!Request
  <2>1. req[w] \in Sales!Request
    BY <1>0
  <2> QED
    BY <2>1 DEF Sales!Request
<1>i. ASSUME NEW l \in SalesLeads \cup {None}, NEW n \in Nat, NEW phone \in Phones \cup {None},
             NEW was \in [stage : Sales!Stages, dated : BOOLEAN] \cup {None}, NEW to \in {"job", "customer"}
      PROVE  /\ [Sales!Idle EXCEPT !.pc = "capture", !.n = n, !.phone = phone] \in Sales!Request
             /\ [Sales!Idle EXCEPT !.pc = "patch", !.lead = l, !.was = was] \in Sales!Request
             /\ [Sales!Idle EXCEPT !.pc = "customer", !.lead = l, !.phone = phone, !.to = to] \in Sales!Request
             /\ [Sales!Idle EXCEPT !.pc = "customer", !.phone = phone] \in Sales!Request
  <2> DEFINE idle == Sales!Idle
  <2>1. idle \in Sales!Request
    BY <1>0
  <2> HIDE DEF idle
  <2>2. /\ [idle EXCEPT !.pc = "capture", !.n = n, !.phone = phone] \in Sales!Request
        /\ [idle EXCEPT !.pc = "patch", !.lead = l, !.was = was] \in Sales!Request
    BY <2>1, ZenonT(60) DEF Sales!Request
  <2>3. /\ [idle EXCEPT !.pc = "customer", !.lead = l, !.phone = phone, !.to = to] \in Sales!Request
        /\ [idle EXCEPT !.pc = "customer", !.phone = phone] \in Sales!Request
    BY <2>1, ZenonT(60) DEF Sales!Request
  <2> QED
    BY <2>2, <2>3 DEF idle
<1>1. ASSUME NEW w \in Workers, NEW b \in Branches, NEW phone \in Phones, Sales!CaptureDraw(w, b, phone)
      PROVE  Sales!TypeOK'
  <2>1. [Sales!Idle EXCEPT !.pc = "capture", !.n = Sales!LeadNumber(b), !.phone = phone] \in Sales!Request
    <3>2. Sales!LeadNumber(b) \in Nat
      BY <1>0 DEF Sales!LeadNumber
    <3> QED
      BY <3>2, <1>i
  <2>2. Sales!LeadNumber(b) \in Nat
    BY <1>0 DEF Sales!LeadNumber
  <2> QED
    BY <1>0, <1>1, <2>1, <2>2 DEF Sales!CaptureDraw, Sales!TypeOK
<1>2. ASSUME NEW w \in Workers, Sales!CaptureInsert(w) PROVE Sales!TypeOK'
  <2>1. Sales!NewLead(req[w].n, req[w].phone, None) \in Sales!LeadRow
    BY <1>r DEF Sales!NewLead, Sales!LeadRow, Sales!Stages
  <2> QED
    BY <1>0, <1>2, <2>1 DEF Sales!CaptureInsert, Sales!TypeOK
<1>3. ASSUME NEW w \in Workers, NEW l \in SalesLeads, Sales!PatchRead(w, l) PROVE Sales!TypeOK'
  <2>1. [Sales!Idle EXCEPT !.pc = "patch", !.lead = l,
                     !.was = [stage |-> lead[l].stage, dated |-> lead[l].dated]] \in Sales!Request
    <3>1. lead[l] \in Sales!LeadRow
      BY <1>0, <1>3 DEF Sales!PatchRead
    <3>2. [stage |-> lead[l].stage, dated |-> lead[l].dated] \in [stage : Sales!Stages, dated : BOOLEAN]
      BY <3>1 DEF Sales!LeadRow
    <3> QED
      BY <3>2, <1>i, <1>0
  <2> QED
    BY <1>0, <1>3, <2>1 DEF Sales!PatchRead, Sales!TypeOK
<1>4. ASSUME NEW w \in Workers, NEW stage \in Sales!Stages \cup {None}, NEW date \in {"set", "keep", "clear"},
             Sales!PatchWrite(w, stage, date)
      PROVE  Sales!TypeOK'
  <2>1. PICK l \in SalesLeads, was \in [stage : Sales!Stages, dated : BOOLEAN] :
            l = req[w].lead /\ was = req[w].was /\ lead[l] \in Sales!LeadRow
    BY <1>0, <1>4 DEF Sales!PatchWrite, SalesHeld
  <2> DEFINE set == IF stage = None THEN was.stage ELSE stage
             dated == stage \notin Sales!Terminal /\ date # "clear" /\ (date = "set" \/ was.dated)
  <2>2. lead' = [lead EXCEPT ![l] = [lead[l] EXCEPT !.stage = set, !.dated = dated]]
    BY <1>0, <1>4, <2>1 DEF Sales!PatchWrite, Sales!LeadRow
  <2>3. [lead[l] EXCEPT !.stage = set, !.dated = dated] \in Sales!LeadRow
    <3>1. set \in Sales!Stages /\ dated \in BOOLEAN
      BY <2>1
    <3> HIDE DEF set, dated
    <3> QED
      BY <2>1, <3>1 DEF Sales!LeadRow
  <2>4. reopened' \subseteq SalesLeads
    BY <1>0, <1>4, <2>1 DEF Sales!PatchWrite
  <2>5. lead' \in [SalesLeads -> Sales!LeadRow \cup {None}]
    <3> HIDE DEF set, dated
    <3> QED
      BY <1>0, <2>2, <2>3
  <2>6. /\ req' \in [Workers -> Sales!Request]
        /\ UNCHANGED <<customer, contract, series, jobs, refused, disturbed>>
    BY <1>0, <1>4 DEF Sales!PatchWrite
  <2> QED
    BY <1>0, <2>4, <2>5, <2>6 DEF Sales!TypeOK
<1>5. ASSUME NEW w \in Workers, NEW l \in SalesLeads, NEW to \in {"job", "customer"},
             Sales!ConvertRead(w, l, to)
      PROVE  Sales!TypeOK'
  <2>1. [Sales!Idle EXCEPT !.pc = "customer", !.lead = l, !.phone = lead[l].phone, !.to = to] \in Sales!Request
    <3>1. lead[l] \in Sales!LeadRow
      BY <1>0, <1>5 DEF Sales!ConvertRead
    <3>2. lead[l].phone \in Phones \cup {None}
      BY <3>1 DEF Sales!LeadRow
    <3> QED
      BY <3>2, <1>i, <1>0
  <2> QED
    BY <1>0, <1>5, <2>1 DEF Sales!ConvertRead, Sales!TypeOK
<1>6. ASSUME NEW w \in Workers, NEW phone \in Phones \cup {None}, Sales!CustomerPost(w, phone)
      PROVE  Sales!TypeOK'
  <2>1. [Sales!Idle EXCEPT !.pc = "customer", !.phone = phone] \in Sales!Request
    BY <1>i, <1>0
  <2> QED
    BY <1>0, <1>6, <2>1 DEF Sales!CustomerPost, Sales!TypeOK
<1>7. ASSUME NEW w \in Workers, Sales!CustomerInsert(w) PROVE Sales!TypeOK'
  <2>1. PICK c \in SalesCustomers :
            /\ customer' = [customer EXCEPT ![c] = [from |-> req[w].lead, site |-> FALSE, contacts |-> {}]]
            /\ req' = [req EXCEPT ![w] = [req[w] EXCEPT !.pc = "site", !.customer = c]]
    BY <1>0, <1>7 DEF Sales!CustomerInsert
  <2>2. [from |-> req[w].lead, site |-> FALSE, contacts |-> {}] \in Sales!CustomerRow
    BY <1>r DEF Sales!CustomerRow
  <2>3. [req[w] EXCEPT !.pc = "site", !.customer = c] \in Sales!Request
    BY <1>r
  <2> QED
    BY <1>0, <1>7, <2>1, <2>2, <2>3 DEF Sales!CustomerInsert, Sales!TypeOK
<1>8. ASSUME NEW w \in Workers, Sales!SiteInsert(w) \/ Sales!ContactInsert(w) PROVE Sales!TypeOK'
  <2>1. PICK c \in SalesCustomers : c = req[w].customer /\ customer[c] \in Sales!CustomerRow
    BY <1>0, <1>8 DEF Sales!SiteInsert, Sales!ContactInsert, SalesHeld
  <2>2. PICK row \in Sales!CustomerRow : customer' = [customer EXCEPT ![c] = row]
    <3>1. /\ [customer[c] EXCEPT !.site = TRUE] \in Sales!CustomerRow
          /\ req[w].phone \in Phones =>
                [customer[c] EXCEPT !.contacts = @ \cup {req[w].phone}] \in Sales!CustomerRow
      BY <2>1 DEF Sales!CustomerRow
    <3>2. Sales!ContactInsert(w) => req[w].phone \in Phones
        BY <1>r DEF SalesHeld, Sales!ContactInsert
    <3> QED
      BY <1>0, <1>8, <2>1, <3>1, <3>2 DEF Sales!SiteInsert, Sales!ContactInsert
  <2>3. req' \in [Workers -> Sales!Request]
    BY <1>0, <1>8, <1>r DEF Sales!SiteInsert, Sales!ContactInsert, Sales!AfterSite, Sales!AfterContact
  <2> QED
    BY <1>0, <1>8, <2>2, <2>3 DEF Sales!SiteInsert, Sales!ContactInsert, Sales!TypeOK
<1>9. ASSUME NEW w \in Workers, Sales!ConvertMark(w) PROVE Sales!TypeOK'
  <2>1. PICK l \in SalesLeads, c \in SalesCustomers :
            l = req[w].lead /\ c = req[w].customer /\ lead[l] \in Sales!LeadRow
    BY <1>0, <1>9 DEF Sales!ConvertMark, SalesHeld
  <2>2. lead' = [lead EXCEPT ![l] = [lead[l] EXCEPT !.stage = "WON", !.dated = FALSE, !.converted = c]]
    BY <1>0, <1>9, <2>1 DEF Sales!ConvertMark, Sales!LeadRow
  <2>3. [lead[l] EXCEPT !.stage = "WON", !.dated = FALSE, !.converted = c] \in Sales!LeadRow
    BY <2>1 DEF Sales!LeadRow, Sales!Stages
  <2>4. req' \in [Workers -> Sales!Request]
    BY <1>0, <1>9, <1>r DEF Sales!ConvertMark
  <2>5. lead' \in [SalesLeads -> Sales!LeadRow \cup {None}]
    BY <1>0, <2>2, <2>3
  <2>6. UNCHANGED <<customer, contract, series, jobs, refused, reopened, disturbed>>
    BY <1>9 DEF Sales!ConvertMark
  <2> QED
    BY <1>0, <2>4, <2>5, <2>6 DEF Sales!TypeOK
<1>10. ASSUME NEW w \in Workers, Sales!ConvertJob(w) PROVE Sales!TypeOK'
  <2>1. req[w].lead \in SalesLeads
    BY <1>0, <1>10 DEF Sales!ConvertJob, SalesHeld
  <2> QED
    BY <1>0, <1>10, <2>1 DEF Sales!ConvertJob, Sales!TypeOK
<1>11. ASSUME NEW w \in Workers, Sales!Crash(w) PROVE Sales!TypeOK'
  <2>1. {req[w].lead, req[w].contract} \ {None} \subseteq SalesLeads
    BY <1>r
  <2> QED
    BY <1>0, <1>11, <2>1 DEF Sales!Crash, Sales!TypeOK
<1>12. ASSUME NEW c \in SalesCustomers, NEW phone \in Phones, Sales!ContactAdd(c, phone)
       PROVE  Sales!TypeOK'
  <2>1. [customer[c] EXCEPT !.contacts = @ \cup {phone}] \in Sales!CustomerRow
    BY <1>0, <1>12 DEF Sales!ContactAdd, Sales!CustomerRow
  <2> QED
    BY <1>0, <1>12, <2>1 DEF Sales!ContactAdd, Sales!TypeOK
<1>13. CASE UNCHANGED Sales!vars
  BY <1>0, <1>13 DEF Sales!vars, Sales!TypeOK
<1> QED
  BY <1>1, <1>2, <1>3, <1>4, <1>5, <1>6, <1>7, <1>8, <1>9, <1>10, <1>11, <1>12, <1>13
     DEF Sales!SalesNext, Sales!LeadStep, Sales!ConvertStep

LEMMA SalesRows ==
  ASSUME Sales!TypeOK
  PROVE  /\ Sales!OnFile(lead) = {l \in SalesLeads : lead[l] # None}
         /\ Sales!OnFile(customer) = {c \in SalesCustomers : customer[c] # None}
         /\ \A l \in Sales!OnFile(lead) : l \in SalesLeads /\ lead[l] \in Sales!LeadRow
         /\ \A c \in Sales!OnFile(customer) : c \in SalesCustomers /\ customer[c] \in Sales!CustomerRow
<1>1. /\ lead \in [SalesLeads -> Sales!LeadRow \cup {None}]
      /\ customer \in [SalesCustomers -> Sales!CustomerRow \cup {None}]
  BY DEF Sales!TypeOK
<1>2. /\ Sales!OnFile(lead) = {l \in SalesLeads : lead[l] # None}
      /\ Sales!OnFile(customer) = {c \in SalesCustomers : customer[c] # None}
  BY <1>1 DEF Sales!OnFile
<1> QED
  BY <1>1, <1>2

\* What a statement does to the row it names.
LEMMA PatchEffect ==
  ASSUME Sales!TypeOK, NEW w \in Workers, SalesHeld(w), NEW stage \in Sales!Stages \cup {None},
         NEW date \in {"set", "keep", "clear"}, Sales!PatchWrite(w, stage, date)
  PROVE  \E l \in Sales!OnFile(lead), was \in [stage : Sales!Stages, dated : BOOLEAN] :
            /\ req[w].pc = "patch" /\ l = req[w].lead /\ was = req[w].was
            /\ lead'[l] # None
            /\ lead'[l].stage = IF stage = None THEN was.stage ELSE stage
            /\ lead'[l].dated = (stage \notin Sales!Terminal /\ date # "clear" /\ (date = "set" \/ was.dated))
            /\ lead'[l].number = lead[l].number /\ lead'[l].phone = lead[l].phone
            /\ lead'[l].converted = lead[l].converted
            /\ \A m \in SalesLeads \ {l} : lead'[m] = lead[m]
<1>1. PICK l \in Sales!OnFile(lead), was \in [stage : Sales!Stages, dated : BOOLEAN] :
        req[w].pc = "patch" /\ l = req[w].lead /\ was = req[w].was
  BY DEF Sales!PatchWrite, SalesHeld, Sales!At
<1>2. l \in SalesLeads /\ lead[l] \in Sales!LeadRow /\ lead \in [SalesLeads -> Sales!LeadRow \cup {None}]
  BY <1>1, SalesRows DEF Sales!TypeOK
<1> DEFINE set == IF stage = None THEN was.stage ELSE stage
           dated == stage \notin Sales!Terminal /\ date # "clear" /\ (date = "set" \/ was.dated)
           row == [lead[l] EXCEPT !.stage = set, !.dated = dated]
<1>3. lead' = [lead EXCEPT ![l] = row]
  BY <1>1, <1>2 DEF Sales!PatchWrite, Sales!LeadRow
<1>4. set \in Sales!Stages /\ dated \in BOOLEAN
  BY <1>1
<1> HIDE DEF set, dated
<1>5. /\ row \in Sales!LeadRow /\ row.stage = set /\ row.dated = dated
      /\ row.number = lead[l].number /\ row.phone = lead[l].phone /\ row.converted = lead[l].converted
  BY <1>2, <1>4 DEF Sales!LeadRow
<1> HIDE DEF row
<1>6. lead'[l] = row /\ row # None /\ \A m \in SalesLeads \ {l} : lead'[m] = lead[m]
  BY <1>2, <1>3, <1>5, SalesConstants
<1> QED
  BY <1>1, <1>5, <1>6 DEF set, dated

LEMMA MarkEffect ==
  ASSUME Sales!TypeOK, NEW w \in Workers, SalesHeld(w), Sales!ConvertMark(w)
  PROVE  \E l \in Sales!OnFile(lead), c \in Sales!OnFile(customer) :
            /\ req[w].pc = "mark" /\ l = req[w].lead /\ c = req[w].customer
            /\ lead'[l] # None
            /\ lead'[l].stage = "WON" /\ lead'[l].converted = c
            /\ lead'[l].number = lead[l].number /\ lead'[l].phone = lead[l].phone
            /\ \A m \in SalesLeads \ {l} : lead'[m] = lead[m]
<1>1. PICK l \in Sales!OnFile(lead), c \in Sales!OnFile(customer) :
        req[w].pc = "mark" /\ l = req[w].lead /\ c = req[w].customer
  BY DEF Sales!ConvertMark, SalesHeld, Sales!At, SalesConvert
<1>2. /\ l \in SalesLeads /\ lead[l] \in Sales!LeadRow /\ lead \in [SalesLeads -> Sales!LeadRow \cup {None}]
      /\ c \in SalesCustomers
  BY <1>1, SalesRows DEF Sales!TypeOK
<1> DEFINE row == [lead[l] EXCEPT !.stage = "WON", !.dated = FALSE, !.converted = c]
<1>3. lead' = [lead EXCEPT ![l] = row]
  BY <1>1, <1>2 DEF Sales!ConvertMark, Sales!LeadRow
<1>5. /\ row \in Sales!LeadRow /\ row.stage = "WON" /\ row.converted = c
      /\ row.number = lead[l].number /\ row.phone = lead[l].phone
  BY <1>2 DEF Sales!LeadRow, Sales!Stages
<1> HIDE DEF row
<1>6. lead'[l] = row /\ row # None /\ \A m \in SalesLeads \ {l} : lead'[m] = lead[m]
  BY <1>2, <1>3, <1>5, SalesConstants
<1> QED
  BY <1>1, <1>5, <1>6

LEMMA CaptureEffect ==
  ASSUME Sales!TypeOK, NEW w \in Workers, Sales!CaptureInsert(w), ~Sales!Taken(req[w].n)
  PROVE  \E l \in SalesLeads \ Sales!OnFile(lead) :
            /\ lead'[l] # None /\ lead'[l].number = req[w].n /\ lead'[l].phone = req[w].phone
            /\ lead'[l].stage = "OPEN" /\ lead'[l].dated = TRUE /\ lead'[l].converted = None
            /\ \A m \in SalesLeads \ {l} : lead'[m] = lead[m]
<1>1. /\ lead \in [SalesLeads -> Sales!LeadRow \cup {None}]
      /\ req[w].n \in Nat /\ req[w].phone \in Phones \cup {None}
  <2>1. req[w] \in Sales!Request
    BY DEF Sales!TypeOK
  <2> QED
    BY <2>1 DEF Sales!TypeOK, Sales!Request
<1> DEFINE row == Sales!NewLead(req[w].n, req[w].phone, None)
<1>2. PICK l \in SalesLeads \ Sales!OnFile(lead) : lead' = [lead EXCEPT ![l] = row]
  BY DEF Sales!CaptureInsert
<1>3. /\ row \in Sales!LeadRow /\ row.number = req[w].n /\ row.phone = req[w].phone
      /\ row.stage = "OPEN" /\ row.dated = TRUE /\ row.converted = None
  BY <1>1 DEF Sales!NewLead, Sales!LeadRow, Sales!Stages
<1> HIDE DEF row
<1> QED
  BY <1>1, <1>2, <1>3, SalesConstants

LEMMA InsertEffect ==
  ASSUME Sales!TypeOK, NEW w \in Workers, Sales!CustomerInsert(w)
  PROVE  \E c \in SalesCustomers \ Sales!OnFile(customer) :
            /\ customer'[c] # None /\ customer'[c].from = req[w].lead
            /\ \A d \in SalesCustomers \ {c} : customer'[d] = customer[d]
            /\ req' = [req EXCEPT ![w] = [req[w] EXCEPT !.pc = "site", !.customer = c]]
<1>1. /\ customer \in [SalesCustomers -> Sales!CustomerRow \cup {None}]
      /\ req[w].lead \in SalesLeads \cup {None}
  <2>1. req[w] \in Sales!Request
    BY DEF Sales!TypeOK
  <2> QED
    BY <2>1 DEF Sales!TypeOK, Sales!Request
<1> DEFINE row == [from |-> req[w].lead, site |-> FALSE, contacts |-> {}]
<1>2. PICK c \in SalesCustomers \ Sales!OnFile(customer) :
        /\ customer' = [customer EXCEPT ![c] = row]
        /\ req' = [req EXCEPT ![w] = [req[w] EXCEPT !.pc = "site", !.customer = c]]
  BY DEF Sales!CustomerInsert, Sales!Goto
<1>3. row \in Sales!CustomerRow /\ row.from = req[w].lead
  BY <1>1 DEF Sales!CustomerRow
<1> HIDE DEF row
<1> QED
  BY <1>1, <1>2, <1>3, SalesConstants

LEMMA ContactEffect ==
  ASSUME Sales!TypeOK, NEW c \in Sales!OnFile(customer), NEW phone \in Phones,
         customer' = [customer EXCEPT ![c].contacts = @ \cup {phone}]
  PROVE  /\ customer'[c] # None /\ customer'[c].from = customer[c].from
         /\ customer'[c].site = customer[c].site /\ customer'[c].contacts = customer[c].contacts \cup {phone}
         /\ \A d \in SalesCustomers \ {c} : customer'[d] = customer[d]
<1>1. /\ customer \in [SalesCustomers -> Sales!CustomerRow \cup {None}]
      /\ c \in SalesCustomers /\ customer[c] \in Sales!CustomerRow
  BY SalesRows DEF Sales!TypeOK
<1> DEFINE row == [customer[c] EXCEPT !.contacts = @ \cup {phone}]
<1>2. customer' = [customer EXCEPT ![c] = row]
  BY <1>1 DEF Sales!CustomerRow
<1>3. /\ row \in Sales!CustomerRow /\ row.from = customer[c].from /\ row.site = customer[c].site
      /\ row.contacts = customer[c].contacts \cup {phone}
  BY <1>1 DEF Sales!CustomerRow
<1> HIDE DEF row
<1> QED
  BY <1>1, <1>2, <1>3, SalesConstants

LEMMA SiteEffect ==
  ASSUME Sales!TypeOK, NEW c \in Sales!OnFile(customer),
         customer' = [customer EXCEPT ![c].site = TRUE]
  PROVE  /\ customer'[c] # None /\ customer'[c].from = customer[c].from
         /\ customer'[c].site = TRUE /\ customer'[c].contacts = customer[c].contacts
         /\ \A d \in SalesCustomers \ {c} : customer'[d] = customer[d]
<1>1. /\ customer \in [SalesCustomers -> Sales!CustomerRow \cup {None}]
      /\ c \in SalesCustomers /\ customer[c] \in Sales!CustomerRow
  BY SalesRows DEF Sales!TypeOK
<1> DEFINE row == [customer[c] EXCEPT !.site = TRUE]
<1>2. customer' = [customer EXCEPT ![c] = row]
  BY <1>1 DEF Sales!CustomerRow
<1>3. /\ row \in Sales!CustomerRow /\ row.from = customer[c].from /\ row.site = TRUE
      /\ row.contacts = customer[c].contacts
  BY <1>1 DEF Sales!CustomerRow
<1> HIDE DEF row
<1> QED
  BY <1>1, <1>2, <1>3, SalesConstants

\* Nothing is taken off file: a lead keeps its number and its phone, a customer what it was
\* made from, its site and its contacts.
SalesGrow ==
    /\ \A l \in Sales!OnFile(lead) :
        /\ l \in Sales!OnFile(lead)'
        /\ lead'[l].number = lead[l].number /\ lead'[l].phone = lead[l].phone
    /\ \A c \in Sales!OnFile(customer) :
        /\ c \in Sales!OnFile(customer)'
        /\ customer'[c].from = customer[c].from
        /\ customer[c].site => customer'[c].site
        /\ customer[c].contacts \subseteq customer'[c].contacts
    /\ reopened \subseteq reopened' /\ disturbed \subseteq disturbed'

LEMMA SalesGrows ==
  ASSUME Sales!TypeOK, \A w \in Workers : SalesHeld(w), Sales!SalesNext, Sales!TypeOK'
  PROVE  SalesGrow
<1>0. /\ Sales!OnFile(lead) = {l \in SalesLeads : lead[l] # None}
      /\ Sales!OnFile(customer) = {c \in SalesCustomers : customer[c] # None}
      /\ Sales!OnFile(lead)' = {l \in SalesLeads : lead'[l] # None}
      /\ Sales!OnFile(customer)' = {c \in SalesCustomers : customer'[c] # None}
  <2>1. lead' \in [SalesLeads -> Sales!LeadRow \cup {None}] /\ customer' \in [SalesCustomers -> Sales!CustomerRow \cup {None}]
    BY DEF Sales!TypeOK
  <2> QED
    BY <2>1, SalesRows DEF Sales!OnFile
<1>1. ASSUME UNCHANGED <<lead, customer>>, reopened \subseteq reopened', disturbed \subseteq disturbed' PROVE SalesGrow
  BY <1>0, <1>1 DEF SalesGrow
<1>2. ASSUME NEW w \in Workers, Sales!LeadStep(w) PROVE SalesGrow
  <2>1. ASSUME NEW b \in Branches, NEW phone \in Phones, Sales!CaptureDraw(w, b, phone) PROVE SalesGrow
    BY <1>1, <2>1 DEF Sales!CaptureDraw
  <2>2. CASE Sales!CaptureInsert(w)
    <3>1. CASE Sales!Taken(req[w].n)
      BY <1>1, <2>2, <3>1 DEF Sales!CaptureInsert
    <3>2. CASE ~Sales!Taken(req[w].n)
      BY <1>0, <2>2, <3>2, CaptureEffect DEF Sales!CaptureInsert, SalesGrow
    <3> QED
      BY <3>1, <3>2
  <2>3. ASSUME NEW l \in SalesLeads, Sales!PatchRead(w, l) PROVE SalesGrow
    BY <1>1, <2>3 DEF Sales!PatchRead
  <2>4. ASSUME NEW stage \in Sales!Stages \cup {None}, NEW date \in {"set", "keep", "clear"},
               Sales!PatchWrite(w, stage, date)
        PROVE  SalesGrow
    <3>1. PICK l \in Sales!OnFile(lead) :
            /\ lead'[l] # None
            /\ lead'[l].number = lead[l].number /\ lead'[l].phone = lead[l].phone
            /\ \A m \in SalesLeads \ {l} : lead'[m] = lead[m]
      BY <2>4, PatchEffect
    <3>2. UNCHANGED <<customer, disturbed>> /\ reopened \subseteq reopened'
      BY <2>4 DEF Sales!PatchWrite
    <3> QED
      BY <1>0, <3>1, <3>2 DEF SalesGrow
  <2> QED
    BY <1>2, <2>1, <2>2, <2>3, <2>4 DEF Sales!LeadStep
<1>3. ASSUME NEW c \in Sales!OnFile(customer), NEW phone \in Phones,
             customer' = [customer EXCEPT ![c].contacts = @ \cup {phone}],
             UNCHANGED <<lead, reopened, disturbed>>
      PROVE  SalesGrow
  BY <1>0, <1>3, ContactEffect, ZenonT(60) DEF SalesGrow
<1>4. ASSUME NEW w \in Workers, Sales!ConvertStep(w) PROVE SalesGrow
  <2>1. ASSUME NEW l \in SalesLeads, NEW to \in {"job", "customer"}, Sales!ConvertRead(w, l, to) PROVE SalesGrow
    BY <1>1, <2>1 DEF Sales!ConvertRead
  <2>2. ASSUME NEW phone \in Phones \cup {None}, Sales!CustomerPost(w, phone) PROVE SalesGrow
    BY <1>1, <2>2 DEF Sales!CustomerPost
  <2>3. CASE Sales!CustomerInsert(w)
    BY <1>0, <2>3, InsertEffect DEF Sales!CustomerInsert, SalesGrow
  <2>4. CASE Sales!SiteInsert(w)
    <3>1. PICK c \in Sales!OnFile(customer) : c = req[w].customer
      BY <2>4 DEF SalesHeld, Sales!SiteInsert, Sales!At
    <3>2. customer' = [customer EXCEPT ![c].site = TRUE] /\ UNCHANGED <<lead, reopened, disturbed>>
      BY <2>4, <3>1 DEF Sales!SiteInsert
    <3> QED
      BY <1>0, <3>2, SiteEffect DEF SalesGrow
  <2>5. CASE Sales!ContactInsert(w)
    <3>1. PICK c \in Sales!OnFile(customer) : c = req[w].customer
      BY <2>5 DEF SalesHeld, Sales!ContactInsert, Sales!At
    <3>2. req[w].phone \in Phones
      <4>1. req[w] \in Sales!Request
        BY DEF Sales!TypeOK
      <4> QED
        BY <2>5, <4>1 DEF SalesHeld, Sales!ContactInsert, Sales!At, Sales!Request
    <3>3. customer' = [customer EXCEPT ![c].contacts = @ \cup {req[w].phone}] /\ UNCHANGED <<lead, reopened, disturbed>>
      BY <2>5, <3>1, SMTT(40) DEF Sales!ContactInsert
    <3> QED
      BY <1>3, <3>2, <3>3
  <2>6. CASE Sales!ConvertMark(w)
    BY <1>0, <2>6, MarkEffect DEF Sales!ConvertMark, SalesGrow
  <2>7. CASE Sales!ConvertJob(w)
    BY <1>1, <2>7 DEF Sales!ConvertJob
  <2> QED
    BY <1>4, <2>1, <2>2, <2>3, <2>4, <2>5, <2>6, <2>7 DEF Sales!ConvertStep
<1>5. ASSUME NEW w \in Workers, Sales!Crash(w) PROVE SalesGrow
  BY <1>1, <1>5 DEF Sales!Crash
<1>6. ASSUME NEW c \in SalesCustomers, NEW phone \in Phones, Sales!ContactAdd(c, phone) PROVE SalesGrow
  BY <1>3, <1>6 DEF Sales!ContactAdd
<1> QED
  BY <1>2, <1>4, <1>5, <1>6 DEF Sales!SalesNext

LEMMA SalesRequests ==
  ASSUME Sales!TypeOK, NEW w \in Workers
  PROVE  /\ req[w].lead \in SalesLeads \cup {None} /\ req[w].customer \in SalesCustomers \cup {None}
         /\ req[w].contract = None /\ req[w].n \in Nat /\ req[w].phone \in Phones \cup {None}
<1>1. req[w] \in Sales!Request
  BY DEF Sales!TypeOK
<1> QED
  BY <1>1 DEF Sales!Request

\* What the next request is, after a statement that begins one, or that goes on with it.
LEMMA SalesGoes ==
  ASSUME Sales!TypeOK, NEW w \in Workers, NEW r, Sales!Goto(w, r)
  PROVE  req'[w] = r /\ \A v \in Workers \ {w} : req'[v] = req[v]
<1>1. req \in [Workers -> Sales!Request]
  BY DEF Sales!TypeOK
<1> QED
  BY <1>1 DEF Sales!Goto

LEMMA SalesAdvances ==
  ASSUME Sales!TypeOK, NEW w \in Workers, NEW pc \in {"idle", "contact", "mark", "job"}, Sales!Advance(w, pc)
  PROVE  /\ pc = "idle" => req'[w] = Sales!Idle
         /\ pc # "idle" =>
              /\ req'[w].pc = pc /\ req'[w].lead = req[w].lead /\ req'[w].customer = req[w].customer
              /\ req'[w].phone = req[w].phone /\ req'[w].n = req[w].n /\ req'[w].to = req[w].to
         /\ \A v \in Workers \ {w} : req'[v] = req[v]
<1>1. req \in [Workers -> Sales!Request] /\ req[w] \in Sales!Request
  BY DEF Sales!TypeOK
<1>2. CASE pc = "idle"
  BY <1>1, <1>2 DEF Sales!Advance, Sales!Finish, Sales!Goto
<1>3. CASE pc # "idle"
  <2> DEFINE r == [req[w] EXCEPT !.pc = pc]
  <2>1. /\ r.pc = pc /\ r.lead = req[w].lead /\ r.customer = req[w].customer
        /\ r.phone = req[w].phone /\ r.n = req[w].n /\ r.to = req[w].to
    BY <1>1 DEF Sales!Request
  <2>2. req' = [req EXCEPT ![w] = r]
    BY <1>3 DEF Sales!Advance, Sales!Step, Sales!Goto
  <2> HIDE DEF r
  <2> QED
    BY <1>1, <1>3, <2>1, <2>2
<1> QED
  BY <1>2, <1>3

LEMMA SalesIdle ==
  ASSUME Sales!TypeOK, NEW w \in Workers, req'[w] = Sales!Idle
  PROVE  SalesHeld(w)'
  BY DEF SalesHeld, Sales!Idle, SalesConvert

LEMMA SalesHeldStays ==
  ASSUME Sales!TypeOK, SalesGrow, NEW w \in Workers, SalesHeld(w), req'[w] = req[w]
  PROVE  SalesHeld(w)'
<1> DEFINE r == req[w]
<1>1. r.lead \in Sales!OnFile(lead) => r.lead \in Sales!OnFile(lead)' /\ lead'[r.lead].phone = lead[r.lead].phone
  BY DEF SalesGrow
<1>2. r.customer \in Sales!OnFile(customer) =>
        /\ r.customer \in Sales!OnFile(customer)' /\ customer'[r.customer].from = customer[r.customer].from
        /\ customer[r.customer].site => customer'[r.customer].site
        /\ customer[r.customer].contacts \subseteq customer'[r.customer].contacts
  BY DEF SalesGrow
<1>3. reopened \subseteq reopened'
  BY DEF SalesGrow
<1> QED
  BY <1>1, <1>2, <1>3 DEF SalesHeld, SalesConvert

LEMMA SalesHeldKept ==
  ASSUME Sales!TypeOK, Sales!TypeOK', \A w \in Workers : SalesHeld(w), SalesGrow, Sales!QueuedIsDated,
         Sales!SalesNext
  PROVE  \A w \in Workers : SalesHeld(w)'
<1>1. ASSUME NEW w \in Workers, SalesHeld(w)', \A v \in Workers \ {w} : req'[v] = req[v]
      PROVE  \A v \in Workers : SalesHeld(v)'
  BY <1>1, SalesHeldStays
<1>6. ASSUME NEW c \in Sales!OnFile(customer), NEW phone \in Phones,
             customer' = [customer EXCEPT ![c].contacts = @ \cup {phone}]
      PROVE  phone \in customer'[c].contacts
  <2>1. /\ customer'[c] # None /\ customer'[c].from = customer[c].from
        /\ customer'[c].site = customer[c].site /\ customer'[c].contacts = customer[c].contacts \cup {phone}
        /\ \A d \in SalesCustomers \ {c} : customer'[d] = customer[d]
    BY <1>6, ContactEffect
  <2> QED
    BY <2>1
<1>2. ASSUME NEW w \in Workers, Sales!LeadStep(w) PROVE \A v \in Workers : SalesHeld(v)'
  <2>1. ASSUME NEW b \in Branches, NEW phone \in Phones, Sales!CaptureDraw(w, b, phone) PROVE SalesHeld(w)'
    <3>1. req'[w] = [Sales!Idle EXCEPT !.pc = "capture", !.n = Sales!LeadNumber(b), !.phone = phone]
      BY <2>1, SalesGoes DEF Sales!CaptureDraw, Sales!Begin
    <3>2. req'[w].pc = "capture" /\ req'[w].customer = None
      BY <3>1 DEF Sales!Idle
    <3> QED
      BY <3>2 DEF SalesHeld, SalesConvert
  <2>2. ASSUME Sales!CaptureInsert(w) PROVE SalesHeld(w)'
    <3>1. req'[w] = Sales!Idle
      BY <2>2, SalesGoes DEF Sales!CaptureInsert, Sales!Finish
    <3> QED
      BY <3>1, SalesIdle
  <2>3. ASSUME NEW l \in SalesLeads, Sales!PatchRead(w, l) PROVE SalesHeld(w)'
    <3> DEFINE was == [stage |-> lead[l].stage, dated |-> lead[l].dated]
    <3>1. req'[w] = [Sales!Idle EXCEPT !.pc = "patch", !.lead = l, !.was = was]
      BY <2>3, SalesGoes DEF Sales!PatchRead, Sales!Begin
    <3>2. l \in Sales!OnFile(lead) /\ lead[l] \in Sales!LeadRow
      BY <2>3, SalesRows DEF Sales!PatchRead
    <3>3. /\ was \in [stage : Sales!Stages, dated : BOOLEAN]
          /\ was.stage = "OPEN" => was.dated \/ l \in reopened
      BY <3>2 DEF Sales!LeadRow, Sales!QueuedIsDated, Sales!Queue, Sales!Terminal
    <3> HIDE DEF was
    <3>4. req'[w].pc = "patch" /\ req'[w].customer = None /\ req'[w].lead = l /\ req'[w].was = was
      BY <3>1 DEF Sales!Idle
    <3>5. l \in Sales!OnFile(lead)' /\ reopened \subseteq reopened'
      BY <3>2 DEF SalesGrow
    <3> QED
      BY <3>3, <3>4, <3>5 DEF SalesHeld, SalesConvert
  <2>4. ASSUME NEW stage \in Sales!Stages \cup {None}, NEW date \in {"set", "keep", "clear"},
               Sales!PatchWrite(w, stage, date)
        PROVE  SalesHeld(w)'
    <3>1. req'[w] = Sales!Idle
      BY <2>4, SalesGoes, SMTT(40) DEF Sales!PatchWrite, Sales!Finish
    <3> QED
      BY <3>1, SalesIdle
  <2>5. \A v \in Workers \ {w} : req'[v] = req[v]
    BY <1>2, SalesGoes DEF Sales!LeadStep, Sales!CaptureDraw, Sales!CaptureInsert, Sales!PatchRead,
       Sales!PatchWrite, Sales!Begin, Sales!Finish
  <2> QED
    BY <1>1, <1>2, <2>1, <2>2, <2>3, <2>4, <2>5 DEF Sales!LeadStep
<1>3. ASSUME NEW w \in Workers, Sales!ConvertStep(w) PROVE \A v \in Workers : SalesHeld(v)'
  <2>1. ASSUME NEW l \in SalesLeads, NEW to \in {"job", "customer"}, Sales!ConvertRead(w, l, to) PROVE SalesHeld(w)'
    <3>1. req'[w] = [Sales!Idle EXCEPT !.pc = "customer", !.lead = l, !.phone = lead[l].phone, !.to = to]
      BY <2>1, SalesGoes DEF Sales!ConvertRead, Sales!Begin
    <3>2. l \in Sales!OnFile(lead)' /\ lead'[l].phone = lead[l].phone
      BY <2>1 DEF SalesGrow, Sales!ConvertRead
    <3>3. req'[w].pc = "customer" /\ req'[w].customer = None /\ req'[w].lead = l /\ req'[w].phone = lead[l].phone
      BY <3>1 DEF Sales!Idle
    <3> QED
      BY <3>2, <3>3 DEF SalesHeld, SalesConvert
  <2>2. ASSUME NEW phone \in Phones \cup {None}, Sales!CustomerPost(w, phone) PROVE SalesHeld(w)'
    <3>1. req'[w] = [Sales!Idle EXCEPT !.pc = "customer", !.phone = phone]
      BY <2>2, SalesGoes DEF Sales!CustomerPost, Sales!Begin
    <3>2. req'[w].pc = "customer" /\ req'[w].customer = None /\ req'[w].lead = None
      BY <3>1 DEF Sales!Idle
    <3> QED
      BY <3>2 DEF SalesHeld, SalesConvert
  <2>3. ASSUME Sales!CustomerInsert(w) PROVE SalesHeld(w)'
    <3>1. PICK c \in SalesCustomers :
            /\ customer'[c] # None /\ customer'[c].from = req[w].lead
            /\ req' = [req EXCEPT ![w] = [req[w] EXCEPT !.pc = "site", !.customer = c]]
      BY <2>3, InsertEffect
    <3>2. req \in [Workers -> Sales!Request] /\ req[w] \in Sales!Request
      BY DEF Sales!TypeOK
    <3>3. /\ req'[w].pc = "site" /\ req'[w].customer = c /\ req'[w].lead = req[w].lead
          /\ req'[w].phone = req[w].phone
      BY <3>1, <3>2 DEF Sales!Request
    <3>4. c \in Sales!OnFile(customer)'
      <4>1. customer' \in [SalesCustomers -> Sales!CustomerRow \cup {None}]
        BY DEF Sales!TypeOK
      <4> QED
        BY <3>1, <4>1 DEF Sales!OnFile
    <3>5. \/ req[w].lead = None
          \/ req[w].lead \in Sales!OnFile(lead)' /\ req[w].phone = lead'[req[w].lead].phone
      BY <2>3 DEF SalesHeld, SalesConvert, SalesGrow, Sales!CustomerInsert, Sales!At
    <3> QED
      BY <3>1, <3>3, <3>4, <3>5 DEF SalesHeld, SalesConvert
  <2> DEFINE r == req[w]
             After(pc) ==
                /\ pc = "idle" => req'[w] = Sales!Idle
                /\ pc # "idle" =>
                    /\ req'[w].pc = pc /\ req'[w].lead = r.lead /\ req'[w].customer = r.customer
                    /\ req'[w].phone = r.phone
  <2>4. /\ r.lead \in Sales!OnFile(lead) => r.lead \in Sales!OnFile(lead)' /\ lead'[r.lead].phone = lead[r.lead].phone
        /\ r.customer \in Sales!OnFile(customer) =>
            /\ r.customer \in Sales!OnFile(customer)' /\ customer'[r.customer].from = customer[r.customer].from
            /\ customer[r.customer].site => customer'[r.customer].site
            /\ customer[r.customer].contacts \subseteq customer'[r.customer].contacts
    BY DEF SalesGrow
  <2>5. ASSUME Sales!SiteInsert(w) PROVE SalesHeld(w)'
    <3>1. After(Sales!AfterSite(r)) /\ r.pc = "site"
      BY <2>5, SalesAdvances DEF Sales!SiteInsert, Sales!AfterSite, Sales!AfterContact, Sales!At
    <3>2. customer'[r.customer].site
      BY <2>5, <3>1, SiteEffect DEF SalesHeld, Sales!SiteInsert
    <3> QED
      BY <2>4, <3>1, <3>2, SalesIdle DEF SalesHeld, SalesConvert, Sales!AfterSite, Sales!AfterContact
  <2>6. ASSUME Sales!ContactInsert(w) PROVE SalesHeld(w)'
    <3>1. After(Sales!AfterContact(r)) /\ r.pc = "contact"
      BY <2>6, SalesAdvances DEF Sales!ContactInsert, Sales!AfterContact, Sales!At
    <3>2. r.phone \in customer'[r.customer].contacts
      <4>1. r.customer \in Sales!OnFile(customer) /\ r.phone \in Phones
        BY <3>1, SalesRequests DEF SalesHeld
      <4>2. PICK c \in Sales!OnFile(customer), phone \in Phones :
              /\ c = r.customer /\ phone = r.phone
              /\ customer' = [customer EXCEPT ![c].contacts = @ \cup {phone}]
        BY <2>6, <4>1 DEF Sales!ContactInsert
      <4> QED
        BY <1>6, <4>2
    <3> QED
      BY <2>4, <3>1, <3>2, SalesIdle DEF SalesHeld, SalesConvert, Sales!AfterContact
  <2>7. ASSUME Sales!ConvertMark(w) PROVE SalesHeld(w)'
    <3>1. After(IF r.to = "job" THEN "job" ELSE "idle") /\ r.pc = "mark"
      BY <2>7, SalesAdvances DEF Sales!ConvertMark, Sales!At
    <3> QED
      BY <2>4, <3>1, SalesIdle DEF SalesHeld, SalesConvert
  <2>8. ASSUME Sales!ConvertJob(w) PROVE SalesHeld(w)'
    <3>1. req'[w] = Sales!Idle
      BY <2>8, SalesGoes, SMTT(40) DEF Sales!ConvertJob, Sales!Finish
    <3> QED
      BY <3>1, SalesIdle
  <2>9. \A v \in Workers \ {w} : req'[v] = req[v]
    <3>1. Sales!AfterSite(r) \in {"idle", "contact", "mark"} /\ Sales!AfterContact(r) \in {"idle", "mark"}
      BY DEF Sales!AfterSite, Sales!AfterContact
    <3> QED
      BY <1>3, <3>1, SalesGoes, SalesAdvances, ZenonT(60) DEF Sales!ConvertStep, Sales!ConvertRead, Sales!CustomerPost,
         Sales!CustomerInsert, Sales!SiteInsert, Sales!ContactInsert, Sales!ConvertMark, Sales!ConvertJob,
         Sales!Begin, Sales!Finish
  <2> QED
    BY <1>1, <1>3, <2>1, <2>2, <2>3, <2>5, <2>6, <2>7, <2>8, <2>9 DEF Sales!ConvertStep
<1>4. ASSUME NEW w \in Workers, Sales!Crash(w) PROVE \A v \in Workers : SalesHeld(v)'
  BY <1>1, <1>4, SalesGoes, SalesIdle DEF Sales!Crash, Sales!Finish
<1>5. ASSUME NEW c \in SalesCustomers, NEW phone \in Phones, Sales!ContactAdd(c, phone)
      PROVE  \A v \in Workers : SalesHeld(v)'
  BY <1>5, SalesHeldStays DEF Sales!ContactAdd
<1> QED
  BY <1>2, <1>3, <1>4, <1>5 DEF Sales!SalesNext

\* Two requests that convert one lead have disturbed it.  Otherwise it is not converted until
\* the one that converts it marks it.
Converting(w, l) == req[w].pc \in SalesConvert /\ req[w].lead = l

ConvertsAlone ==
    /\ \A v, w \in Workers, l \in SalesLeads :
        v # w /\ Converting(v, l) /\ Converting(w, l) => l \in disturbed
    /\ \A w \in Workers, l \in SalesLeads : Converting(w, l) =>
        \/ l \in disturbed
        \/ lead[l].converted = IF req[w].pc = "job" THEN req[w].customer ELSE None

\* Whoever was converted is a customer who can be called back.
Remembered ==
    \A l \in Sales!OnFile(lead) :
        lead[l].converted # None =>
            /\ lead[l].converted \in Sales!OnFile(customer)
            /\ lead[l].phone # None =>
                /\ customer[lead[l].converted].site
                /\ lead[l].phone \in customer[lead[l].converted].contacts

\* While one branch draws, all numbers are its, and those that callers wait for are on no lead.
DrawnAt(b, n) == b \in Branches /\ n \in 1 .. series[b]

BranchesDraw == \E a, b \in Branches : a # b /\ series[a] > 0 /\ series[b] > 0

SalesNumbered ==
    BranchesDraw \/
    /\ ~refused
    /\ \A l \in Sales!OnFile(lead) : \E b \in Branches : DrawnAt(b, lead[l].number)
    /\ \A w \in Workers : req[w].pc = "capture" =>
        /\ \E b \in Branches : DrawnAt(b, req[w].n)
        /\ ~Sales!Taken(req[w].n)
        /\ \A v \in Workers \ {w} : req[v].pc = "capture" => req[v].n # req[w].n

\* A statement that touches no lead, but for new ones.
LeadsStand == \A l \in Sales!OnFile(lead) : lead'[l] = lead[l]

LEMMA RememberedKept ==
  ASSUME Sales!TypeOK, Sales!TypeOK', \A w \in Workers : SalesHeld(w), SalesGrow, Remembered, Sales!SalesNext
  PROVE  Remembered'
<1>0. /\ Sales!OnFile(lead) = {l \in SalesLeads : lead[l] # None}
      /\ Sales!OnFile(lead)' = {l \in SalesLeads : lead'[l] # None}
  <2>1. lead' \in [SalesLeads -> Sales!LeadRow \cup {None}]
    BY DEF Sales!TypeOK
  <2> QED
    BY <2>1, SalesRows DEF Sales!OnFile
<1>1. ASSUME NEW l \in Sales!OnFile(lead), lead[l].converted # None, lead'[l].converted = lead[l].converted
      PROVE  /\ lead'[l].converted \in Sales!OnFile(customer)'
             /\ lead'[l].phone # None =>
                /\ customer'[lead'[l].converted].site
                /\ lead'[l].phone \in customer'[lead'[l].converted].contacts
  BY <1>1 DEF Remembered, SalesGrow
<1>2. ASSUME NEW w \in Workers, Sales!CaptureInsert(w) PROVE Remembered'
  <2>1. CASE Sales!Taken(req[w].n)
    BY <1>0, <1>1, <1>2, <2>1 DEF Sales!CaptureInsert, Remembered
  <2>2. CASE ~Sales!Taken(req[w].n)
    <3>1. PICK l \in SalesLeads \ Sales!OnFile(lead) :
            lead'[l].converted = None /\ \A m \in SalesLeads \ {l} : lead'[m] = lead[m]
      BY <1>2, <2>2, CaptureEffect
    <3> QED
      BY <1>0, <1>1, <3>1 DEF Remembered
  <2> QED
    BY <2>1, <2>2
<1>3. ASSUME NEW w \in Workers, NEW stage \in Sales!Stages \cup {None}, NEW date \in {"set", "keep", "clear"},
             Sales!PatchWrite(w, stage, date)
      PROVE  Remembered'
  <2>1. PICK l \in Sales!OnFile(lead) :
          lead'[l].converted = lead[l].converted /\ \A m \in SalesLeads \ {l} : lead'[m] = lead[m]
    BY <1>3, PatchEffect
  <2>2. \A m \in Sales!OnFile(lead) : lead'[m].converted = lead[m].converted
    BY <1>0, <2>1
  <2>3. Sales!OnFile(lead)' = Sales!OnFile(lead)
    BY <1>0, <2>1 DEF SalesGrow
  <2> QED
    BY <1>1, <2>2, <2>3 DEF Remembered
<1>4. ASSUME NEW w \in Workers, Sales!ConvertMark(w) PROVE Remembered'
  <2>1. PICK l \in Sales!OnFile(lead), c \in Sales!OnFile(customer) :
          /\ req[w].pc = "mark" /\ l = req[w].lead /\ c = req[w].customer
          /\ lead'[l].converted = c /\ lead'[l].phone = lead[l].phone
          /\ \A m \in SalesLeads \ {l} : lead'[m] = lead[m]
    BY <1>4, MarkEffect
  <2>2. req[w].phone = lead[l].phone
    <3>1. req[w].pc \in SalesConvert /\ req[w].lead # None
      BY <2>1 DEF SalesConvert, SalesHeld
    <3> QED
      BY <2>1, <3>1 DEF SalesHeld
  <2>3. customer[c].site /\ (lead[l].phone # None => lead[l].phone \in customer[c].contacts)
    BY <2>1, <2>2 DEF SalesHeld
  <2>4. /\ c \in Sales!OnFile(customer)' /\ customer'[c].site
        /\ lead[l].phone # None => lead[l].phone \in customer'[c].contacts
    BY <2>3 DEF SalesGrow
  <2>5. Sales!OnFile(lead)' = Sales!OnFile(lead)
    BY <1>0, <2>1 DEF SalesGrow
  <2>6. \A m \in Sales!OnFile(lead) : m # l => lead'[m].converted = lead[m].converted
    BY <1>0, <2>1
  <2> QED
    BY <1>1, <2>1, <2>4, <2>5, <2>6 DEF Remembered
<1>5. ASSUME UNCHANGED lead PROVE Remembered'
  BY <1>0, <1>1, <1>5 DEF Remembered
<1> QED
  BY <1>2, <1>3, <1>4, <1>5 DEF Sales!SalesNext, Sales!LeadStep, Sales!ConvertStep, Sales!CaptureDraw,
     Sales!PatchRead, Sales!ConvertRead, Sales!CustomerPost, Sales!CustomerInsert, Sales!SiteInsert,
     Sales!ContactInsert, Sales!ConvertJob, Sales!Crash, Sales!ContactAdd

LEMMA ConvertsKept ==
  ASSUME Sales!TypeOK, Sales!TypeOK', \A w \in Workers : SalesHeld(w), SalesGrow, ConvertsAlone, Sales!SalesNext
  PROVE  ConvertsAlone'
<1>0. /\ Sales!OnFile(lead) = {l \in SalesLeads : lead[l] # None}
      /\ disturbed \subseteq disturbed'
  BY SalesRows DEF SalesGrow
\* Whoever goes on converting a lead went on before, and its lead stands or was marked by
\* another.
<1>1. ASSUME \A v \in Workers, l \in SalesLeads : Converting(v, l)' =>
                /\ Converting(v, l)
                /\ \/ l \in disturbed'
                   \/ lead'[l].converted = IF req'[v].pc = "job" THEN req'[v].customer ELSE None
      PROVE  ConvertsAlone'
  BY <1>0, <1>1 DEF ConvertsAlone
<1>2. ASSUME NEW w \in Workers, ~(\E l \in SalesLeads : Converting(w, l)'), \A v \in Workers \ {w} : req'[v] = req[v],
             \A v \in Workers, l \in SalesLeads : Converting(v, l) => lead'[l].converted = lead[l].converted
      PROVE  ConvertsAlone'
  <2>1. ASSUME NEW v \in Workers, NEW l \in SalesLeads, Converting(v, l)'
        PROVE  /\ Converting(v, l)
               /\ \/ l \in disturbed'
                  \/ lead'[l].converted = IF req'[v].pc = "job" THEN req'[v].customer ELSE None
    <3>1. v # w /\ req'[v] = req[v]
      BY <1>2, <2>1
    <3>2. Converting(v, l)
      BY <2>1, <3>1 DEF Converting
    <3> QED
      BY <1>0, <1>2, <3>1, <3>2 DEF ConvertsAlone
  <2> QED
    BY <1>1, <2>1
<1>3. ASSUME NEW w \in Workers, req'[w].pc \notin SalesConvert \/ req'[w].lead \notin SalesLeads
      PROVE  ~(\E l \in SalesLeads : Converting(w, l)')
  BY <1>3 DEF Converting
<1>4. ASSUME NEW v \in Workers, NEW l \in SalesLeads, Converting(v, l) PROVE l \in Sales!OnFile(lead)
  BY <1>4, SalesConstants DEF SalesHeld, Converting
<1>5. Sales!Idle.pc = "idle" /\ "idle" \notin SalesConvert
  BY DEF Sales!Idle, SalesConvert
<1>6. ASSUME NEW w \in Workers, Sales!LeadStep(w) PROVE ConvertsAlone'
  <2>1. \A v \in Workers \ {w} : req'[v] = req[v]
    BY <1>6, SalesGoes DEF Sales!LeadStep, Sales!CaptureDraw, Sales!CaptureInsert, Sales!PatchRead,
       Sales!PatchWrite, Sales!Begin, Sales!Finish
  <2>2. ASSUME NEW b \in Branches, NEW phone \in Phones, Sales!CaptureDraw(w, b, phone) PROVE ConvertsAlone'
    <3>1. req'[w] = [Sales!Idle EXCEPT !.pc = "capture", !.n = Sales!LeadNumber(b), !.phone = phone]
      BY <2>2, SalesGoes DEF Sales!CaptureDraw, Sales!Begin
    <3>2. req'[w].pc = "capture"
      BY <3>1 DEF Sales!Idle
    <3> QED
      BY <1>2, <1>3, <2>1, <2>2, <3>2 DEF Sales!CaptureDraw, SalesConvert
  <2>3. CASE Sales!CaptureInsert(w)
    <3>1. req'[w] = Sales!Idle
      BY <2>3, SalesGoes DEF Sales!CaptureInsert, Sales!Finish
    <3>2. \A l \in Sales!OnFile(lead) : lead'[l] = lead[l]
      <4>1. CASE Sales!Taken(req[w].n)
        BY <2>3, <4>1 DEF Sales!CaptureInsert
      <4>2. CASE ~Sales!Taken(req[w].n)
        BY <1>0, <2>3, <4>2, CaptureEffect
      <4> QED
        BY <4>1, <4>2
    <3> QED
      BY <1>2, <1>3, <1>4, <1>5, <2>1, <3>1, <3>2
  <2>4. ASSUME NEW l \in SalesLeads, Sales!PatchRead(w, l) PROVE ConvertsAlone'
    <3> DEFINE was == [stage |-> lead[l].stage, dated |-> lead[l].dated]
    <3>1. req'[w] = [Sales!Idle EXCEPT !.pc = "patch", !.lead = l, !.was = was]
      BY <2>4, SalesGoes DEF Sales!PatchRead, Sales!Begin
    <3> HIDE DEF was
    <3>2. req'[w].pc = "patch"
      BY <3>1 DEF Sales!Idle
    <3> QED
      BY <1>2, <1>3, <2>1, <2>4, <3>2 DEF Sales!PatchRead, SalesConvert
  <2>5. ASSUME NEW stage \in Sales!Stages \cup {None}, NEW date \in {"set", "keep", "clear"},
               Sales!PatchWrite(w, stage, date)
        PROVE  ConvertsAlone'
    <3>1. req'[w] = Sales!Idle
      BY <2>5, SalesGoes DEF Sales!PatchWrite, Sales!Finish
    <3>2. PICK l \in Sales!OnFile(lead) :
            lead'[l].converted = lead[l].converted /\ \A m \in SalesLeads \ {l} : lead'[m] = lead[m]
      BY <2>5, PatchEffect
    <3>3. \A m \in SalesLeads : lead'[m].converted = lead[m].converted
      BY <3>2
    <3> QED
      BY <1>2, <1>3, <1>5, <2>1, <3>1, <3>3
  <2> QED
    BY <1>6, <2>2, <2>3, <2>4, <2>5, SMTT(40) DEF Sales!LeadStep
<1>7. ASSUME NEW w \in Workers, NEW l \in SalesLeads, NEW to \in {"job", "customer"}, Sales!ConvertRead(w, l, to)
      PROVE  ConvertsAlone'
  <2>1. /\ req'[w] = [Sales!Idle EXCEPT !.pc = "customer", !.lead = l, !.phone = lead[l].phone, !.to = to]
        /\ \A v \in Workers \ {w} : req'[v] = req[v]
    BY <1>7, SalesGoes DEF Sales!ConvertRead, Sales!Begin
  <2>2. req'[w].pc = "customer" /\ req'[w].lead = l
    BY <2>1 DEF Sales!Idle
  <2>3. lead' = lead /\ lead[l].converted = None
    BY <1>7 DEF Sales!ConvertRead, Sales!Convertible
  <2>4. ASSUME NEW v \in Workers \ {w}, Converting(v, l) PROVE l \in disturbed'
    BY <1>7, <2>4 DEF Sales!ConvertRead, Sales!OthersHandle, Sales!Handles, Converting
  <2>5. ASSUME NEW v \in Workers, NEW m \in SalesLeads, v # w \/ m # l, Converting(v, m)'
        PROVE  v # w /\ Converting(v, m) /\ req'[v] = req[v]
    BY <2>1, <2>2, <2>5 DEF Converting
  <2>6. ASSUME NEW u \in Workers, NEW v \in Workers, NEW m \in SalesLeads, u # v, Converting(u, m)', Converting(v, m)'
        PROVE  m \in disturbed'
    <3>1. CASE m = l /\ (u = w \/ v = w)
      BY <2>4, <2>5, <2>6, <3>1
    <3>2. CASE m # l \/ (u # w /\ v # w)
      BY <1>0, <2>5, <2>6, <3>2 DEF ConvertsAlone
    <3> QED
      BY <3>1, <3>2
  <2>7. ASSUME NEW v \in Workers, NEW m \in SalesLeads, Converting(v, m)'
        PROVE  m \in disturbed' \/ lead'[m].converted = IF req'[v].pc = "job" THEN req'[v].customer ELSE None
    <3>1. CASE v = w /\ m = l
      BY <2>2, <2>3, <3>1
    <3>2. CASE v # w \/ m # l
      BY <1>0, <2>3, <2>5, <2>7, <3>2 DEF ConvertsAlone
    <3> QED
      BY <3>1, <3>2
  <2> QED
    BY <2>6, <2>7 DEF ConvertsAlone
<1>8. ASSUME NEW w \in Workers, NEW phone \in Phones \cup {None}, Sales!CustomerPost(w, phone) PROVE ConvertsAlone'
  <2>1. /\ req'[w] = [Sales!Idle EXCEPT !.pc = "customer", !.phone = phone]
        /\ \A v \in Workers \ {w} : req'[v] = req[v]
    BY <1>8, SalesGoes DEF Sales!CustomerPost, Sales!Begin
  <2>2. req'[w].lead = None
    BY <2>1 DEF Sales!Idle
  <2> QED
    BY <1>2, <1>3, <1>8, <2>1, <2>2, SalesConstants DEF Sales!CustomerPost
<1>9. ASSUME NEW w \in Workers, UNCHANGED lead, \A v \in Workers \ {w} : req'[v] = req[v],
             req[w].pc \in {"customer", "site", "contact"},
             \/ req'[w] = Sales!Idle
             \/ req'[w].pc \in {"site", "contact", "mark"} /\ req'[w].lead = req[w].lead
      PROVE  ConvertsAlone'
  <2>1. ASSUME NEW v \in Workers, NEW l \in SalesLeads, Converting(v, l)'
        PROVE  /\ Converting(v, l) /\ (req'[v].pc = "job" <=> req[v].pc = "job")
               /\ v = w \/ req'[v] = req[v]
    BY <1>5, <1>9, <2>1 DEF Converting, SalesConvert
  <2>2. ASSUME NEW v \in Workers, NEW l \in SalesLeads, Converting(v, l)'
        PROVE  l \in disturbed' \/ lead'[l].converted = IF req'[v].pc = "job" THEN req'[v].customer ELSE None
    <3>1. CASE v = w
      BY <1>0, <1>5, <1>9, <2>1, <2>2, <3>1 DEF ConvertsAlone, Converting
    <3>2. CASE v # w
      BY <1>0, <1>9, <2>1, <2>2, <3>2 DEF ConvertsAlone
    <3> QED
      BY <3>1, <3>2
  <2> QED
    BY <1>1, <2>1, <2>2
<1>10. ASSUME NEW w \in Workers, Sales!CustomerInsert(w) \/ Sales!SiteInsert(w) \/ Sales!ContactInsert(w)
       PROVE  ConvertsAlone'
  <2>1. CASE Sales!CustomerInsert(w)
    <3>1. PICK c \in SalesCustomers : req' = [req EXCEPT ![w] = [req[w] EXCEPT !.pc = "site", !.customer = c]]
      BY <2>1, InsertEffect
    <3>2. req \in [Workers -> Sales!Request] /\ req[w] \in Sales!Request
      BY DEF Sales!TypeOK
    <3>3. /\ req'[w].pc = "site" /\ req'[w].lead = req[w].lead
          /\ \A v \in Workers \ {w} : req'[v] = req[v]
      BY <3>1, <3>2 DEF Sales!Request
    <3> QED
      BY <1>9, <2>1, <3>3 DEF Sales!CustomerInsert, Sales!At
  <2>2. CASE Sales!SiteInsert(w)
    BY <1>9, <2>2, SalesAdvances DEF Sales!SiteInsert, Sales!AfterSite, Sales!AfterContact, Sales!At
  <2>3. CASE Sales!ContactInsert(w)
    BY <1>9, <2>3, SalesAdvances DEF Sales!ContactInsert, Sales!AfterContact, Sales!At
  <2> QED
    BY <1>10, <2>1, <2>2, <2>3
<1>11. ASSUME NEW w \in Workers, Sales!ConvertMark(w) PROVE ConvertsAlone'
  <2>1. PICK l \in Sales!OnFile(lead), c \in Sales!OnFile(customer) :
          /\ req[w].pc = "mark" /\ l = req[w].lead /\ c = req[w].customer
          /\ lead'[l].converted = c
          /\ \A m \in SalesLeads \ {l} : lead'[m] = lead[m]
    BY <1>11, MarkEffect, SMTT(40)
  <2>2. /\ \A v \in Workers \ {w} : req'[v] = req[v]
        /\ \/ req'[w] = Sales!Idle
           \/ req'[w].pc = "job" /\ req'[w].lead = l /\ req'[w].customer = c
    BY <1>11, <2>1, SalesAdvances DEF Sales!ConvertMark
  <2>3. Converting(w, l) /\ l \in SalesLeads
    BY <1>0, <2>1 DEF Converting, SalesConvert
  <2>4. ASSUME NEW v \in Workers, NEW m \in SalesLeads, Converting(v, m)'
        PROVE  /\ Converting(v, m)
               /\ m \in disturbed' \/ lead'[m].converted = IF req'[v].pc = "job" THEN req'[v].customer ELSE None
    <3>1. CASE v = w
      BY <1>5, <2>1, <2>2, <2>3, <2>4, <3>1 DEF Converting
    <3>2. CASE v # w
      <4>1. Converting(v, m) /\ req'[v] = req[v]
        BY <2>2, <2>4, <3>2 DEF Converting
      <4>2. CASE m = l
        BY <1>0, <2>3, <3>2, <4>1, <4>2 DEF ConvertsAlone
      <4>3. CASE m # l
        BY <1>0, <2>1, <4>1, <4>3 DEF ConvertsAlone
      <4> QED
        BY <4>1, <4>2, <4>3
    <3> QED
      BY <3>1, <3>2
  <2> QED
    BY <1>1, <2>4
<1>12. ASSUME NEW w \in Workers, Sales!ConvertJob(w) \/ Sales!Crash(w) PROVE ConvertsAlone'
  <2>1. /\ req'[w] = Sales!Idle /\ UNCHANGED lead
        /\ \A v \in Workers \ {w} : req'[v] = req[v]
    BY <1>12, SalesGoes DEF Sales!ConvertJob, Sales!Crash, Sales!Finish
  <2> QED
    BY <1>2, <1>3, <1>5, <2>1
<1>13. ASSUME UNCHANGED <<lead, req>> PROVE ConvertsAlone'
  BY <1>0, <1>13 DEF ConvertsAlone, Converting
<1> QED
  BY <1>6, <1>7, <1>8, <1>10, <1>11, <1>12, <1>13 DEF Sales!SalesNext, Sales!ConvertStep, Sales!ContactAdd

\* A customer was made from a lead that is on file.
MadeFromLeads == \A c \in Sales!OnFile(customer) : customer[c].from # None => customer[c].from \in Sales!OnFile(lead)

LEMMA ConvertedOnceKept ==
  ASSUME Sales!TypeOK, Sales!TypeOK', \A w \in Workers : SalesHeld(w), SalesGrow, ConvertsAlone,
         Sales!ConvertedOnce, MadeFromLeads, Sales!SalesNext
  PROVE  Sales!ConvertedOnce' /\ MadeFromLeads'
<1>0. /\ Sales!OnFile(lead) = {l \in SalesLeads : lead[l] # None}
      /\ Sales!OnFile(customer) = {c \in SalesCustomers : customer[c] # None}
      /\ Sales!OnFile(lead)' = {l \in SalesLeads : lead'[l] # None}
      /\ Sales!OnFile(customer)' = {c \in SalesCustomers : customer'[c] # None}
      /\ Sales!OnFile(lead) \subseteq Sales!OnFile(lead)'
      /\ \A c \in Sales!OnFile(customer) : customer'[c].from = customer[c].from
  <2>1. lead' \in [SalesLeads -> Sales!LeadRow \cup {None}] /\ customer' \in [SalesCustomers -> Sales!CustomerRow \cup {None}]
    BY DEF Sales!TypeOK
  <2> QED
    BY <2>1, SalesRows DEF Sales!OnFile, SalesGrow
<1> DEFINE Stands(l) == lead'[l].converted = lead[l].converted \/ l \in disturbed'
           Carried(v) ==
             req[v].lead # None /\ req[v].customer # None =>
                \/ req'[v].lead = req[v].lead /\ req'[v].customer = req[v].customer
                \/ lead'[req[v].lead].converted = req[v].customer
                \/ req[v].lead \in disturbed'
<1>1. ASSUME Sales!OnFile(customer)' \subseteq Sales!OnFile(customer), disturbed \subseteq disturbed',
             \A l \in Sales!OnFile(lead) : lead[l].converted # None => Stands(l),
             \A v \in Workers : Carried(v)
      PROVE  Sales!ConvertedOnce' /\ MadeFromLeads'
  <2>1. ASSUME NEW c \in Sales!OnFile(customer)', customer'[c].from # None
        PROVE  /\ customer'[c].from \in Sales!OnFile(lead)'
               /\ \/ lead'[customer'[c].from].converted = c
                  \/ customer'[c].from \in disturbed'
                  \/ \E w \in Workers : req'[w].lead = customer'[c].from /\ req'[w].customer = c
    <3> DEFINE l == customer[c].from
    <3>1. c \in Sales!OnFile(customer) /\ customer'[c].from = l /\ l \in Sales!OnFile(lead) /\ l # None /\ c # None
      BY <1>0, <1>1, <2>1, SalesConstants DEF MadeFromLeads
    <3>2. \/ lead[l].converted = c \/ l \in disturbed
          \/ \E w \in Workers : req[w].lead = l /\ req[w].customer = c
      BY <3>1 DEF Sales!ConvertedOnce
    <3> HIDE DEF l
    <3>3. CASE lead[l].converted = c
      BY <1>0, <1>1, <3>1, <3>3
    <3>4. CASE l \in disturbed
      BY <1>0, <1>1, <3>1, <3>4
    <3>5. ASSUME NEW w \in Workers, req[w].lead = l, req[w].customer = c
          PROVE  \/ lead'[l].converted = c \/ l \in disturbed'
                 \/ \E v \in Workers : req'[v].lead = l /\ req'[v].customer = c
      <4>1. Carried(w)
        BY <1>1
      <4> QED
        BY <3>1, <3>5, <4>1
    <3> QED
      BY <1>0, <3>1, <3>2, <3>3, <3>4, <3>5
  <2> QED
    BY <2>1 DEF Sales!ConvertedOnce, MadeFromLeads
<1>2. ASSUME NEW w \in Workers, Carried(w), \A v \in Workers \ {w} : req'[v] = req[v],
             Sales!OnFile(customer)' \subseteq Sales!OnFile(customer), disturbed \subseteq disturbed',
             \A l \in Sales!OnFile(lead) : lead[l].converted # None => Stands(l)
      PROVE  Sales!ConvertedOnce' /\ MadeFromLeads'
  BY <1>1, <1>2
<1> HIDE DEF Stands, Carried
<1>3. ASSUME NEW w \in Workers, req[w].pc \in {"idle", "capture", "patch", "customer"} PROVE Carried(w)
  BY <1>3 DEF Carried, SalesHeld
<1>4. disturbed \subseteq disturbed' /\ Sales!Idle.pc = "idle"
  BY DEF SalesGrow, Sales!Idle
<1>5. UNCHANGED customer => Sales!OnFile(customer)' \subseteq Sales!OnFile(customer)
  BY <1>0
<1>6. \A l \in Sales!OnFile(lead) : lead'[l].converted = lead[l].converted => Stands(l)
  BY DEF Stands
<1>7. ASSUME NEW w \in Workers, Sales!LeadStep(w) PROVE Sales!ConvertedOnce' /\ MadeFromLeads'
  <2>1. \A v \in Workers \ {w} : req'[v] = req[v]
    BY <1>7, SalesGoes, ZenonT(60) DEF Sales!LeadStep, Sales!CaptureDraw, Sales!CaptureInsert, Sales!PatchRead,
       Sales!PatchWrite, Sales!Begin, Sales!Finish
  <2>2. Carried(w) /\ UNCHANGED customer
    BY <1>3, <1>4, <1>7 DEF Sales!LeadStep, Sales!CaptureDraw, Sales!CaptureInsert, Sales!PatchRead,
       Sales!PatchWrite, Sales!Begin, Sales!At
  <2>3. \A l \in Sales!OnFile(lead) : lead'[l].converted = lead[l].converted
    <3>1. ASSUME NEW stage \in Sales!Stages \cup {None}, NEW date \in {"set", "keep", "clear"},
                 Sales!PatchWrite(w, stage, date), NEW l \in Sales!OnFile(lead)
          PROVE  lead'[l].converted = lead[l].converted
      <4>1. PICK m \in Sales!OnFile(lead) :
              lead'[m].converted = lead[m].converted /\ \A k \in SalesLeads \ {m} : lead'[k] = lead[k]
        BY <3>1, PatchEffect
      <4> QED
        BY <1>0, <4>1
    <3>2. ASSUME Sales!CaptureInsert(w), ~Sales!Taken(req[w].n), NEW l \in Sales!OnFile(lead)
          PROVE  lead'[l].converted = lead[l].converted
      BY <1>0, <3>2, CaptureEffect
    <3>3. Sales!CaptureInsert(w) /\ Sales!Taken(req[w].n) => UNCHANGED lead
      BY DEF Sales!CaptureInsert
    <3> QED
      BY <1>7, <3>1, <3>2, <3>3 DEF Sales!LeadStep, Sales!CaptureDraw, Sales!PatchRead
  <2> QED
    BY <1>2, <1>4, <1>5, <1>6, <2>1, <2>2, <2>3, SMTT(40)
<1>8. ASSUME NEW w \in Workers, Sales!CustomerInsert(w) PROVE Sales!ConvertedOnce' /\ MadeFromLeads'
  <2>1. PICK c \in SalesCustomers \ Sales!OnFile(customer) :
          /\ customer'[c] # None /\ customer'[c].from = req[w].lead
          /\ \A d \in SalesCustomers \ {c} : customer'[d] = customer[d]
          /\ req' = [req EXCEPT ![w] = [req[w] EXCEPT !.pc = "site", !.customer = c]]
    BY <1>8, InsertEffect
  <2>2. req \in [Workers -> Sales!Request] /\ req[w] \in Sales!Request
    BY DEF Sales!TypeOK
  <2>3. /\ req'[w].lead = req[w].lead /\ req'[w].customer = c
        /\ \A v \in Workers \ {w} : req'[v] = req[v]
    BY <2>1, <2>2 DEF Sales!Request
  <2>4. UNCHANGED <<lead, disturbed>> /\ req[w].customer = None
    BY <1>8 DEF Sales!CustomerInsert, SalesHeld, Sales!At
  <2>5. req[w].lead # None => req[w].lead \in Sales!OnFile(lead)'
    BY <1>0, <1>8 DEF Sales!CustomerInsert, SalesHeld, Sales!At, SalesConvert
  <2>6. ASSUME NEW d \in Sales!OnFile(customer)', customer'[d].from # None
        PROVE  /\ customer'[d].from \in Sales!OnFile(lead)'
               /\ \/ lead'[customer'[d].from].converted = d
                  \/ customer'[d].from \in disturbed'
                  \/ \E v \in Workers : req'[v].lead = customer'[d].from /\ req'[v].customer = d
    <3>1. CASE d = c
      BY <2>1, <2>3, <2>5, <2>6, <3>1
    <3>2. CASE d # c
      <4>1. d \in Sales!OnFile(customer) /\ customer'[d] = customer[d] /\ d # None
        BY <1>0, <2>1, <2>6, <3>2, SalesConstants
      <4>2. /\ customer[d].from \in Sales!OnFile(lead)
            /\ \/ lead[customer[d].from].converted = d \/ customer[d].from \in disturbed
               \/ \E v \in Workers : v # w /\ req[v].lead = customer[d].from /\ req[v].customer = d
        BY <2>4, <2>6, <4>1 DEF Sales!ConvertedOnce, MadeFromLeads
      <4> QED
        BY <1>0, <2>3, <2>4, <4>1, <4>2
    <3> QED
      BY <3>1, <3>2
  <2> QED
    BY <2>6 DEF Sales!ConvertedOnce, MadeFromLeads
<1>9. ASSUME NEW c \in SalesCustomers, customer'[c] # None => customer[c] # None,
             \A d \in SalesCustomers \ {c} : customer'[d] = customer[d]
      PROVE  Sales!OnFile(customer)' \subseteq Sales!OnFile(customer)
  BY <1>0, <1>9
<1>10. ASSUME NEW w \in Workers, Sales!SiteInsert(w) \/ Sales!ContactInsert(w)
       PROVE  Sales!ConvertedOnce' /\ MadeFromLeads'
  <2>1. /\ \A v \in Workers \ {w} : req'[v] = req[v]
        /\ req[w].lead # None => req'[w].lead = req[w].lead /\ req'[w].customer = req[w].customer
    BY <1>10, SalesAdvances DEF Sales!SiteInsert, Sales!ContactInsert, Sales!AfterSite, Sales!AfterContact
  <2>2. req[w].customer \in Sales!OnFile(customer) /\ UNCHANGED lead
    BY <1>10 DEF Sales!SiteInsert, Sales!ContactInsert, SalesHeld, Sales!At
  <2>3. \A d \in SalesCustomers \ {req[w].customer} : customer'[d] = customer[d]
    <3>1. customer \in [SalesCustomers -> Sales!CustomerRow \cup {None}]
      BY DEF Sales!TypeOK
    <3> QED
      BY <1>10, <3>1 DEF Sales!SiteInsert, Sales!ContactInsert
  <2>4. Carried(w)
    BY <2>1 DEF Carried
  <2> QED
    BY <1>0, <1>2, <1>4, <1>6, <1>9, <2>1, <2>2, <2>3, <2>4
<1>11. ASSUME NEW w \in Workers, Sales!ConvertMark(w) PROVE Sales!ConvertedOnce' /\ MadeFromLeads'
  <2>1. PICK l \in Sales!OnFile(lead), c \in Sales!OnFile(customer) :
          /\ req[w].pc = "mark" /\ l = req[w].lead /\ c = req[w].customer
          /\ lead'[l].converted = c
          /\ \A m \in SalesLeads \ {l} : lead'[m] = lead[m]
    BY <1>11, MarkEffect
  <2>2. /\ \A v \in Workers \ {w} : req'[v] = req[v]
        /\ UNCHANGED customer
    BY <1>11, SalesAdvances DEF Sales!ConvertMark
  <2>3. lead[l].converted = None \/ l \in disturbed
    BY <1>0, <2>1 DEF ConvertsAlone, Converting, SalesConvert
  <2>4. \A m \in Sales!OnFile(lead) : lead[m].converted # None => Stands(m)
    BY <1>0, <1>4, <2>1, <2>3 DEF Stands
  <2>5. Carried(w)
    BY <2>1 DEF Carried
  <2> QED
    BY <1>2, <1>4, <1>5, <2>2, <2>4, <2>5
<1>12. ASSUME NEW w \in Workers, Sales!ConvertJob(w) PROVE Sales!ConvertedOnce' /\ MadeFromLeads'
  <2>1. /\ UNCHANGED <<lead, customer>> /\ req[w].pc = "job"
        /\ \A v \in Workers \ {w} : req'[v] = req[v]
    BY <1>12, SalesGoes DEF Sales!ConvertJob, Sales!Finish, Sales!At
  <2>2. req[w].lead \in SalesLeads
    BY <1>0, <2>1 DEF SalesHeld, SalesConvert
  <2>3. Carried(w)
    BY <1>4, <2>1, <2>2 DEF Carried, ConvertsAlone, Converting, SalesConvert
  <2> QED
    BY <1>2, <1>4, <1>5, <1>6, <2>1, <2>3
<1>13. ASSUME NEW w \in Workers, Sales!Crash(w) PROVE Sales!ConvertedOnce' /\ MadeFromLeads'
  <2>1. /\ UNCHANGED <<lead, customer>>
        /\ req[w].lead # None => req[w].lead \in disturbed'
        /\ \A v \in Workers \ {w} : req'[v] = req[v]
    BY <1>13, SalesGoes DEF Sales!Crash, Sales!Finish
  <2>2. Carried(w)
    BY <2>1 DEF Carried
  <2> QED
    BY <1>2, <1>4, <1>5, <1>6, <2>1, <2>2
<1>14. ASSUME NEW w \in Workers,
              \/ \E l \in SalesLeads, to \in {"job", "customer"} : Sales!ConvertRead(w, l, to)
              \/ \E phone \in Phones \cup {None} : Sales!CustomerPost(w, phone)
       PROVE  Sales!ConvertedOnce' /\ MadeFromLeads'
  <2>1. /\ UNCHANGED <<lead, customer>> /\ req[w].pc = "idle"
        /\ \A v \in Workers \ {w} : req'[v] = req[v]
    BY <1>4, <1>14, SalesGoes DEF Sales!ConvertRead, Sales!CustomerPost, Sales!Begin
  <2> QED
    BY <1>2, <1>3, <1>4, <1>5, <1>6, <2>1, SMTT(40)
<1>15. ASSUME NEW c \in SalesCustomers, NEW phone \in Phones, Sales!ContactAdd(c, phone)
       PROVE  Sales!ConvertedOnce' /\ MadeFromLeads'
  <2>1. UNCHANGED <<lead, req>> /\ c \in Sales!OnFile(customer)
    BY <1>15 DEF Sales!ContactAdd
  <2>2. \A d \in SalesCustomers \ {c} : customer'[d] = customer[d]
    <3>1. customer \in [SalesCustomers -> Sales!CustomerRow \cup {None}]
      BY DEF Sales!TypeOK
    <3> QED
      BY <1>15, <3>1 DEF Sales!ContactAdd
  <2>3. \A v \in Workers : Carried(v)
    BY <2>1 DEF Carried
  <2> QED
    BY <1>0, <1>1, <1>4, <1>6, <1>9, <2>1, <2>2, <2>3
<1> QED
  BY <1>7, <1>8, <1>10, <1>11, <1>12, <1>13, <1>14, <1>15 DEF Sales!SalesNext, Sales!ConvertStep

LEMMA NumberedKept ==
  ASSUME Sales!TypeOK, Sales!TypeOK', \A w \in Workers : SalesHeld(w), SalesGrow, SalesNumbered, Sales!SalesNext
  PROVE  SalesNumbered'
<1>0. /\ Sales!OnFile(lead) = {l \in SalesLeads : lead[l] # None}
      /\ Sales!OnFile(lead)' = {l \in SalesLeads : lead'[l] # None}
      /\ series \in [Branches -> Nat] /\ series' \in [Branches -> Nat]
      /\ Sales!Idle.pc = "idle"
  <2>1. lead' \in [SalesLeads -> Sales!LeadRow \cup {None}]
    BY DEF Sales!TypeOK
  <2> QED
    BY <2>1, SalesRows DEF Sales!OnFile, Sales!TypeOK, Sales!Idle
<1>1. ASSUME NEW w \in Workers, NEW b \in Branches, NEW phone \in Phones, Sales!CaptureDraw(w, b, phone)
      PROVE  SalesNumbered'
  <2> DEFINE n == series[b] + 1
  <2>1. /\ req'[w] = [Sales!Idle EXCEPT !.pc = "capture", !.n = Sales!LeadNumber(b), !.phone = phone]
        /\ \A v \in Workers \ {w} : req'[v] = req[v]
    BY <1>1, SalesGoes DEF Sales!CaptureDraw, Sales!Begin
  <2>2. req'[w].pc = "capture" /\ req'[w].n = n
    BY <2>1 DEF Sales!Idle, Sales!LeadNumber
  <2>3. /\ series'[b] = n /\ \A a \in Branches \ {b} : series'[a] = series[a]
        /\ UNCHANGED <<lead, refused>>
    BY <1>0, <1>1 DEF Sales!CaptureDraw, Sales!LeadNumber
  <2>4. CASE BranchesDraw'
    BY <2>4 DEF SalesNumbered
  <2>5. CASE ~BranchesDraw'
    <3>1. \A a \in Branches \ {b} : series[a] = 0
      BY <1>0, <2>3, <2>5 DEF BranchesDraw
    <3>2. ~BranchesDraw
      BY <1>0, <3>1 DEF BranchesDraw
    <3>3. ASSUME NEW m, NEW a \in Branches, DrawnAt(a, m)
          PROVE  m # n /\ m \in 1 .. series'[b]
      BY <1>0, <2>3, <3>1, <3>3 DEF DrawnAt
    <3>4. n \in 1 .. series'[b]
      <4>1. series[b] \in Nat
        BY <1>0
      <4> QED
        BY <2>3, <4>1
    <3> HIDE DEF n
    <3>5. \A l \in Sales!OnFile(lead) : lead[l].number # n /\ lead[l].number \in 1 .. series'[b]
      BY <3>2, <3>3 DEF SalesNumbered
    <3>6. ASSUME NEW v \in Workers \ {w}, req[v].pc = "capture"
          PROVE  /\ req[v].n # n /\ req[v].n \in 1 .. series'[b]
                 /\ \A l \in Sales!OnFile(lead) : lead[l].number # req[v].n
      <4>1. (\E a \in Branches : DrawnAt(a, req[v].n)) /\ ~Sales!Taken(req[v].n)
        BY <3>2, <3>6 DEF SalesNumbered
      <4> QED
        BY <3>3, <4>1 DEF Sales!Taken
    <3>7. Sales!OnFile(lead)' = Sales!OnFile(lead)
      BY <1>0, <2>3
    <3>8. ~refused'
      BY <2>3, <3>2 DEF SalesNumbered
    <3>9. \A l \in Sales!OnFile(lead)' : \E a \in Branches : DrawnAt(a, lead[l].number)'
      BY <2>3, <3>5, <3>7 DEF DrawnAt
    <3>10. ASSUME NEW u \in Workers, req'[u].pc = "capture"
           PROVE  /\ \E a \in Branches : DrawnAt(a, req[u].n)'
                  /\ ~Sales!Taken(req[u].n)'
                  /\ \A v \in Workers \ {u} : req'[v].pc = "capture" => req'[v].n # req'[u].n
      <4>1. req'[u].n \in 1 .. series'[b] /\ \A l \in Sales!OnFile(lead) : lead[l].number # req'[u].n
        <5>1. CASE u = w
          BY <2>2, <3>4, <3>5, <5>1
        <5>2. CASE u # w
          BY <2>1, <3>6, <3>10, <5>2
        <5> QED
          BY <5>1, <5>2
      <4>2. \A v \in Workers \ {u} : req'[v].pc = "capture" => req'[v].n # req'[u].n
        <5>1. CASE u = w
          BY <2>1, <2>2, <3>6, <5>1
        <5>2. CASE u # w
          BY <2>1, <2>2, <3>2, <3>6, <3>10, <5>2, ZenonT(60) DEF SalesNumbered
        <5> QED
          BY <5>1, <5>2
      <4>3. ~Sales!Taken(req[u].n)'
        BY <2>3, <3>7, <4>1 DEF Sales!Taken
      <4>4. DrawnAt(b, req[u].n)'
        BY <4>1 DEF DrawnAt
      <4> QED
        BY <4>2, <4>3, <4>4
    <3> QED
      BY <3>8, <3>9, <3>10 DEF SalesNumbered
  <2> QED
    BY <2>4, <2>5
\* A statement that draws no number, and puts none but its own on a lead.
<1>2. ASSUME UNCHANGED series, SalesNumbered => BranchesDraw \/ ~refused',
             NEW w \in Workers, req'[w].pc # "capture", \A v \in Workers \ {w} : req'[v] = req[v],
             \A l \in Sales!OnFile(lead)' :
                \/ l \in Sales!OnFile(lead) /\ lead'[l].number = lead[l].number
                \/ req[w].pc = "capture" /\ lead'[l].number = req[w].n
      PROVE  SalesNumbered'
  <2>1. /\ BranchesDraw' <=> BranchesDraw
        /\ \A b, m : DrawnAt(b, m)' <=> DrawnAt(b, m)
    BY <1>2 DEF BranchesDraw, DrawnAt
  <2>2. CASE BranchesDraw
    BY <2>1, <2>2 DEF SalesNumbered
  <2>3. CASE ~BranchesDraw
    <3>1. \A l \in Sales!OnFile(lead)' : \E b \in Branches : DrawnAt(b, lead'[l].number)
      BY <1>2, <2>3 DEF SalesNumbered
    <3>2. ASSUME NEW v \in Workers, req'[v].pc = "capture"
          PROVE  /\ \E b \in Branches : DrawnAt(b, req'[v].n)
                 /\ \A u \in Workers \ {v} : req'[u].pc = "capture" => req'[u].n # req'[v].n
                 /\ \A l \in Sales!OnFile(lead)' : lead'[l].number # req'[v].n
      <4>1. v # w /\ req'[v] = req[v]
        BY <1>2, <3>2
      <4>2. \A u \in Workers \ {v} : req[u].pc = "capture" => req[u].n # req[v].n
        BY <2>3, <3>2, <4>1 DEF SalesNumbered
      <4>3. \A l \in Sales!OnFile(lead) : lead[l].number # req[v].n
        BY <2>3, <3>2, <4>1 DEF SalesNumbered, Sales!Taken
      <4>4. \E b \in Branches : DrawnAt(b, req[v].n)
        BY <2>3, <3>2, <4>1 DEF SalesNumbered
      <4> QED
        BY <1>2, <4>1, <4>2, <4>3, <4>4
    <3>3. \A v \in Workers : req'[v].pc = "capture" => ~Sales!Taken(req[v].n)'
      BY <3>2 DEF Sales!Taken
    <3> QED
      BY <1>2, <2>1, <2>3, <3>1, <3>2, <3>3 DEF SalesNumbered
  <2> QED
    BY <2>2, <2>3
<1>3. ASSUME NEW w \in Workers, req'[w].pc # "capture", \A v \in Workers \ {w} : req'[v] = req[v],
             UNCHANGED <<series, refused>>, Sales!OnFile(lead)' \subseteq Sales!OnFile(lead)
      PROVE  SalesNumbered'
  BY <1>2, <1>3 DEF SalesNumbered, SalesGrow
<1>4. UNCHANGED lead => Sales!OnFile(lead)' \subseteq Sales!OnFile(lead)
  BY <1>0
<1>5. ASSUME NEW w \in Workers, Sales!CaptureInsert(w) PROVE SalesNumbered'
  <2>1. /\ req'[w].pc # "capture" /\ req[w].pc = "capture" /\ UNCHANGED series
        /\ \A v \in Workers \ {w} : req'[v] = req[v]
    BY <1>0, <1>5, SalesGoes DEF Sales!CaptureInsert, Sales!Finish, Sales!At
  <2>2. CASE Sales!Taken(req[w].n)
    <3>1. UNCHANGED lead /\ (SalesNumbered => BranchesDraw)
      BY <1>5, <2>1, <2>2 DEF Sales!CaptureInsert, SalesNumbered
    <3> QED
      BY <1>0, <1>2, <2>1, <3>1
  <2>3. CASE ~Sales!Taken(req[w].n)
    <3>1. PICK l \in SalesLeads \ Sales!OnFile(lead) :
            lead'[l].number = req[w].n /\ \A m \in SalesLeads \ {l} : lead'[m] = lead[m]
      BY <1>5, <2>3, CaptureEffect
    <3>2. SalesNumbered => BranchesDraw \/ ~refused'
      BY <1>5, <2>3 DEF Sales!CaptureInsert, SalesNumbered
    <3>3. \A k \in Sales!OnFile(lead)' :
            \/ k \in Sales!OnFile(lead) /\ lead'[k].number = lead[k].number
            \/ req[w].pc = "capture" /\ lead'[k].number = req[w].n
      BY <1>0, <2>1, <3>1
    <3> QED
      BY <1>2, <2>1, <3>2, <3>3
  <2> QED
    BY <2>2, <2>3
<1>6. ASSUME NEW w \in Workers, NEW l \in SalesLeads, Sales!PatchRead(w, l) PROVE SalesNumbered'
  <2> DEFINE was == [stage |-> lead[l].stage, dated |-> lead[l].dated]
  <2>1. /\ req'[w] = [Sales!Idle EXCEPT !.pc = "patch", !.lead = l, !.was = was]
        /\ \A v \in Workers \ {w} : req'[v] = req[v]
    BY <1>6, SalesGoes DEF Sales!PatchRead, Sales!Begin
  <2> HIDE DEF was
  <2>2. req'[w].pc = "patch"
    BY <2>1 DEF Sales!Idle
  <2> QED
    BY <1>3, <1>4, <1>6, <2>1, <2>2 DEF Sales!PatchRead
<1>7. ASSUME NEW w \in Workers, NEW stage \in Sales!Stages \cup {None}, NEW date \in {"set", "keep", "clear"},
             Sales!PatchWrite(w, stage, date)
      PROVE  SalesNumbered'
  <2>1. /\ req'[w].pc # "capture" /\ UNCHANGED <<series, refused>>
        /\ \A v \in Workers \ {w} : req'[v] = req[v]
    BY <1>0, <1>7, SalesGoes DEF Sales!PatchWrite, Sales!Finish
  <2>2. Sales!OnFile(lead)' \subseteq Sales!OnFile(lead)
    BY <1>0, <1>7, PatchEffect
  <2> QED
    BY <1>3, <2>1, <2>2
<1>8. ASSUME NEW w \in Workers, Sales!ConvertMark(w) PROVE SalesNumbered'
  <2>1. /\ req'[w].pc # "capture" /\ UNCHANGED <<series, refused>>
        /\ \A v \in Workers \ {w} : req'[v] = req[v]
    BY <1>0, <1>8, SalesAdvances DEF Sales!ConvertMark
  <2>2. Sales!OnFile(lead)' \subseteq Sales!OnFile(lead)
    BY <1>0, <1>8, MarkEffect
  <2> QED
    BY <1>3, <2>1, <2>2, SMTT(40)
<1>9. ASSUME NEW w \in Workers,
             \/ \E l \in SalesLeads, to \in {"job", "customer"} : Sales!ConvertRead(w, l, to)
             \/ \E phone \in Phones \cup {None} : Sales!CustomerPost(w, phone)
             \/ Sales!CustomerInsert(w) \/ Sales!SiteInsert(w) \/ Sales!ContactInsert(w)
             \/ Sales!ConvertJob(w) \/ Sales!Crash(w)
      PROVE  SalesNumbered'
  <2>1. UNCHANGED <<lead, series, refused>>
    BY <1>9 DEF Sales!ConvertRead, Sales!CustomerPost, Sales!CustomerInsert, Sales!SiteInsert, Sales!ContactInsert,
       Sales!ConvertJob, Sales!Crash
  <2>2. req'[w].pc # "capture" /\ \A v \in Workers \ {w} : req'[v] = req[v]
    <3>1. ASSUME NEW l \in SalesLeads, NEW to \in {"job", "customer"}, Sales!ConvertRead(w, l, to)
          PROVE  req'[w].pc # "capture" /\ \A v \in Workers \ {w} : req'[v] = req[v]
      <4>1. /\ req'[w] = [Sales!Idle EXCEPT !.pc = "customer", !.lead = l, !.phone = lead[l].phone, !.to = to]
            /\ \A v \in Workers \ {w} : req'[v] = req[v]
        BY <3>1, SalesGoes DEF Sales!ConvertRead, Sales!Begin
      <4>2. req'[w].pc = "customer"
        BY <4>1 DEF Sales!Idle
      <4> QED
        BY <4>1, <4>2
    <3>2. ASSUME NEW phone \in Phones \cup {None}, Sales!CustomerPost(w, phone)
          PROVE  req'[w].pc # "capture" /\ \A v \in Workers \ {w} : req'[v] = req[v]
      <4>1. /\ req'[w] = [Sales!Idle EXCEPT !.pc = "customer", !.phone = phone]
            /\ \A v \in Workers \ {w} : req'[v] = req[v]
        BY <3>2, SalesGoes DEF Sales!CustomerPost, Sales!Begin
      <4>2. req'[w].pc = "customer"
        BY <4>1 DEF Sales!Idle
      <4> QED
        BY <4>1, <4>2
    <3>3. ASSUME Sales!CustomerInsert(w)
          PROVE  req'[w].pc # "capture" /\ \A v \in Workers \ {w} : req'[v] = req[v]
      <4>1. PICK c \in SalesCustomers : req' = [req EXCEPT ![w] = [req[w] EXCEPT !.pc = "site", !.customer = c]]
        BY <3>3, InsertEffect
      <4>2. req \in [Workers -> Sales!Request] /\ req[w] \in Sales!Request
        BY DEF Sales!TypeOK
      <4> QED
        BY <4>1, <4>2 DEF Sales!Request
    <3>4. ASSUME Sales!SiteInsert(w) \/ Sales!ContactInsert(w)
          PROVE  req'[w].pc # "capture" /\ \A v \in Workers \ {w} : req'[v] = req[v]
      BY <1>0, <3>4, SalesAdvances DEF Sales!SiteInsert, Sales!ContactInsert, Sales!AfterSite, Sales!AfterContact
    <3>5. ASSUME Sales!ConvertJob(w) \/ Sales!Crash(w)
          PROVE  req'[w].pc # "capture" /\ \A v \in Workers \ {w} : req'[v] = req[v]
      BY <1>0, <3>5, SalesGoes DEF Sales!ConvertJob, Sales!Crash, Sales!Finish
    <3> QED
      BY <1>9, <3>1, <3>2, <3>3, <3>4, <3>5
  <2> QED
    BY <1>3, <1>4, <2>1, <2>2, SMTT(40)
<1>10. ASSUME NEW c \in SalesCustomers, NEW phone \in Phones, Sales!ContactAdd(c, phone) PROVE SalesNumbered'
  <2>1. UNCHANGED <<lead, series, refused, req>>
    BY <1>10, SMTT(40) DEF Sales!ContactAdd
  <2> QED
    BY <2>1 DEF SalesNumbered, BranchesDraw, DrawnAt, Sales!Taken, Sales!OnFile
<1> QED
  BY <1>1, <1>5, <1>6, <1>7, <1>8, <1>9, <1>10 DEF Sales!SalesNext, Sales!LeadStep, Sales!ConvertStep

LEMMA SalesQueueKept ==
  ASSUME Sales!TypeOK, Sales!TypeOK', \A w \in Workers : SalesHeld(w), SalesGrow, Sales!QueuedIsDated, Sales!SalesNext
  PROVE  Sales!QueuedIsDated'
<1> USE DEF Sales!QueuedIsDated, Sales!Queue
<1>0. /\ Sales!OnFile(lead) = {l \in SalesLeads : lead[l] # None}
      /\ Sales!OnFile(lead)' = {l \in SalesLeads : lead'[l] # None}
      /\ reopened \subseteq reopened'
  <2>1. lead' \in [SalesLeads -> Sales!LeadRow \cup {None}]
    BY DEF Sales!TypeOK
  <2> QED
    BY <2>1, SalesRows DEF Sales!OnFile, SalesGrow
<1>1. ASSUME NEW l \in SalesLeads, \A m \in SalesLeads \ {l} : lead'[m] = lead[m],
             lead'[l].stage \in Sales!Terminal \/ lead'[l].dated \/ l \in reopened'
      PROVE  Sales!QueuedIsDated'
  BY <1>0, <1>1
<1>2. ASSUME NEW w \in Workers, Sales!CaptureInsert(w) PROVE Sales!QueuedIsDated'
  <2>1. CASE Sales!Taken(req[w].n)
    BY <1>0, <1>2, <2>1 DEF Sales!CaptureInsert
  <2>2. CASE ~Sales!Taken(req[w].n)
    BY <1>1, <1>2, <2>2, CaptureEffect
  <2> QED
    BY <2>1, <2>2
<1>3. ASSUME NEW w \in Workers, NEW stage \in Sales!Stages \cup {None}, NEW date \in {"set", "keep", "clear"},
             Sales!PatchWrite(w, stage, date)
      PROVE  Sales!QueuedIsDated'
  <2>1. PICK l \in Sales!OnFile(lead), was \in [stage : Sales!Stages, dated : BOOLEAN] :
          /\ req[w].pc = "patch" /\ l = req[w].lead /\ was = req[w].was
          /\ lead'[l].stage = IF stage = None THEN was.stage ELSE stage
          /\ lead'[l].dated = (stage \notin Sales!Terminal /\ date # "clear" /\ (date = "set" \/ was.dated))
          /\ \A m \in SalesLeads \ {l} : lead'[m] = lead[m]
    BY <1>3, PatchEffect
  <2>2. /\ was.stage = "OPEN" => was.dated \/ l \in reopened'
        /\ was.stage \in {"OPEN"} \cup Sales!Terminal /\ was.dated \in BOOLEAN
        /\ stage \in {None, "OPEN"} \cup Sales!Terminal /\ None \notin {"OPEN"} \cup Sales!Terminal
    BY <1>0, <2>1, SalesConstants DEF SalesHeld, Sales!Stages, Sales!Terminal
  <2>3. /\ stage \notin Sales!Terminal => date # "clear"
        /\ was.stage \in Sales!Terminal /\ lead'[l].stage = "OPEN" => l \in reopened'
    BY <1>3, <2>1 DEF Sales!PatchWrite, Sales!Allowed
  <2>4. lead'[l].stage \in Sales!Terminal \/ lead'[l].dated \/ l \in reopened'
    BY <2>1, <2>2, <2>3
  <2> QED
    BY <1>0, <1>1, <2>1, <2>4
<1>4. ASSUME NEW w \in Workers, Sales!ConvertMark(w) PROVE Sales!QueuedIsDated'
  <2>1. PICK l \in Sales!OnFile(lead) :
          lead'[l].stage = "WON" /\ \A m \in SalesLeads \ {l} : lead'[m] = lead[m]
    BY <1>4, MarkEffect
  <2> QED
    BY <1>0, <1>1, <2>1 DEF Sales!Terminal
<1>5. ASSUME UNCHANGED lead PROVE Sales!QueuedIsDated'
  BY <1>0, <1>5
<1> QED
  BY <1>2, <1>3, <1>4, <1>5 DEF Sales!SalesNext, Sales!LeadStep, Sales!ConvertStep, Sales!CaptureDraw,
     Sales!PatchRead, Sales!ConvertRead, Sales!CustomerPost, Sales!CustomerInsert, Sales!SiteInsert,
     Sales!ContactInsert, Sales!ConvertJob, Sales!Crash, Sales!ContactAdd

\* All of it, of the desk that takes on customers.
Selling ==
    /\ Sales!TypeOK
    /\ \A w \in Workers : SalesHeld(w)
    /\ ConvertsAlone /\ Sales!ConvertedOnce /\ MadeFromLeads
    /\ Remembered /\ SalesNumbered /\ Sales!QueuedIsDated

LEMMA SellingStarts ==
  ASSUME Sales!StartsWith({})
  PROVE  Selling
<1>1. /\ lead = [l \in SalesLeads |-> None] /\ customer = [c \in SalesCustomers |-> None]
      /\ contract = [k \in {} |-> None] /\ series = [b \in Branches |-> 0]
      /\ req = [w \in Workers |-> Sales!Idle]
      /\ jobs = {} /\ refused = FALSE /\ reopened = {} /\ disturbed = {}
  BY DEF Sales!StartsWith
<1>2. Sales!OnFile(lead) = {} /\ Sales!OnFile(customer) = {}
  BY <1>1 DEF Sales!OnFile
<1>3. Sales!Idle \in Sales!Request /\ Sales!Idle.pc = "idle" /\ Sales!Idle.customer = None
  BY DEF Sales!Idle, Sales!Request
<1>4. Sales!TypeOK
  BY <1>1, <1>3 DEF Sales!TypeOK
<1>5. \A w \in Workers : SalesHeld(w)
  BY <1>1, <1>3 DEF SalesHeld, SalesConvert
<1>6. ConvertsAlone
  BY <1>1, <1>3 DEF ConvertsAlone, Converting, SalesConvert
<1>7. Sales!ConvertedOnce /\ MadeFromLeads /\ Remembered /\ Sales!QueuedIsDated
  BY <1>2 DEF Sales!ConvertedOnce, MadeFromLeads, Remembered, Sales!QueuedIsDated, Sales!Queue
<1>8. SalesNumbered
  BY <1>1, <1>2, <1>3 DEF SalesNumbered
<1> QED
  BY <1>4, <1>5, <1>6, <1>7, <1>8 DEF Selling

LEMMA SellingKept ==
  ASSUME Selling, Sales!SalesNext
  PROVE  Selling'
<1>1. Sales!TypeOK'
  BY SalesTypes DEF Selling
<1>2. SalesGrow
  BY <1>1, SalesGrows DEF Selling
<1>3. \A w \in Workers : SalesHeld(w)'
  BY <1>1, <1>2, SalesHeldKept DEF Selling
<1>4. ConvertsAlone' /\ Sales!ConvertedOnce' /\ MadeFromLeads'
  BY <1>1, <1>2, ConvertsKept, ConvertedOnceKept DEF Selling
<1>5. Remembered' /\ SalesNumbered' /\ Sales!QueuedIsDated'
  BY <1>1, <1>2, RememberedKept, NumberedKept, SalesQueueKept DEF Selling
<1> QED
  BY <1>1, <1>3, <1>4, <1>5 DEF Selling

\* The customer a converted lead became is found by the lead's number.
LEMMA SellingSuffices ==
  ASSUME Selling
  PROVE  Sales!ConvertedOnce /\ Sales!CallerStaysKnown /\ Sales!SeriesSuffices /\ Sales!QueuedIsDated
<1>1. ASSUME NEW l \in Sales!OnFile(lead), lead[l].phone # None
      PROVE  Sales!Match(lead[l].phone) # None
  <2>1. CASE lead[l].converted = None
    <3>1. Sales!Callers(lead[l].phone) # {}
      BY <1>1, <2>1 DEF Sales!Callers
    <3> QED
      BY <3>1, SalesConstants DEF Sales!Match
  <2>2. CASE lead[l].converted # None
    <3>1. lead[l].converted \in Sales!Known(lead[l].phone)
      BY <1>1, <2>2 DEF Selling, Remembered, Sales!Known
    <3> QED
      BY <3>1, SalesConstants DEF Sales!Match
  <2> QED
    BY <2>1, <2>2
<1>2. Sales!SeriesSuffices
  BY DEF Selling, SalesNumbered, BranchesDraw, Sales!SeriesSuffices
<1> QED
  BY <1>1, <1>2 DEF Selling, Sales!CallerStaysKnown

SalesDesk == desk = "sales" => Selling

LEMMA SalesDeskKept == Spec => []SalesDesk
<1>1. Init => SalesDesk
  BY SellingStarts DEF Init, SalesDesk
<1>2. SalesDesk /\ [Next]_vars => SalesDesk'
  <2> SUFFICES ASSUME SalesDesk, [Next]_vars, desk' = "sales" PROVE Selling'
    BY DEF SalesDesk
  <2>1. CASE UNCHANGED vars
    <3>1. UNCHANGED Sales!vars /\ desk = "sales" /\ Selling
      BY <2>1 DEF vars, pipelineVars, Sales!vars, SalesDesk
    <3>2. Sales!TypeOK' /\ \A w \in Workers : SalesHeld(w)'
      BY <3>1 DEF Selling, Sales!vars, Sales!TypeOK, SalesHeld, Sales!OnFile
    <3>3. ConvertsAlone' /\ Sales!ConvertedOnce' /\ MadeFromLeads'
      BY <3>1 DEF Selling, Sales!vars, ConvertsAlone, Converting, Sales!ConvertedOnce, MadeFromLeads, Sales!OnFile
    <3>4. Remembered' /\ SalesNumbered' /\ Sales!QueuedIsDated'
      BY <3>1 DEF Selling, Sales!vars, Remembered, SalesNumbered, BranchesDraw, DrawnAt, Sales!Taken,
         Sales!QueuedIsDated, Sales!Queue, Sales!OnFile
    <3> QED
      BY <3>2, <3>3, <3>4 DEF Selling
  <2>2. CASE Next
    <3>1. desk = "sales" /\ Sales!SalesNext
      BY <2>2 DEF Next, PlatformNext
    <3> QED
      BY <3>1, SellingKept DEF SalesDesk
  <2> QED
    BY <2>1, <2>2
<1> QED
  BY <1>1, <1>2, PTL DEF Spec

\* A lead makes one customer, unless two requests converted it at once or one died on the way;
\* and whoever called once is found by the number, whatever the conversion is in the middle of:
\* for any number of requests, leads and branches (leads.ts, customers.ts).
THEOREM LeadsAlwaysBecomeCustomers == Spec => []LeadsBecomeCustomers
<1>1. SalesDesk => LeadsBecomeCustomers
  BY SellingSuffices DEF SalesDesk, LeadsBecomeCustomers
<1> QED
  BY <1>1, SalesDeskKept, PTL
-----------------------------------------------------------------------------
(***************************************************************************)
(* The service desk: contracts and their renewals.                          *)
(***************************************************************************)

Renewing == {"renew_count", "renew_insert", "renew_note"}

\* What a request holds: rows on file, and the lead that renews its contract once it is there.
ServiceHeld(w) ==
    LET r == req[w] IN
    /\ r.pc \in {"idle", "patch", "contract_count", "contract_insert", "schedules"} \cup Renewing
    /\ r.pc = "patch" =>
        /\ r.lead \in Service!OnFile(lead) /\ r.was \in [stage : Service!Stages, dated : BOOLEAN]
        /\ r.was.stage = "OPEN" => r.was.dated \/ r.lead \in reopened
    /\ r.pc = "contract_insert" => r.customer \in ServedCustomers
    /\ r.pc = "contract_count" => r.customer \in ServedCustomers
    /\ r.pc \in {"schedules"} \cup Renewing => r.contract \in Service!OnFile(contract)
    /\ r.pc = "renew_note" => r.lead \in Service!OnFile(lead) /\ lead[r.lead].renews = r.contract

\* The firm's customers are on file from the start.
CustomersServed == \A c \in ServedCustomers : customer[c] \in Service!CustomerRow

\* A contract that was not disturbed has one lead at most: none while a request is about to
\* insert it, and one that is not raised yet is in the hands of the request that inserted it.
RenewsAlone ==
    /\ \A v, w \in Workers :
        v # w /\ req[v].pc \in Renewing /\ req[w].pc \in Renewing /\ req[v].contract = req[w].contract
            => req[w].contract \in disturbed
    /\ \A w \in Workers, l \in Service!OnFile(lead) :
        req[w].pc \in {"renew_count", "renew_insert"} /\ lead[l].renews = req[w].contract
            => req[w].contract \in disturbed
    /\ \A l \in Service!OnFile(lead) :
        lead[l].renews = None \/ lead[l].renews \in disturbed \/ lead[l].raised
        \/ \E w \in Workers : req[w].pc = "renew_note" /\ req[w].contract = lead[l].renews /\ req[w].lead = l
    /\ \A l, m \in Service!OnFile(lead) :
        l # m /\ lead[l].renews = lead[m].renews
            => lead[l].renews = None \/ lead[l].renews \in disturbed

LEMMA ServiceConstants ==
  /\ None \notin Service!Stages \cup {"lead", "customer"}
  /\ None \notin ServedLeads \cup ServedCustomers \cup Contracts
  /\ None \notin Service!LeadRow \cup Service!CustomerRow \cup Service!ContractRow
  BY BackOfficeConstants DEF Service!PipelineConstants

LEMMA ServiceCounts ==
  /\ \A S \in SUBSET ServedLeads : Service!Cardinality(S) \in Nat
  /\ \A S \in SUBSET Contracts : Service!Cardinality(S) \in Nat
<1>1. \A S : Service!Cardinality(S) = Cardinality(S)
  BY DEF Service!Cardinality, Cardinality
<1> QED
  BY <1>1, FiniteTables, FS_Subset, FS_CardinalityType

LEMMA ServiceRows ==
  ASSUME Service!TypeOK
  PROVE  /\ Service!OnFile(lead) = {l \in ServedLeads : lead[l] # None}
         /\ Service!OnFile(contract) = {k \in Contracts : contract[k] # None}
         /\ \A l \in Service!OnFile(lead) : l \in ServedLeads /\ lead[l] \in Service!LeadRow
         /\ \A k \in Service!OnFile(contract) : k \in Contracts /\ contract[k] \in Service!ContractRow
<1>1. /\ lead \in [ServedLeads -> Service!LeadRow \cup {None}]
      /\ contract \in [Contracts -> Service!ContractRow \cup {None}]
  BY DEF Service!TypeOK
<1>2. /\ Service!OnFile(lead) = {l \in ServedLeads : lead[l] # None}
      /\ Service!OnFile(contract) = {k \in Contracts : contract[k] # None}
  BY <1>1 DEF Service!OnFile
<1> QED
  BY <1>1, <1>2

LEMMA ServiceRequests ==
  ASSUME Service!TypeOK, NEW w \in Workers
  PROVE  /\ req[w] \in Service!Request
         /\ req[w].lead \in ServedLeads \cup {None} /\ req[w].customer \in ServedCustomers \cup {None}
         /\ req[w].contract \in Contracts \cup {None} /\ req[w].n \in Nat /\ req[w].phone \in Phones \cup {None}
<1>1. req[w] \in Service!Request
  BY DEF Service!TypeOK
<1> QED
  BY <1>1 DEF Service!Request

LEMMA ServiceGoes ==
  ASSUME Service!TypeOK, NEW w \in Workers, NEW r, Service!Goto(w, r)
  PROVE  req'[w] = r /\ \A v \in Workers \ {w} : req'[v] = req[v]
<1>1. req \in [Workers -> Service!Request]
  BY DEF Service!TypeOK
<1> QED
  BY <1>1 DEF Service!Goto

\* What a request is when a statement of this desk has begun it.
LEMMA ServiceBegins ==
  ASSUME NEW l \in ServedLeads \cup {None}, NEW c \in ServedCustomers \cup {None}, NEW k \in Contracts \cup {None},
         NEW was \in [stage : Service!Stages, dated : BOOLEAN] \cup {None}
  PROVE  /\ [Service!Idle EXCEPT !.pc = "patch", !.lead = l, !.was = was] \in Service!Request
         /\ [Service!Idle EXCEPT !.pc = "contract_count", !.customer = c] \in Service!Request
         /\ [Service!Idle EXCEPT !.pc = "renew_count", !.contract = k] \in Service!Request
         /\ Service!Idle \in Service!Request
<1> DEFINE idle == Service!Idle
<1>1. idle \in Service!Request
  BY DEF Service!Idle, Service!Request
<1> HIDE DEF idle
<1>2. [idle EXCEPT !.pc = "patch", !.lead = l, !.was = was] \in Service!Request
  BY <1>1 DEF Service!Request
<1>3. [idle EXCEPT !.pc = "contract_count", !.customer = c] \in Service!Request
  BY <1>1 DEF Service!Request
<1>4. [idle EXCEPT !.pc = "renew_count", !.contract = k] \in Service!Request
  BY <1>1 DEF Service!Request
<1> QED
  BY <1>1, <1>2, <1>3, <1>4 DEF idle

\* What a statement does to the row it names.
LEMMA ServicePatchEffect ==
  ASSUME Service!TypeOK, NEW w \in Workers, ServiceHeld(w), NEW stage \in Service!Stages \cup {None},
         NEW date \in {"set", "keep", "clear"}, Service!PatchWrite(w, stage, date)
  PROVE  \E l \in Service!OnFile(lead), was \in [stage : Service!Stages, dated : BOOLEAN] :
            /\ req[w].pc = "patch" /\ l = req[w].lead /\ was = req[w].was
            /\ lead'[l] \in Service!LeadRow
            /\ lead'[l].stage = IF stage = None THEN was.stage ELSE stage
            /\ lead'[l].dated = (stage \notin Service!Terminal /\ date # "clear" /\ (date = "set" \/ was.dated))
            /\ lead'[l].renews = lead[l].renews /\ lead'[l].raised = lead[l].raised
            /\ \A m \in ServedLeads \ {l} : lead'[m] = lead[m]
            /\ lead' \in [ServedLeads -> Service!LeadRow \cup {None}]
<1>1. PICK l \in Service!OnFile(lead), was \in [stage : Service!Stages, dated : BOOLEAN] :
        req[w].pc = "patch" /\ l = req[w].lead /\ was = req[w].was
  BY DEF Service!PatchWrite, ServiceHeld, Service!At
<1>2. l \in ServedLeads /\ lead[l] \in Service!LeadRow /\ lead \in [ServedLeads -> Service!LeadRow \cup {None}]
  BY <1>1, ServiceRows DEF Service!TypeOK
<1> DEFINE set == IF stage = None THEN was.stage ELSE stage
           dated == stage \notin Service!Terminal /\ date # "clear" /\ (date = "set" \/ was.dated)
           row == [lead[l] EXCEPT !.stage = set, !.dated = dated]
<1>3. lead' = [lead EXCEPT ![l] = row]
  BY <1>1, <1>2 DEF Service!PatchWrite, Service!LeadRow
<1>4. set \in Service!Stages /\ dated \in BOOLEAN
  BY <1>1
<1> HIDE DEF set, dated
<1>5. /\ row \in Service!LeadRow /\ row.stage = set /\ row.dated = dated
      /\ row.renews = lead[l].renews /\ row.raised = lead[l].raised
  BY <1>2, <1>4 DEF Service!LeadRow
<1> HIDE DEF row
<1>6. lead'[l] = row /\ \A m \in ServedLeads \ {l} : lead'[m] = lead[m]
  BY <1>2, <1>3
<1>7. lead' \in [ServedLeads -> Service!LeadRow \cup {None}]
  BY <1>2, <1>3, <1>5
<1> QED
  BY <1>1, <1>5, <1>6, <1>7 DEF set, dated

LEMMA RenewInsertEffect ==
  ASSUME Service!TypeOK, NEW w \in Workers, Service!RenewInsert(w), ~Service!Taken(req[w].n)
  PROVE  \E l \in ServedLeads \ Service!OnFile(lead) :
            /\ lead'[l] \in Service!LeadRow
            /\ lead'[l].stage = "OPEN" /\ lead'[l].dated = TRUE
            /\ lead'[l].renews = req[w].contract /\ lead'[l].raised = FALSE
            /\ \A m \in ServedLeads \ {l} : lead'[m] = lead[m]
            /\ lead' \in [ServedLeads -> Service!LeadRow \cup {None}]
            /\ req' = [req EXCEPT ![w] = [req[w] EXCEPT !.pc = "renew_note", !.lead = l]]
<1>1. lead \in [ServedLeads -> Service!LeadRow \cup {None}]
  BY DEF Service!TypeOK
<1> DEFINE row == Service!NewLead(req[w].n, req[w].phone, req[w].contract)
<1>2. PICK l \in ServedLeads \ Service!OnFile(lead) :
        /\ lead' = [lead EXCEPT ![l] = row]
        /\ req' = [req EXCEPT ![w] = [req[w] EXCEPT !.pc = "renew_note", !.lead = l]]
  BY DEF Service!RenewInsert, Service!Goto
<1>3. /\ row \in Service!LeadRow /\ row.stage = "OPEN" /\ row.dated = TRUE
      /\ row.renews = req[w].contract /\ row.raised = FALSE
  BY ServiceRequests DEF Service!NewLead, Service!LeadRow, Service!Stages
<1> HIDE DEF row
<1>4. lead' \in [ServedLeads -> Service!LeadRow \cup {None}]
  BY <1>1, <1>2, <1>3
<1> QED
  BY <1>1, <1>2, <1>3, <1>4

LEMMA RenewNoteEffect ==
  ASSUME Service!TypeOK, NEW w \in Workers, ServiceHeld(w), Service!RenewNote(w)
  PROVE  \E l \in Service!OnFile(lead) :
            /\ req[w].pc = "renew_note" /\ l = req[w].lead
            /\ lead'[l] \in Service!LeadRow
            /\ lead'[l].stage = lead[l].stage /\ lead'[l].dated = lead[l].dated
            /\ lead'[l].renews = lead[l].renews /\ lead'[l].raised = TRUE
            /\ \A m \in ServedLeads \ {l} : lead'[m] = lead[m]
            /\ lead' \in [ServedLeads -> Service!LeadRow \cup {None}]
<1>1. PICK l \in Service!OnFile(lead) : req[w].pc = "renew_note" /\ l = req[w].lead
  BY DEF Service!RenewNote, ServiceHeld, Service!At
<1>2. l \in ServedLeads /\ lead[l] \in Service!LeadRow /\ lead \in [ServedLeads -> Service!LeadRow \cup {None}]
  BY <1>1, ServiceRows DEF Service!TypeOK
<1> DEFINE row == [lead[l] EXCEPT !.raised = TRUE]
<1>3. lead' = [lead EXCEPT ![l] = row]
  BY <1>1, <1>2 DEF Service!RenewNote, Service!LeadRow
<1>5. /\ row \in Service!LeadRow /\ row.stage = lead[l].stage /\ row.dated = lead[l].dated
      /\ row.renews = lead[l].renews /\ row.raised = TRUE
  BY <1>2 DEF Service!LeadRow
<1> HIDE DEF row
<1>6. lead'[l] = row /\ \A m \in ServedLeads \ {l} : lead'[m] = lead[m]
  BY <1>2, <1>3
<1>7. lead' \in [ServedLeads -> Service!LeadRow \cup {None}]
  BY <1>2, <1>3, <1>5
<1> QED
  BY <1>1, <1>5, <1>6, <1>7

\* What every statement of the desk leaves: the customers, all rows on file with what they
\* renew, and other requests.
ServiceGrow ==
    /\ UNCHANGED customer
    /\ \A l \in Service!OnFile(lead) : l \in Service!OnFile(lead)' /\ lead'[l].renews = lead[l].renews
    /\ Service!OnFile(contract) \subseteq Service!OnFile(contract)'
    /\ reopened \subseteq reopened' /\ disturbed \subseteq disturbed'

LEMMA ServiceTypes ==
  ASSUME Service!TypeOK, \A w \in Workers : ServiceHeld(w), CustomersServed, Service!ContractsNext
  PROVE  Service!TypeOK' /\ ServiceGrow
<1>0. /\ lead \in [ServedLeads -> Service!LeadRow \cup {None}]
      /\ customer \in [ServedCustomers -> Service!CustomerRow \cup {None}]
      /\ contract \in [Contracts -> Service!ContractRow \cup {None}]
      /\ series \in [Branches -> Nat] /\ req \in [Workers -> Service!Request]
      /\ jobs \subseteq ServedLeads /\ refused \in BOOLEAN
      /\ reopened \subseteq ServedLeads /\ disturbed \subseteq ServedLeads \cup Contracts
  BY DEF Service!TypeOK
<1>i. Service!Idle \in Service!Request
  BY DEF Service!Idle, Service!Request
<1> DEFINE Tables ==
             /\ lead' \in [ServedLeads -> Service!LeadRow \cup {None}]
             /\ \A l \in Service!OnFile(lead) : lead'[l] # None /\ lead'[l].renews = lead[l].renews
             /\ contract' \in [Contracts -> Service!ContractRow \cup {None}]
             /\ \A k \in Service!OnFile(contract) : contract'[k] # None
             /\ refused' \in BOOLEAN
             /\ reopened' \subseteq ServedLeads /\ reopened \subseteq reopened'
             /\ disturbed' \subseteq ServedLeads \cup Contracts /\ disturbed \subseteq disturbed'
             /\ UNCHANGED <<customer, series, jobs>>
\* The tables, and the request that was served.
<1>1. ASSUME NEW w \in Workers, NEW r \in Service!Request, Service!Goto(w, r), Tables
      PROVE  Service!TypeOK' /\ ServiceGrow
  <2>1. req' \in [Workers -> Service!Request]
    BY <1>0, <1>1 DEF Service!Goto
  <2>2. Service!TypeOK'
    BY <1>0, <1>1, <2>1 DEF Service!TypeOK
  <2>3. /\ Service!OnFile(lead)' = {l \in ServedLeads : lead'[l] # None}
        /\ Service!OnFile(contract)' = {k \in Contracts : contract'[k] # None}
    BY <1>1 DEF Service!OnFile
  <2> QED
    BY <1>1, <2>2, <2>3, ServiceRows DEF ServiceGrow
<1>2. \A l \in Service!OnFile(lead) : l \in ServedLeads /\ lead[l] # None
  BY ServiceRows
<1>3. \A k \in Service!OnFile(contract) : k \in Contracts /\ contract[k] # None
  BY ServiceRows
<1>4. ASSUME UNCHANGED <<lead, customer, contract, series, jobs, refused, reopened, disturbed>> PROVE Tables
  BY <1>0, <1>2, <1>3, <1>4
<1>5. ASSUME UNCHANGED <<lead, customer, contract, series, jobs, refused, reopened>>,
             disturbed' \subseteq ServedLeads \cup Contracts, disturbed \subseteq disturbed'
      PROVE  Tables
  BY <1>0, <1>2, <1>3, <1>5
<1>6. ASSUME UNCHANGED <<customer, contract, series, jobs, refused, disturbed>>,
             reopened' \subseteq ServedLeads, reopened \subseteq reopened',
             lead' \in [ServedLeads -> Service!LeadRow \cup {None}],
             \A l \in Service!OnFile(lead) : lead'[l] # None /\ lead'[l].renews = lead[l].renews
      PROVE  Tables
  BY <1>0, <1>3, <1>6
<1>7. ASSUME UNCHANGED <<lead, customer, series, jobs, refused, reopened, disturbed>>,
             contract' \in [Contracts -> Service!ContractRow \cup {None}],
             \A k \in Service!OnFile(contract) : contract'[k] # None
      PROVE  Tables
  BY <1>0, <1>2, <1>7
<1> HIDE DEF Tables
<1> DEFINE Goal == Service!TypeOK' /\ ServiceGrow
<1>8. ASSUME NEW w \in Workers, NEW b \in Branches, NEW phone \in Phones PROVE ~Service!CaptureDraw(w, b, phone)
  <2>1. series[b] \in Nat
    BY <1>0
  <2>2. ~(series[b] < 0)
    BY <2>1
  <2> QED
    BY <2>2 DEF Service!CaptureDraw
<1>9. ASSUME NEW w \in Workers PROVE ~Service!CaptureInsert(w)
  BY DEF Service!CaptureInsert, Service!At, ServiceHeld, Renewing
<1>10. ASSUME NEW w \in Workers, NEW l \in ServedLeads, Service!PatchRead(w, l) PROVE Goal
  <2> DEFINE was == [stage |-> lead[l].stage, dated |-> lead[l].dated]
  <2>1. lead[l] \in Service!LeadRow
    BY <1>10, ServiceRows DEF Service!PatchRead
  <2>2. was \in [stage : Service!Stages, dated : BOOLEAN]
    BY <2>1 DEF Service!LeadRow
  <2>3. Service!Goto(w, [Service!Idle EXCEPT !.pc = "patch", !.lead = l, !.was = was]) /\ Tables
    BY <1>4, <1>10 DEF Service!PatchRead, Service!Begin
  <2> HIDE DEF was
  <2>4. [Service!Idle EXCEPT !.pc = "patch", !.lead = l, !.was = was] \in Service!Request
    BY <2>2, ServiceBegins
  <2> QED
    BY <1>1, <2>3, <2>4
<1>11. ASSUME NEW w \in Workers, NEW stage \in Service!Stages \cup {None}, NEW date \in {"set", "keep", "clear"},
              Service!PatchWrite(w, stage, date)
       PROVE  Goal
  <2>1. PICK l \in Service!OnFile(lead), was \in [stage : Service!Stages, dated : BOOLEAN] :
          /\ l = req[w].lead /\ lead'[l] \in Service!LeadRow /\ lead'[l].renews = lead[l].renews
          /\ \A m \in ServedLeads \ {l} : lead'[m] = lead[m]
          /\ lead' \in [ServedLeads -> Service!LeadRow \cup {None}]
    BY <1>11, ServicePatchEffect
  <2>2. /\ UNCHANGED <<customer, contract, series, jobs, refused, disturbed>>
        /\ reopened' \subseteq ServedLeads /\ reopened \subseteq reopened'
        /\ Service!Goto(w, Service!Idle)
    BY <1>0, <1>2, <1>11, <2>1 DEF Service!PatchWrite, Service!Finish
  <2>3. \A m \in Service!OnFile(lead) : lead'[m] # None /\ lead'[m].renews = lead[m].renews
    BY <1>2, <2>1, ServiceConstants
  <2>4. Tables
    BY <1>6, <2>1, <2>2, <2>3
  <2> QED
    BY <1>1, <1>i, <2>2, <2>4
<1>12. ASSUME NEW w \in Workers, NEW c \in ServedCustomers, Service!ContractSite(w, c) PROVE Goal
  <2>1. Service!Goto(w, [Service!Idle EXCEPT !.pc = "contract_count", !.customer = c]) /\ Tables
    BY <1>4, <1>12 DEF Service!ContractSite, Service!Begin
  <2>2. [Service!Idle EXCEPT !.pc = "contract_count", !.customer = c] \in Service!Request
    BY ServiceBegins
  <2> QED
    BY <1>1, <2>1, <2>2
<1>13. ASSUME NEW w \in Workers, NEW k \in Contracts, Service!RenewRead(w, k) PROVE Goal
  <2>1. Service!Goto(w, [Service!Idle EXCEPT !.pc = "renew_count", !.contract = k]) /\ Tables
    BY <1>0, <1>5, <1>13 DEF Service!RenewRead, Service!Begin
  <2>2. [Service!Idle EXCEPT !.pc = "renew_count", !.contract = k] \in Service!Request
    BY ServiceBegins
  <2> QED
    BY <1>1, <2>1, <2>2
<1>14. ASSUME NEW w \in Workers, Service!ContractCount(w) PROVE Goal
  <2> DEFINE n == Service!Cardinality(Service!OnFile(contract)) + 1
  <2>1. n \in Nat
    BY ServiceCounts, ServiceRows
  <2>2. Service!Goto(w, [req[w] EXCEPT !.pc = "contract_insert", !.n = n]) /\ Tables
    BY <1>4, <1>14 DEF Service!ContractCount
  <2> HIDE DEF n
  <2>3. [req[w] EXCEPT !.pc = "contract_insert", !.n = n] \in Service!Request
    BY <1>0, <2>1, ZenonT(60) DEF Service!Request
  <2> QED
    BY <1>1, <2>2, <2>3
<1>15. ASSUME NEW w \in Workers, Service!ContractInsert(w) PROVE Goal
  <2>1. CASE \E k \in Service!OnFile(contract) : contract[k].number = req[w].n
    <3>1. Service!Goto(w, Service!Idle) /\ Tables
      BY <1>4, <1>15, <2>1 DEF Service!ContractInsert, Service!Finish
    <3> QED
      BY <1>1, <1>i, <3>1
  <2>2. CASE ~\E k \in Service!OnFile(contract) : contract[k].number = req[w].n
    <3> DEFINE row == [number |-> req[w].n, of |-> req[w].customer, scheduled |-> FALSE]
    <3>1. row \in Service!ContractRow
      BY <1>15, ServiceRequests DEF ServiceHeld, Service!ContractInsert, Service!At, Service!ContractRow
    <3>2. PICK k \in Contracts \ Service!OnFile(contract) :
            /\ contract' = [contract EXCEPT ![k] = row]
            /\ Service!Goto(w, [req[w] EXCEPT !.pc = "schedules", !.contract = k])
            /\ UNCHANGED <<lead, customer, series, jobs, refused, reopened, disturbed>>
      BY <1>15, <2>2 DEF Service!ContractInsert
    <3> HIDE DEF row
    <3>3. Tables
      BY <1>0, <1>3, <1>7, <3>1, <3>2
    <3>4. [req[w] EXCEPT !.pc = "schedules", !.contract = k] \in Service!Request
      BY <1>0, ZenonT(60) DEF Service!Request
    <3> QED
      BY <1>1, <3>2, <3>3, <3>4
  <2> QED
    BY <2>1, <2>2
<1>16. ASSUME NEW w \in Workers, Service!SchedulesInsert(w) PROVE Goal
  <2>1. PICK k \in Service!OnFile(contract) : k = req[w].contract
    BY <1>16 DEF ServiceHeld, Service!SchedulesInsert, Service!At
  <2>2. contract[k] \in Service!ContractRow
    BY ServiceRows
  <2> DEFINE row == [contract[k] EXCEPT !.scheduled = TRUE]
  <2>3. row \in Service!ContractRow
    BY <2>2 DEF Service!ContractRow
  <2>4. contract' = [contract EXCEPT ![k] = row]
    BY <1>0, <1>3, <1>16, <2>1 DEF Service!SchedulesInsert
  <2> HIDE DEF row
  <2>5. row # None
    BY <2>3, ServiceConstants
  <2>6. UNCHANGED <<lead, customer, series, jobs, refused, reopened, disturbed>> /\ Service!Goto(w, Service!Idle)
    BY <1>16 DEF Service!SchedulesInsert, Service!Finish
  <2>7. Tables
    BY <1>0, <1>3, <1>7, <2>3, <2>4, <2>5, <2>6
  <2> QED
    BY <1>1, <1>i, <2>6, <2>7
<1>17. ASSUME NEW w \in Workers, Service!RenewCount(w) PROVE Goal
  <2> DEFINE contacts == customer[contract[req[w].contract].of].contacts
             n == Service!Cardinality(Service!OnFile(lead)) + 1
  <2>1. contacts \subseteq Phones
    <3>1. contract[req[w].contract] \in Service!ContractRow
      BY <1>17, ServiceRows DEF ServiceHeld, Service!RenewCount, Service!At, Renewing
    <3>2. customer[contract[req[w].contract].of] \in Service!CustomerRow
      BY <3>1 DEF CustomersServed, Service!ContractRow
    <3> QED
      BY <3>2 DEF Service!CustomerRow
  <2>2. n \in Nat
    BY ServiceCounts, ServiceRows, SMTT(40)
  <2>3. PICK phone \in IF contacts = {} THEN {None} ELSE contacts :
          Service!Goto(w, [req[w] EXCEPT !.pc = "renew_insert", !.phone = phone, !.n = n])
    BY <1>17 DEF Service!RenewCount
  <2>4. Tables
    BY <1>4, <1>17 DEF Service!RenewCount
  <2> HIDE DEF n, contacts
  <2>5. phone \in Phones \cup {None}
    BY <2>1, <2>3
  <2>6. [req[w] EXCEPT !.pc = "renew_insert", !.phone = phone, !.n = n] \in Service!Request
    BY <1>0, <2>2, <2>5, ZenonT(60) DEF Service!Request
  <2> QED
    BY <1>1, <2>3, <2>4, <2>6
<1>18. ASSUME NEW w \in Workers, Service!RenewInsert(w) PROVE Goal
  <2>1. CASE Service!Taken(req[w].n)
    <3>1. Service!Goto(w, Service!Idle) /\ Tables
      BY <1>4, <1>18, <2>1 DEF Service!RenewInsert, Service!Finish
    <3> QED
      BY <1>1, <1>i, <3>1
  <2>2. CASE ~Service!Taken(req[w].n)
    <3>1. PICK l \in ServedLeads \ Service!OnFile(lead) :
            /\ \A m \in ServedLeads \ {l} : lead'[m] = lead[m]
            /\ lead' \in [ServedLeads -> Service!LeadRow \cup {None}]
            /\ req' = [req EXCEPT ![w] = [req[w] EXCEPT !.pc = "renew_note", !.lead = l]]
      BY <1>18, <2>2, RenewInsertEffect
    <3>2. UNCHANGED <<customer, contract, series, jobs, refused, reopened, disturbed>>
      BY <1>18 DEF Service!RenewInsert
    <3>3. Tables
      BY <1>0, <1>2, <1>6, <3>1, <3>2
    <3>4. [req[w] EXCEPT !.pc = "renew_note", !.lead = l] \in Service!Request
      BY <1>0, ZenonT(60) DEF Service!Request
    <3>5. Service!Goto(w, [req[w] EXCEPT !.pc = "renew_note", !.lead = l])
      BY <3>1 DEF Service!Goto
    <3> QED
      BY <1>1, <3>3, <3>4, <3>5
  <2> QED
    BY <2>1, <2>2
<1>19. ASSUME NEW w \in Workers, Service!RenewNote(w) PROVE Goal
  <2>1. PICK l \in Service!OnFile(lead) :
          /\ lead'[l] \in Service!LeadRow /\ lead'[l].renews = lead[l].renews
          /\ \A m \in ServedLeads \ {l} : lead'[m] = lead[m]
          /\ lead' \in [ServedLeads -> Service!LeadRow \cup {None}]
    BY <1>19, RenewNoteEffect
  <2>2. UNCHANGED <<customer, contract, series, jobs, refused, reopened, disturbed>> /\ Service!Goto(w, Service!Idle)
    BY <1>19 DEF Service!RenewNote, Service!Finish
  <2>3. \A m \in Service!OnFile(lead) : lead'[m] # None /\ lead'[m].renews = lead[m].renews
    BY <1>2, <2>1, ServiceConstants
  <2>4. Tables
    BY <1>0, <1>6, <2>1, <2>2, <2>3
  <2> QED
    BY <1>1, <1>i, <2>2, <2>4
<1>20. ASSUME NEW w \in Workers, Service!Crash(w) PROVE Goal
  <2>1. {req[w].lead, req[w].contract} \ {None} \subseteq ServedLeads \cup Contracts
    BY ServiceRequests
  <2>2. Service!Goto(w, Service!Idle) /\ Tables
    BY <1>0, <1>5, <1>20, <2>1 DEF Service!Crash, Service!Finish
  <2> QED
    BY <1>1, <1>i, <2>2
<1> QED
  BY <1>8, <1>9, <1>10, <1>11, <1>12, <1>13, <1>14, <1>15, <1>16, <1>17, <1>18, <1>19, <1>20
     DEF Service!ContractsNext, Service!LeadStep, Service!ContractStep

\* What the request that was served holds next.
LEMMA ServiceHeldKept ==
  ASSUME Service!TypeOK, Service!TypeOK', \A w \in Workers : ServiceHeld(w), ServiceGrow,
         Service!QueuedIsDated, CustomersServed, Service!ContractsNext
  PROVE  \A w \in Workers : ServiceHeld(w)'
<1>0. /\ req \in [Workers -> Service!Request]
      /\ Service!OnFile(lead)' = {l \in ServedLeads : lead'[l] # None}
      /\ Service!OnFile(contract)' = {k \in Contracts : contract'[k] # None}
      /\ \A l \in Service!OnFile(lead) : l \in Service!OnFile(lead)' /\ lead'[l].renews = lead[l].renews
      /\ \A k \in Service!OnFile(contract) : k \in Service!OnFile(contract)'
      /\ reopened \subseteq reopened'
  BY DEF Service!TypeOK, Service!OnFile, ServiceGrow
<1>1. ASSUME NEW w \in Workers, req'[w] = req[w] PROVE ServiceHeld(w)'
  <2>1. ServiceHeld(w)
    OBVIOUS
  <2> QED
    BY <1>0, <1>1, <2>1 DEF ServiceHeld, Renewing
<1>2. ASSUME NEW w \in Workers, ServiceHeld(w)', \A v \in Workers \ {w} : req'[v] = req[v]
      PROVE  \A v \in Workers : ServiceHeld(v)'
  BY <1>1, <1>2
<1>3. ASSUME NEW w \in Workers, Service!Finish(w) PROVE \A v \in Workers : ServiceHeld(v)'
  <2>1. req'[w] = Service!Idle /\ \A v \in Workers \ {w} : req'[v] = req[v]
    BY <1>3, ServiceGoes DEF Service!Finish
  <2>2. ServiceHeld(w)'
    BY <2>1 DEF ServiceHeld, Service!Idle, Renewing
  <2> QED
    BY <1>2, <2>1, <2>2
<1>4. ASSUME NEW w \in Workers, NEW l \in ServedLeads, Service!PatchRead(w, l)
      PROVE  \A v \in Workers : ServiceHeld(v)'
  <2> DEFINE was == [stage |-> lead[l].stage, dated |-> lead[l].dated]
  <2>1. /\ req'[w] = [Service!Idle EXCEPT !.pc = "patch", !.lead = l, !.was = was]
        /\ \A v \in Workers \ {w} : req'[v] = req[v]
    BY <1>4, ServiceGoes DEF Service!PatchRead, Service!Begin
  <2>2. l \in Service!OnFile(lead) /\ lead[l] \in Service!LeadRow
    BY <1>4, ServiceRows DEF Service!PatchRead
  <2>3. /\ was \in [stage : Service!Stages, dated : BOOLEAN]
        /\ was.stage = "OPEN" => was.dated \/ l \in reopened
    BY <2>2 DEF Service!LeadRow, Service!QueuedIsDated, Service!Queue, Service!Terminal
  <2> HIDE DEF was
  <2>4. req'[w].pc = "patch" /\ req'[w].lead = l /\ req'[w].was = was
    BY <2>1 DEF Service!Idle
  <2>5. ServiceHeld(w)'
    BY <1>0, <2>2, <2>3, <2>4 DEF ServiceHeld, Renewing
  <2> QED
    BY <1>2, <2>1, <2>5
<1>5. ASSUME NEW w \in Workers, NEW c \in ServedCustomers, Service!ContractSite(w, c)
      PROVE  \A v \in Workers : ServiceHeld(v)'
  <2>1. /\ req'[w] = [Service!Idle EXCEPT !.pc = "contract_count", !.customer = c]
        /\ \A v \in Workers \ {w} : req'[v] = req[v]
    BY <1>5, ServiceGoes DEF Service!ContractSite, Service!Begin
  <2>2. req'[w].pc = "contract_count" /\ req'[w].customer = c
    BY <2>1 DEF Service!Idle
  <2>3. ServiceHeld(w)'
    BY <2>2 DEF ServiceHeld, Renewing
  <2> QED
    BY <1>2, <2>1, <2>3
<1>6. ASSUME NEW w \in Workers, NEW k \in Contracts, Service!RenewRead(w, k)
      PROVE  \A v \in Workers : ServiceHeld(v)'
  <2>1. /\ req'[w] = [Service!Idle EXCEPT !.pc = "renew_count", !.contract = k]
        /\ \A v \in Workers \ {w} : req'[v] = req[v]
    BY <1>6, ServiceGoes DEF Service!RenewRead, Service!Begin
  <2>2. req'[w].pc = "renew_count" /\ req'[w].contract = k
    BY <2>1 DEF Service!Idle
  <2>3. k \in Service!OnFile(contract)'
    BY <1>0, <1>6 DEF Service!RenewRead
  <2>4. ServiceHeld(w)'
    BY <2>2, <2>3 DEF ServiceHeld, Renewing
  <2> QED
    BY <1>2, <2>1, <2>4
<1>7. ASSUME NEW w \in Workers, Service!ContractCount(w) PROVE \A v \in Workers : ServiceHeld(v)'
  <2> DEFINE n == Service!Cardinality(Service!OnFile(contract)) + 1
  <2>1. /\ req'[w] = [req[w] EXCEPT !.pc = "contract_insert", !.n = n]
        /\ \A v \in Workers \ {w} : req'[v] = req[v]
    BY <1>7, ServiceGoes DEF Service!ContractCount
  <2> HIDE DEF n
  <2>2. req'[w].pc = "contract_insert" /\ req'[w].customer = req[w].customer
    BY <1>0, <2>1 DEF Service!Request
  <2>3. req[w].customer \in ServedCustomers
    BY <1>7 DEF Service!ContractCount, Service!At, ServiceHeld
  <2>4. ServiceHeld(w)'
    BY <2>2, <2>3 DEF ServiceHeld, Renewing
  <2> QED
    BY <1>2, <2>1, <2>4
<1>8. ASSUME NEW w \in Workers, Service!ContractInsert(w) PROVE \A v \in Workers : ServiceHeld(v)'
  <2>1. CASE \E k \in Service!OnFile(contract) : contract[k].number = req[w].n
    BY <1>3, <1>8, <2>1 DEF Service!ContractInsert
  <2>2. CASE ~\E k \in Service!OnFile(contract) : contract[k].number = req[w].n
    <3> DEFINE row == [number |-> req[w].n, of |-> req[w].customer, scheduled |-> FALSE]
    <3>1. PICK k \in Contracts \ Service!OnFile(contract) :
            /\ contract' = [contract EXCEPT ![k] = row]
            /\ Service!Goto(w, [req[w] EXCEPT !.pc = "schedules", !.contract = k])
      BY <1>8, <2>2 DEF Service!ContractInsert
    <3>2. row \in Service!ContractRow
      BY <1>8, ServiceRequests DEF ServiceHeld, Service!ContractInsert, Service!At, Service!ContractRow
    <3> HIDE DEF row
    <3>3. k \in Service!OnFile(contract)'
      <4>1. contract \in [Contracts -> Service!ContractRow \cup {None}]
        BY DEF Service!TypeOK
      <4> QED
        BY <1>0, <3>1, <3>2, <4>1, ServiceConstants
    <3>4. /\ req'[w] = [req[w] EXCEPT !.pc = "schedules", !.contract = k]
          /\ \A v \in Workers \ {w} : req'[v] = req[v]
      BY <3>1, ServiceGoes
    <3>5. req'[w].pc = "schedules" /\ req'[w].contract = k
      BY <1>0, <3>4 DEF Service!Request
    <3>6. ServiceHeld(w)'
      BY <3>3, <3>5 DEF ServiceHeld, Renewing
    <3> QED
      BY <1>2, <3>4, <3>6
  <2> QED
    BY <2>1, <2>2
<1>9. ASSUME NEW w \in Workers, Service!RenewCount(w) PROVE \A v \in Workers : ServiceHeld(v)'
  <2> DEFINE contacts == customer[contract[req[w].contract].of].contacts
             n == Service!Cardinality(Service!OnFile(lead)) + 1
  <2>1. PICK phone \in IF contacts = {} THEN {None} ELSE contacts :
          Service!Goto(w, [req[w] EXCEPT !.pc = "renew_insert", !.phone = phone, !.n = n])
    BY <1>9 DEF Service!RenewCount
  <2> HIDE DEF n, contacts
  <2>2. /\ req'[w] = [req[w] EXCEPT !.pc = "renew_insert", !.phone = phone, !.n = n]
        /\ \A v \in Workers \ {w} : req'[v] = req[v]
    BY <2>1, ServiceGoes
  <2>3. req'[w].pc = "renew_insert" /\ req'[w].contract = req[w].contract
    BY <1>0, <2>2 DEF Service!Request
  <2>4. req[w].contract \in Service!OnFile(contract)'
    BY <1>0, <1>9 DEF Service!RenewCount, Service!At, ServiceHeld, Renewing
  <2>5. ServiceHeld(w)'
    BY <2>3, <2>4 DEF ServiceHeld, Renewing
  <2> QED
    BY <1>2, <2>2, <2>5, SMTT(40)
<1>10. ASSUME NEW w \in Workers, Service!RenewInsert(w) PROVE \A v \in Workers : ServiceHeld(v)'
  <2>1. CASE Service!Taken(req[w].n)
    BY <1>3, <1>10, <2>1 DEF Service!RenewInsert
  <2>2. CASE ~Service!Taken(req[w].n)
    <3>1. PICK l \in ServedLeads :
            /\ lead'[l] \in Service!LeadRow /\ lead'[l].renews = req[w].contract
            /\ req' = [req EXCEPT ![w] = [req[w] EXCEPT !.pc = "renew_note", !.lead = l]]
      BY <1>10, <2>2, RenewInsertEffect
    <3>2. /\ req'[w].pc = "renew_note" /\ req'[w].lead = l /\ req'[w].contract = req[w].contract
          /\ \A v \in Workers \ {w} : req'[v] = req[v]
      BY <1>0, <3>1 DEF Service!Request
    <3>3. l \in Service!OnFile(lead)'
      BY <1>0, <3>1, ServiceConstants
    <3>4. req[w].contract \in Service!OnFile(contract)'
      BY <1>0, <1>10 DEF Service!RenewInsert, Service!At, ServiceHeld, Renewing
    <3>5. ServiceHeld(w)'
      BY <3>1, <3>2, <3>3, <3>4 DEF ServiceHeld, Renewing
    <3> QED
      BY <1>2, <3>2, <3>5
  <2> QED
    BY <2>1, <2>2
<1>11. ASSUME NEW w \in Workers, NEW b \in Branches, NEW phone \in Phones PROVE ~Service!CaptureDraw(w, b, phone)
  <2>1. series[b] \in Nat
    BY DEF Service!TypeOK
  <2>2. ~(series[b] < 0)
    BY <2>1
  <2> QED
    BY <2>2 DEF Service!CaptureDraw
<1> QED
  BY <1>3, <1>4, <1>5, <1>6, <1>7, <1>8, <1>9, <1>10, <1>11
     DEF Service!ContractsNext, Service!LeadStep, Service!ContractStep, Service!CaptureInsert,
         Service!PatchWrite, Service!SchedulesInsert, Service!RenewNote, Service!Crash

LEMMA RenewsKept ==
  ASSUME Service!TypeOK, Service!TypeOK', \A w \in Workers : ServiceHeld(w), ServiceGrow,
         CustomersServed, RenewsAlone, Service!ContractsNext
  PROVE  RenewsAlone'
<1>0. /\ req \in [Workers -> Service!Request]
      /\ Service!OnFile(lead) = {l \in ServedLeads : lead[l] # None}
      /\ Service!OnFile(lead)' = {l \in ServedLeads : lead'[l] # None}
      /\ \A l \in Service!OnFile(lead) : l \in Service!OnFile(lead)' /\ lead'[l].renews = lead[l].renews
      /\ disturbed \subseteq disturbed'
      /\ Service!Idle.pc = "idle"
  BY DEF Service!TypeOK, Service!OnFile, ServiceGrow, Service!Idle
\* A statement by which nobody starts renewing, no lead is added, and what a request was about
\* to raise is raised or disturbed.
<1>1. ASSUME NEW w \in Workers, \A v \in Workers \ {w} : req'[v] = req[v],
             Service!OnFile(lead)' = Service!OnFile(lead),
             \A l \in Service!OnFile(lead) : lead[l].raised => lead'[l].raised,
             \/ req'[w].pc \notin Renewing
             \/ req[w].pc = "renew_count" /\ req'[w].pc = "renew_insert" /\ req'[w].contract = req[w].contract,
             req[w].pc = "renew_note" => req[w].contract \in disturbed' \/ lead'[req[w].lead].raised
      PROVE  RenewsAlone'
  <2>1. \A v \in Workers : req'[v].pc \in Renewing =>
            /\ req[v].pc \in Renewing /\ req'[v].contract = req[v].contract
            /\ req'[v].pc \in {"renew_count", "renew_insert"} => req[v].pc \in {"renew_count", "renew_insert"}
    BY <1>1 DEF Renewing
  <2>2. \A u, v \in Workers :
          u # v /\ req'[u].pc \in Renewing /\ req'[v].pc \in Renewing /\ req'[u].contract = req'[v].contract
              => req'[v].contract \in disturbed'
    BY <1>0, <2>1 DEF RenewsAlone
  <2>3. \A v \in Workers, l \in Service!OnFile(lead)' :
          req'[v].pc \in {"renew_count", "renew_insert"} /\ lead'[l].renews = req'[v].contract
              => req'[v].contract \in disturbed'
    BY <1>0, <1>1, <2>1 DEF RenewsAlone, Renewing
  <2>4. ASSUME NEW l \in Service!OnFile(lead)'
        PROVE  lead'[l].renews = None \/ lead'[l].renews \in disturbed' \/ lead'[l].raised
               \/ \E v \in Workers : req'[v].pc = "renew_note" /\ req'[v].contract = lead'[l].renews /\ req'[v].lead = l
    <3>1. l \in Service!OnFile(lead) /\ lead'[l].renews = lead[l].renews
      BY <1>0, <1>1, <2>4
    <3>2. ASSUME NEW v \in Workers, req[v].pc = "renew_note", req[v].contract = lead[l].renews, req[v].lead = l
          PROVE  lead'[l].renews \in disturbed' \/ lead'[l].raised \/ req'[v] = req[v]
      BY <1>1, <3>1, <3>2
    <3> QED
      BY <1>0, <1>1, <3>1, <3>2 DEF RenewsAlone
  <2>5. \A l, m \in Service!OnFile(lead)' :
          l # m /\ lead'[l].renews = lead'[m].renews => lead'[l].renews = None \/ lead'[l].renews \in disturbed'
    BY <1>0, <1>1 DEF RenewsAlone
  <2> QED
    BY <2>2, <2>3, <2>4, <2>5 DEF RenewsAlone
<1>2. UNCHANGED lead =>
        /\ Service!OnFile(lead)' = Service!OnFile(lead)
        /\ \A l \in Service!OnFile(lead) : lead[l].raised => lead'[l].raised
  BY <1>0
<1>3. ASSUME NEW w \in Workers, UNCHANGED lead, req[w].pc # "renew_note", NEW r, Service!Goto(w, r), r.pc \notin Renewing
      PROVE  RenewsAlone'
  BY <1>1, <1>2, <1>3, ServiceGoes
<1>4. ASSUME NEW w \in Workers, NEW l \in ServedLeads, Service!PatchRead(w, l) PROVE RenewsAlone'
  <2> DEFINE was == [stage |-> lead[l].stage, dated |-> lead[l].dated]
             r == [Service!Idle EXCEPT !.pc = "patch", !.lead = l, !.was = was]
  <2>1. UNCHANGED lead /\ req[w].pc # "renew_note" /\ Service!Goto(w, r)
    BY <1>0, <1>4 DEF Service!PatchRead, Service!Begin
  <2> HIDE DEF was
  <2>2. r.pc \notin Renewing
    BY DEF Service!Idle, Renewing
  <2> HIDE DEF r
  <2> QED
    BY <1>3, <2>1, <2>2
<1>5. ASSUME NEW w \in Workers, NEW c \in ServedCustomers, Service!ContractSite(w, c) PROVE RenewsAlone'
  <2> DEFINE r == [Service!Idle EXCEPT !.pc = "contract_count", !.customer = c]
  <2>1. UNCHANGED lead /\ req[w].pc # "renew_note" /\ Service!Goto(w, r)
    BY <1>0, <1>5 DEF Service!ContractSite, Service!Begin
  <2>2. r.pc \notin Renewing
    BY DEF Service!Idle, Renewing
  <2> HIDE DEF r
  <2> QED
    BY <1>3, <2>1, <2>2
<1>6. ASSUME NEW w \in Workers, UNCHANGED lead, req[w].pc # "renew_note", Service!Finish(w) PROVE RenewsAlone'
  BY <1>0, <1>3, <1>6 DEF Service!Finish, Renewing
<1>7. ASSUME NEW w \in Workers, Service!ContractCount(w) PROVE RenewsAlone'
  <2> DEFINE n == Service!Cardinality(Service!OnFile(contract)) + 1
             r == [req[w] EXCEPT !.pc = "contract_insert", !.n = n]
  <2>1. UNCHANGED lead /\ req[w].pc # "renew_note" /\ Service!Goto(w, r)
    BY <1>7 DEF Service!ContractCount, Service!At
  <2> HIDE DEF n
  <2>2. r.pc \notin Renewing
    BY <1>0 DEF Service!Request, Renewing
  <2> HIDE DEF r
  <2> QED
    BY <1>3, <2>1, <2>2
<1>8. ASSUME NEW w \in Workers, Service!ContractInsert(w) PROVE RenewsAlone'
  <2>1. UNCHANGED lead /\ req[w].pc # "renew_note"
    BY <1>8 DEF Service!ContractInsert, Service!At
  <2>2. CASE \E k \in Service!OnFile(contract) : contract[k].number = req[w].n
    BY <1>6, <1>8, <2>1, <2>2 DEF Service!ContractInsert
  <2>3. CASE ~\E k \in Service!OnFile(contract) : contract[k].number = req[w].n
    <3>1. PICK k : Service!Goto(w, [req[w] EXCEPT !.pc = "schedules", !.contract = k])
      BY <1>8, <2>3 DEF Service!ContractInsert
    <3> DEFINE r == [req[w] EXCEPT !.pc = "schedules", !.contract = k]
    <3>2. r.pc \notin Renewing
      BY <1>0 DEF Service!Request, Renewing
    <3> HIDE DEF r
    <3> QED
      BY <1>3, <2>1, <3>1, <3>2 DEF r
  <2> QED
    BY <2>2, <2>3
<1>9. ASSUME NEW w \in Workers, Service!SchedulesInsert(w) PROVE RenewsAlone'
  BY <1>6, <1>9 DEF Service!SchedulesInsert, Service!At
<1>10. ASSUME NEW w \in Workers, NEW stage \in Service!Stages \cup {None}, NEW date \in {"set", "keep", "clear"},
              Service!PatchWrite(w, stage, date)
       PROVE  RenewsAlone'
  <2>1. PICK l \in Service!OnFile(lead) :
          /\ req[w].pc = "patch" /\ lead'[l] \in Service!LeadRow /\ lead'[l].raised = lead[l].raised
          /\ \A m \in ServedLeads \ {l} : lead'[m] = lead[m]
    BY <1>10, ServicePatchEffect
  <2>2. req'[w] = Service!Idle /\ \A v \in Workers \ {w} : req'[v] = req[v]
    BY <1>10, ServiceGoes DEF Service!PatchWrite, Service!Finish
  <2>3. Service!OnFile(lead)' = Service!OnFile(lead)
    BY <1>0, <2>1
  <2>4. \A m \in Service!OnFile(lead) : lead[m].raised => lead'[m].raised
    BY <1>0, <2>1
  <2> QED
    BY <1>0, <1>1, <2>1, <2>2, <2>3, <2>4 DEF Renewing
<1>11. ASSUME NEW w \in Workers, Service!RenewCount(w) PROVE RenewsAlone'
  <2> DEFINE contacts == customer[contract[req[w].contract].of].contacts
             n == Service!Cardinality(Service!OnFile(lead)) + 1
  <2>1. PICK phone \in IF contacts = {} THEN {None} ELSE contacts :
          Service!Goto(w, [req[w] EXCEPT !.pc = "renew_insert", !.phone = phone, !.n = n])
    BY <1>11 DEF Service!RenewCount
  <2> HIDE DEF n, contacts
  <2>2. /\ req'[w] = [req[w] EXCEPT !.pc = "renew_insert", !.phone = phone, !.n = n]
        /\ \A v \in Workers \ {w} : req'[v] = req[v]
    BY <2>1, ServiceGoes
  <2>3. req'[w].pc = "renew_insert" /\ req'[w].contract = req[w].contract
    BY <1>0, <2>2 DEF Service!Request
  <2>4. req[w].pc = "renew_count" /\ UNCHANGED lead
    BY <1>11 DEF Service!RenewCount, Service!At
  <2> QED
    BY <1>1, <1>2, <2>2, <2>3, <2>4
<1>12. ASSUME NEW w \in Workers, Service!RenewNote(w) PROVE RenewsAlone'
  <2>1. PICK l \in Service!OnFile(lead) :
          /\ req[w].pc = "renew_note" /\ l = req[w].lead /\ lead'[l] \in Service!LeadRow /\ lead'[l].raised = TRUE
          /\ \A m \in ServedLeads \ {l} : lead'[m] = lead[m]
    BY <1>12, RenewNoteEffect
  <2>2. req'[w] = Service!Idle /\ \A v \in Workers \ {w} : req'[v] = req[v]
    BY <1>12, ServiceGoes DEF Service!RenewNote, Service!Finish
  <2>3. Service!OnFile(lead)' = Service!OnFile(lead)
    BY <1>0, <2>1
  <2>4. \A m \in Service!OnFile(lead) : lead[m].raised => lead'[m].raised
    BY <1>0, <2>1
  <2> QED
    BY <1>0, <1>1, <2>1, <2>2, <2>3, <2>4 DEF Renewing
<1>13. ASSUME NEW w \in Workers, Service!Crash(w) PROVE RenewsAlone'
  <2>1. /\ req'[w] = Service!Idle /\ \A v \in Workers \ {w} : req'[v] = req[v]
        /\ UNCHANGED lead
    BY <1>13, ServiceGoes DEF Service!Crash, Service!Finish
  <2>2. req[w].pc = "renew_note" => req[w].contract \in disturbed'
    <3>1. req[w].pc = "renew_note" => req[w].contract # None
      BY ServiceRows, ServiceConstants DEF ServiceHeld, Renewing
    <3> QED
      BY <1>13, <3>1 DEF Service!Crash
  <2> QED
    BY <1>0, <1>1, <1>2, <2>1, <2>2 DEF Renewing
\* The two statements by which a contract begins to be renewed, and gets its lead.
<1>14. ASSUME NEW w \in Workers, NEW k \in Contracts, Service!RenewRead(w, k) PROVE RenewsAlone'
  <2>1. /\ req'[w] = [Service!Idle EXCEPT !.pc = "renew_count", !.contract = k]
        /\ \A v \in Workers \ {w} : req'[v] = req[v]
    BY <1>14, ServiceGoes DEF Service!RenewRead, Service!Begin
  <2>2. req'[w].pc = "renew_count" /\ req'[w].contract = k
    BY <2>1 DEF Service!Idle
  <2>3. UNCHANGED lead /\ req[w].pc = "idle" /\ ~Service!Worked(k) /\ k # None
    BY <1>0, <1>14, ServiceConstants DEF Service!RenewRead, Service!Begin
  <2>4. \A v \in Workers \ {w} : req[v].contract = k => k \in disturbed'
    BY <1>14 DEF Service!RenewRead, Service!OthersHandle, Service!Handles
  <2>5. \A l \in Service!OnFile(lead) : lead[l].renews = k => k \in disturbed'
    <3>1. ASSUME NEW l \in Service!OnFile(lead), lead[l].renews = k PROVE k \in disturbed'
      <4>1. ~lead[l].raised
        BY <2>3, <3>1 DEF Service!Worked
      <4>2. k \in disturbed \/ \E v \in Workers : req[v].pc = "renew_note" /\ req[v].contract = k
        BY <2>3, <3>1, <4>1 DEF RenewsAlone
      <4> QED
        BY <1>0, <2>3, <2>4, <4>2
    <3> QED
      BY <3>1
  <2>6. \A u, v \in Workers :
          u # v /\ req'[u].pc \in Renewing /\ req'[v].pc \in Renewing /\ req'[u].contract = req'[v].contract
              => req'[v].contract \in disturbed'
    <3>1. ASSUME NEW u \in Workers, NEW v \in Workers, u # v, req'[u].pc \in Renewing,
                 req'[v].pc \in Renewing, req'[u].contract = req'[v].contract
          PROVE  req'[v].contract \in disturbed'
      <4>1. CASE u = w
        BY <2>1, <2>2, <2>4, <3>1, <4>1
      <4>2. CASE v = w
        BY <2>1, <2>2, <2>4, <3>1, <4>2
      <4>3. CASE u # w /\ v # w
        <5>1. req'[u] = req[u] /\ req'[v] = req[v]
          BY <2>1, <4>3
        <5>2. req[v].contract \in disturbed
          BY <3>1, <5>1 DEF RenewsAlone
        <5> QED
          BY <1>0, <5>1, <5>2
      <4> QED
        BY <4>1, <4>2, <4>3
    <3> QED
      BY <3>1
  <2>7. \A v \in Workers, l \in Service!OnFile(lead)' :
          req'[v].pc \in {"renew_count", "renew_insert"} /\ lead'[l].renews = req'[v].contract
              => req'[v].contract \in disturbed'
    <3>1. ASSUME NEW v \in Workers, NEW l \in Service!OnFile(lead)',
                 req'[v].pc \in {"renew_count", "renew_insert"}, lead'[l].renews = req'[v].contract
          PROVE  req'[v].contract \in disturbed'
      <4>1. l \in Service!OnFile(lead) /\ lead'[l] = lead[l]
        BY <1>0, <2>3
      <4>2. CASE v = w
        BY <2>2, <2>5, <3>1, <4>1, <4>2
      <4>3. CASE v # w
        <5>1. req'[v] = req[v]
          BY <2>1, <4>3
        <5>2. req[v].contract \in disturbed
          BY <3>1, <4>1, <5>1 DEF RenewsAlone
        <5> QED
          BY <1>0, <5>1, <5>2
      <4> QED
        BY <4>2, <4>3
    <3> QED
      BY <3>1
  <2>8. \A l \in Service!OnFile(lead)' :
          lead'[l].renews = None \/ lead'[l].renews \in disturbed' \/ lead'[l].raised
          \/ \E v \in Workers : req'[v].pc = "renew_note" /\ req'[v].contract = lead'[l].renews /\ req'[v].lead = l
    BY <1>0, <1>2, <2>1, <2>3 DEF RenewsAlone
  <2>9. \A l, m \in Service!OnFile(lead)' :
          l # m /\ lead'[l].renews = lead'[m].renews => lead'[l].renews = None \/ lead'[l].renews \in disturbed'
    BY <1>0, <1>2, <2>3 DEF RenewsAlone
  <2> QED
    BY <2>6, <2>7, <2>8, <2>9 DEF RenewsAlone
<1>15. ASSUME NEW w \in Workers, Service!RenewInsert(w) PROVE RenewsAlone'
  <2>1. CASE Service!Taken(req[w].n)
    BY <1>6, <1>15, <2>1 DEF Service!RenewInsert, Service!At
  <2>2. CASE ~Service!Taken(req[w].n)
    <3> DEFINE k == req[w].contract
    <3>1. PICK l \in ServedLeads \ Service!OnFile(lead) :
            /\ lead'[l] \in Service!LeadRow /\ lead'[l].renews = k
            /\ \A m \in ServedLeads \ {l} : lead'[m] = lead[m]
            /\ req' = [req EXCEPT ![w] = [req[w] EXCEPT !.pc = "renew_note", !.lead = l]]
      BY <1>15, <2>2, RenewInsertEffect
    <3>2. /\ req'[w].pc = "renew_note" /\ req'[w].lead = l /\ req'[w].contract = k
          /\ \A v \in Workers \ {w} : req'[v] = req[v]
      BY <1>0, <3>1 DEF Service!Request
    <3>3. req[w].pc = "renew_insert"
      BY <1>15 DEF Service!RenewInsert, Service!At
    <3>4. Service!OnFile(lead)' = Service!OnFile(lead) \cup {l}
      BY <1>0, <3>1, ServiceConstants
    <3>5. \A m \in Service!OnFile(lead) : m # l /\ lead'[m] = lead[m] /\ (lead[m].renews = k => k \in disturbed)
      BY <1>0, <3>1, <3>3 DEF RenewsAlone
    <3>6. \A v \in Workers \ {w} : req[v].pc \in Renewing /\ req[v].contract = k => k \in disturbed
      BY <3>3 DEF RenewsAlone, Renewing
    <3> HIDE DEF k
    <3>7. \A u, v \in Workers :
            u # v /\ req'[u].pc \in Renewing /\ req'[v].pc \in Renewing /\ req'[u].contract = req'[v].contract
                => req'[v].contract \in disturbed'
      BY <1>0, <3>2, <3>6 DEF RenewsAlone
    <3>8. \A v \in Workers, m \in Service!OnFile(lead)' :
            req'[v].pc \in {"renew_count", "renew_insert"} /\ lead'[m].renews = req'[v].contract
                => req'[v].contract \in disturbed'
      BY <1>0, <3>1, <3>2, <3>4, <3>5, <3>6 DEF RenewsAlone, Renewing
    <3>9. \A m \in Service!OnFile(lead)' :
            lead'[m].renews = None \/ lead'[m].renews \in disturbed' \/ lead'[m].raised
            \/ \E v \in Workers : req'[v].pc = "renew_note" /\ req'[v].contract = lead'[m].renews /\ req'[v].lead = m
      BY <1>0, <3>1, <3>2, <3>3, <3>4, <3>5 DEF RenewsAlone
    <3>10. \A m, i \in Service!OnFile(lead)' :
            m # i /\ lead'[m].renews = lead'[i].renews => lead'[m].renews = None \/ lead'[m].renews \in disturbed'
      BY <1>0, <3>1, <3>4, <3>5 DEF RenewsAlone
    <3> QED
      BY <3>7, <3>8, <3>9, <3>10 DEF RenewsAlone
  <2> QED
    BY <2>1, <2>2
<1>16. ASSUME NEW w \in Workers, NEW b \in Branches, NEW phone \in Phones PROVE ~Service!CaptureDraw(w, b, phone)
  <2>1. series[b] \in Nat
    BY DEF Service!TypeOK
  <2>2. ~(series[b] < 0)
    BY <2>1
  <2> QED
    BY <2>2 DEF Service!CaptureDraw
<1>17. ASSUME NEW w \in Workers PROVE ~Service!CaptureInsert(w)
  BY SMTT(40) DEF Service!CaptureInsert, Service!At, ServiceHeld, Renewing
<1> QED
  BY <1>4, <1>5, <1>7, <1>8, <1>9, <1>10, <1>11, <1>12, <1>13, <1>14, <1>15, <1>16, <1>17
     DEF Service!ContractsNext, Service!LeadStep, Service!ContractStep

LEMMA ServiceQueueKept ==
  ASSUME Service!TypeOK, Service!TypeOK', \A w \in Workers : ServiceHeld(w), ServiceGrow, Service!QueuedIsDated,
         Service!ContractsNext
  PROVE  Service!QueuedIsDated'
<1> USE DEF Service!QueuedIsDated, Service!Queue
<1>0. /\ Service!OnFile(lead) = {l \in ServedLeads : lead[l] # None}
      /\ Service!OnFile(lead)' = {l \in ServedLeads : lead'[l] # None}
      /\ reopened \subseteq reopened'
  BY DEF Service!TypeOK, Service!OnFile, ServiceGrow
<1>1. ASSUME NEW l \in ServedLeads, \A m \in ServedLeads \ {l} : lead'[m] = lead[m],
             lead'[l].stage \in Service!Terminal \/ lead'[l].dated \/ l \in reopened'
      PROVE  Service!QueuedIsDated'
  BY <1>0, <1>1
<1>2. ASSUME UNCHANGED lead PROVE Service!QueuedIsDated'
  BY <1>0, <1>2
<1>3. ASSUME NEW w \in Workers, Service!RenewInsert(w) PROVE Service!QueuedIsDated'
  <2>1. CASE Service!Taken(req[w].n)
    BY <1>2, <1>3, <2>1 DEF Service!RenewInsert
  <2>2. CASE ~Service!Taken(req[w].n)
    BY <1>1, <1>3, <2>2, RenewInsertEffect
  <2> QED
    BY <2>1, <2>2
<1>4. ASSUME NEW w \in Workers, NEW stage \in Service!Stages \cup {None}, NEW date \in {"set", "keep", "clear"},
             Service!PatchWrite(w, stage, date)
      PROVE  Service!QueuedIsDated'
  <2>1. PICK l \in Service!OnFile(lead), was \in [stage : Service!Stages, dated : BOOLEAN] :
          /\ req[w].pc = "patch" /\ l = req[w].lead /\ was = req[w].was
          /\ lead'[l].stage = IF stage = None THEN was.stage ELSE stage
          /\ lead'[l].dated = (stage \notin Service!Terminal /\ date # "clear" /\ (date = "set" \/ was.dated))
          /\ \A m \in ServedLeads \ {l} : lead'[m] = lead[m]
    BY <1>4, ServicePatchEffect
  <2>2. /\ was.stage = "OPEN" => was.dated \/ l \in reopened'
        /\ was.stage \in {"OPEN"} \cup Service!Terminal /\ was.dated \in BOOLEAN
        /\ stage \in {None, "OPEN"} \cup Service!Terminal /\ None \notin {"OPEN"} \cup Service!Terminal
    BY <1>0, <2>1, ServiceConstants DEF ServiceHeld, Service!Stages, Service!Terminal
  <2>3. /\ stage \notin Service!Terminal => date # "clear"
        /\ was.stage \in Service!Terminal /\ lead'[l].stage = "OPEN" => l \in reopened'
    BY <1>4, <2>1 DEF Service!PatchWrite, Service!Allowed
  <2>4. lead'[l].stage \in Service!Terminal \/ lead'[l].dated \/ l \in reopened'
    BY <2>1, <2>2, <2>3
  <2> QED
    BY <1>0, <1>1, <2>1, <2>4
<1>5. ASSUME NEW w \in Workers, Service!RenewNote(w) PROVE Service!QueuedIsDated'
  <2>1. PICK l \in Service!OnFile(lead) :
          /\ lead'[l].stage = lead[l].stage /\ lead'[l].dated = lead[l].dated
          /\ \A m \in ServedLeads \ {l} : lead'[m] = lead[m]
    BY <1>5, RenewNoteEffect
  <2>2. lead[l].stage \in Service!Terminal \/ lead[l].dated \/ l \in reopened
    BY <1>0, <2>1
  <2> QED
    BY <1>0, <1>1, <2>1, <2>2
<1>6. ASSUME NEW w \in Workers PROVE ~Service!CaptureInsert(w)
  BY DEF Service!CaptureInsert, Service!At, ServiceHeld, Renewing
<1> QED
  BY <1>2, <1>3, <1>4, <1>5, <1>6 DEF Service!ContractsNext, Service!LeadStep, Service!ContractStep,
     Service!CaptureDraw, Service!PatchRead, Service!ContractSite, Service!ContractCount, Service!ContractInsert,
     Service!SchedulesInsert, Service!RenewRead, Service!RenewCount, Service!Crash

\* All of it, of the desk that serves contracts.
Serving ==
    /\ Service!TypeOK
    /\ \A w \in Workers : ServiceHeld(w)
    /\ CustomersServed /\ RenewsAlone /\ Service!QueuedIsDated

LEMMA ServingStarts ==
  ASSUME Service!StartsWith(ServedCustomers)
  PROVE  Serving
<1>1. /\ lead = [l \in ServedLeads |-> None] /\ contract = [k \in Contracts |-> None]
      /\ customer = [c \in ServedCustomers |-> [from |-> None, site |-> TRUE, contacts |-> Phones]]
      /\ series = [b \in Branches |-> 0] /\ req = [w \in Workers |-> Service!Idle]
      /\ jobs = {} /\ refused = FALSE /\ reopened = {} /\ disturbed = {}
  BY DEF Service!StartsWith
<1>2. Service!OnFile(lead) = {} /\ Service!OnFile(contract) = {}
  BY <1>1 DEF Service!OnFile
<1>3. Service!Idle \in Service!Request /\ Service!Idle.pc = "idle"
  BY DEF Service!Idle, Service!Request
<1>4. [from |-> None, site |-> TRUE, contacts |-> Phones] \in Service!CustomerRow
  BY DEF Service!CustomerRow
<1>5. Service!TypeOK /\ CustomersServed
  BY <1>1, <1>3, <1>4 DEF Service!TypeOK, CustomersServed
<1>6. \A w \in Workers : ServiceHeld(w)
  BY <1>1, <1>3 DEF ServiceHeld, Renewing
<1>7. RenewsAlone /\ Service!QueuedIsDated
  BY <1>1, <1>2, <1>3 DEF RenewsAlone, Renewing, Service!QueuedIsDated, Service!Queue
<1> QED
  BY <1>5, <1>6, <1>7 DEF Serving

LEMMA ServingKept ==
  ASSUME Serving, Service!ContractsNext
  PROVE  Serving'
<1>1. Service!TypeOK' /\ ServiceGrow
  BY ServiceTypes DEF Serving
<1>2. \A w \in Workers : ServiceHeld(w)'
  BY <1>1, ServiceHeldKept DEF Serving
<1>3. CustomersServed'
  BY <1>1 DEF Serving, CustomersServed, ServiceGrow
<1>4. RenewsAlone' /\ Service!QueuedIsDated'
  BY <1>1, RenewsKept, ServiceQueueKept DEF Serving
<1> QED
  BY <1>1, <1>2, <1>3, <1>4 DEF Serving

\* Of one lead at most there is a set of one or none.
LEMMA ServingSuffices ==
  ASSUME Serving
  PROVE  Service!RenewedOnce /\ Service!QueuedIsDated
<1>1. ASSUME NEW k \in Service!OnFile(contract), k \notin disturbed
      PROVE  Service!Cardinality({l \in Service!OnFile(lead) : lead[l].renews = k}) <= 1
  <2> DEFINE S == {l \in Service!OnFile(lead) : lead[l].renews = k}
  <2>1. Service!Cardinality(S) = Cardinality(S)
    BY DEF Service!Cardinality, Cardinality
  <2>2. k # None
    BY <1>1, ServiceRows, ServiceConstants DEF Serving
  <2>3. \A l, m \in S : l = m
    BY <1>1, <2>2 DEF Serving, RenewsAlone
  <2>4. CASE S = {}
    BY <2>1, <2>4, FS_EmptySet
  <2>5. ASSUME NEW l \in S PROVE Service!Cardinality(S) <= 1
    <3>1. S = {l}
      BY <2>3, <2>5
    <3>2. Cardinality({l}) = 1
      BY FS_Singleton
    <3> HIDE DEF S
    <3> QED
      BY <2>1, <3>1, <3>2
  <2> QED
    BY <2>4, <2>5
<1> QED
  BY <1>1 DEF Service!RenewedOnce, Serving

ServiceDesk == desk = "service" => Serving

LEMMA ServiceDeskKept == Spec => []ServiceDesk
<1>1. Init => ServiceDesk
  BY ServingStarts DEF Init, ServiceDesk
<1>2. ServiceDesk /\ [Next]_vars => ServiceDesk'
  <2> SUFFICES ASSUME ServiceDesk, [Next]_vars, desk' = "service" PROVE Serving'
    BY DEF ServiceDesk
  <2>1. CASE UNCHANGED vars
    <3>1. UNCHANGED Service!vars /\ desk = "service" /\ Serving
      BY <2>1 DEF vars, pipelineVars, Service!vars, ServiceDesk
    <3>2. Service!TypeOK' /\ CustomersServed' /\ \A w \in Workers : ServiceHeld(w)'
      BY <3>1 DEF Serving, Service!vars, Service!TypeOK, CustomersServed, ServiceHeld, Service!OnFile
    <3>3. RenewsAlone' /\ Service!QueuedIsDated'
      BY <3>1 DEF Serving, Service!vars, RenewsAlone, Service!QueuedIsDated, Service!Queue, Service!OnFile
    <3> QED
      BY <3>2, <3>3 DEF Serving
  <2>2. CASE Next
    <3>1. desk = "service" /\ Service!ContractsNext
      BY <2>2 DEF Next, PlatformNext
    <3> QED
      BY <3>1, ServingKept DEF ServiceDesk
  <2> QED
    BY <2>1, <2>2
<1> QED
  BY <1>1, <1>2, PTL DEF Spec

\* A contract is worked as one renewal unless two requests raised it at once or one died on the
\* way, a caller is refused for a number only where two branches draw, and a lead on the queue
\* has a date unless it was put back there: for any number of requests, leads and contracts
\* (contracts.ts, leads.ts).
THEOREM NothingEverForgotten == Spec => []NothingForgotten
<1>1. SalesDesk /\ ServiceDesk => NothingForgotten
  <2> SUFFICES ASSUME SalesDesk, ServiceDesk PROVE NothingForgotten
    OBVIOUS
  <2>1. ASSUME desk = "service" PROVE Service!RenewedOnce /\ Sales!QueuedIsDated
    <3>1. Service!RenewedOnce /\ Service!QueuedIsDated
      BY <2>1, ServingSuffices DEF ServiceDesk
    <3>2. Sales!QueuedIsDated
      BY <3>1 DEF Sales!QueuedIsDated, Service!QueuedIsDated, Sales!Queue, Service!Queue,
                  Sales!OnFile, Service!OnFile, Sales!Terminal, Service!Terminal
    <3> QED
      BY <3>1, <3>2
  <2>2. ASSUME desk = "sales" PROVE Sales!SeriesSuffices /\ Sales!QueuedIsDated
    BY <2>2, SellingSuffices DEF SalesDesk
  <2> QED
    BY <2>1, <2>2 DEF NothingForgotten
<1> QED
  BY <1>1, SalesDeskKept, ServiceDeskKept, PTL
-----------------------------------------------------------------------------
(***************************************************************************)
(* The periods of a contract (BillingPeriods), and the types of all desks.  *)
(***************************************************************************)

\* The days on which the months of a year start.
LEMMA DaysOfYear ==
  /\ \A r \in 0..11 :
        /\ Periods!DaysBefore[r + 1] \in Nat
        /\ 28 * r <= Periods!DaysBefore[r + 1] /\ Periods!DaysBefore[r + 1] <= 31 * r
  /\ \A r \in 0..10 : Periods!DaysBefore[r + 1] + 28 <= Periods!DaysBefore[r + 2]
  /\ Periods!DaysBefore[1] = 0 /\ Periods!DaysBefore[12] = 334
<1> DEFINE D == Periods!DaysBefore
<1>1. /\ D[1] = 0 /\ D[2] = 31 /\ D[3] = 59 /\ D[4] = 90 /\ D[5] = 120 /\ D[6] = 151
      /\ D[7] = 181 /\ D[8] = 212 /\ D[9] = 243 /\ D[10] = 273 /\ D[11] = 304 /\ D[12] = 334
  BY DEF Periods!DaysBefore
<1> HIDE DEF D
<1>2. \A r \in 0..11 : D[r + 1] \in Nat /\ 28 * r <= D[r + 1] /\ D[r + 1] <= 31 * r
  <2> SUFFICES ASSUME NEW r \in 0..11 PROVE D[r + 1] \in Nat /\ 28 * r <= D[r + 1] /\ D[r + 1] <= 31 * r
    OBVIOUS
  <2>1. \/ r = 0 \/ r = 1 \/ r = 2 \/ r = 3 \/ r = 4 \/ r = 5
        \/ r = 6 \/ r = 7 \/ r = 8 \/ r = 9 \/ r = 10 \/ r = 11
    OBVIOUS
  <2> QED
    BY <1>1, <2>1
<1>3. \A r \in 0..10 : D[r + 1] + 28 <= D[r + 2]
  <2> SUFFICES ASSUME NEW r \in 0..10 PROVE D[r + 1] + 28 <= D[r + 2]
    OBVIOUS
  <2>1. \/ r = 0 \/ r = 1 \/ r = 2 \/ r = 3 \/ r = 4 \/ r = 5
        \/ r = 6 \/ r = 7 \/ r = 8 \/ r = 9 \/ r = 10
    OBVIOUS
  <2> QED
    BY <1>1, <2>1
<1> QED
  BY <1>1, <1>2, <1>3 DEF D

\* A month has 28 days and more, 31 at most.
LEMMA MonthStarts ==
  ASSUME NEW m \in Nat
  PROVE  /\ Periods!FirstOf(m) \in Nat /\ 28 * m <= Periods!FirstOf(m) /\ Periods!FirstOf(m) <= 31 * m
         /\ Periods!FirstOf(m) + 28 <= Periods!FirstOf(m + 1)
<1> DEFINE q == m \div 12
           r == m % 12
           D(x) == Periods!DaysBefore[x]
<1>1. q \in Nat /\ r \in 0..11 /\ m = 12 * q + r
  OBVIOUS
<1>2. Periods!FirstOf(m) = 365 * q + D(r + 1) + (IF m >= 26 THEN 1 ELSE 0)
  BY DEF Periods!FirstOf
<1>3. m >= 26 => q >= 2
  BY <1>1
<1>4. CASE r < 11
  <2>1. (m + 1) \div 12 = q /\ (m + 1) % 12 = r + 1
    BY <1>1, <1>4
  <2>2. Periods!FirstOf(m + 1) = 365 * q + D(r + 2) + (IF m + 1 >= 26 THEN 1 ELSE 0)
    BY <1>1, <2>1 DEF Periods!FirstOf
  <2>3. D(r + 1) \in Nat /\ D(r + 2) \in Nat /\ 28 * r <= D(r + 1) /\ D(r + 1) <= 31 * r /\ D(r + 1) + 28 <= D(r + 2)
    BY <1>1, <1>4, DaysOfYear
  <2> HIDE DEF q, r, D
  <2> QED
    BY <1>1, <1>2, <1>3, <2>2, <2>3
<1>5. CASE r = 11
  <2>1. (m + 1) \div 12 = q + 1 /\ (m + 1) % 12 = 0
    BY <1>1, <1>5
  <2>2. Periods!FirstOf(m + 1) = 365 * (q + 1) + D(1) + (IF m + 1 >= 26 THEN 1 ELSE 0)
    BY <2>1 DEF Periods!FirstOf
  <2>3. D(1) = 0 /\ D(r + 1) = 334
    BY <1>5, DaysOfYear
  <2> HIDE DEF q, r, D
  <2> QED
    BY <1>1, <1>2, <1>3, <1>5, <2>2, <2>3
<1> HIDE DEF q, r, D
<1> QED
  BY <1>1, <1>4, <1>5

LEMMA MonthsLater ==
  ASSUME NEW m \in Nat, NEW c \in {1, 3, 6, 12}
  PROVE  Periods!FirstOf(m + c) \in Nat /\ Periods!FirstOf(m) + 28 * c <= Periods!FirstOf(m + c)
<1> DEFINE F(x) == Periods!FirstOf(x)
<1>1. \A n \in Nat : F(n) \in Nat /\ F(n) + 28 <= F(n + 1)
  BY MonthStarts
<1> HIDE DEF F
<1>2. \A n \in Nat : F(n) + 84 <= F(n + 3)
  <2> SUFFICES ASSUME NEW n \in Nat PROVE F(n) + 84 <= F(n + 3)
    OBVIOUS
  <2>1. F(n) + 28 <= F(n + 1) /\ F(n + 1) + 28 <= F(n + 2) /\ F(n + 2) + 28 <= F(n + 3)
    <3>1. (n + 1) + 1 = n + 2 /\ (n + 2) + 1 = n + 3
      OBVIOUS
    <3> QED
      BY <1>1, <3>1
  <2> QED
    BY <1>1, <2>1
<1>3. \A n \in Nat : F(n) + 168 <= F(n + 6)
  <2> SUFFICES ASSUME NEW n \in Nat PROVE F(n) + 168 <= F(n + 6)
    OBVIOUS
  <2>1. F(n) + 84 <= F(n + 3) /\ F(n + 3) + 84 <= F((n + 3) + 3)
    BY <1>2
  <2>2. (n + 3) + 3 = n + 6
    OBVIOUS
  <2> QED
    BY <1>1, <2>1, <2>2
<1>4. \A n \in Nat : F(n) + 336 <= F(n + 12)
  <2> SUFFICES ASSUME NEW n \in Nat PROVE F(n) + 336 <= F(n + 12)
    OBVIOUS
  <2>1. F(n) + 168 <= F(n + 6) /\ F(n + 6) + 168 <= F((n + 6) + 6)
    BY <1>3
  <2>2. (n + 6) + 6 = n + 12
    OBVIOUS
  <2> QED
    BY <1>1, <2>1, <2>2
<1>5. F(m + c) \in Nat /\ F(m) + 28 * c <= F(m + c)
  <2>1. CASE c = 1
    BY <1>1, <2>1
  <2>2. CASE c = 3
    BY <1>1, <1>2, <2>2
  <2>3. CASE c = 6
    BY <1>1, <1>3, <2>3
  <2>4. CASE c = 12
    BY <1>1, <1>4, <2>4
  <2> QED
    BY <2>1, <2>2, <2>3, <2>4
<1> QED
  BY <1>5 DEF F

\* Every day is of a month.
LEMMA DayHasMonth ==
  ASSUME NEW d \in Nat
  PROVE  LET m == Periods!MonthOf(d) IN
         m \in Nat /\ Periods!FirstOf(m) <= d /\ d < Periods!FirstOf(m + 1)
<1> DEFINE F(x) == Periods!FirstOf(x)
           After == {n \in Nat : d < F(n)}
<1>1. \A n \in Nat : F(n) \in Nat /\ 28 * n <= F(n) /\ F(n) <= 31 * n
  BY MonthStarts
<1>2. \E m \in Nat : F(m) <= d /\ d < F(m + 1)
  <2> HIDE DEF F
  <2>1. d + 1 \in After
    BY <1>1
  <2>2. PICK n \in After : \A k \in After : n <= k
    BY <2>1, SmallestNumber
  <2>3. n # 0 /\ n \in Nat
    BY <1>1, <2>2
  <2>4. n - 1 \in Nat /\ n - 1 \notin After /\ (n - 1) + 1 = n
    BY <2>2, <2>3
  <2>5. F(n - 1) <= d /\ d < F((n - 1) + 1)
    BY <1>1, <2>2, <2>4
  <2> QED
    BY <2>4, <2>5
<1>3. PICK m \in Nat : F(m) <= d /\ d < F(m + 1)
  BY <1>2
<1>4. m \in (d \div 31)..(d \div 28)
  <2>1. 28 * m <= d /\ d < 31 * (m + 1)
    <3> HIDE DEF F
    <3>1. 28 * m <= F(m) /\ F(m + 1) <= 31 * (m + 1) /\ F(m) \in Nat /\ F(m + 1) \in Nat
      BY <1>1
    <3> QED
      BY <1>3, <3>1
  <2> QED
    BY <2>1
<1>5. \A n \in (d \div 31)..(d \div 28) : n \in Nat
  OBVIOUS
<1> QED
  BY <1>3, <1>4, <1>5 DEF Periods!MonthOf

LEMMA MonthsAdded ==
  ASSUME NEW d \in Nat, NEW c \in {1, 3, 6, 12}
  PROVE  Periods!AddMonths(d, c) \in Nat /\ d + 28 * c <= Periods!AddMonths(d, c)
<1> DEFINE m == Periods!MonthOf(d)
<1>1. m \in Nat /\ Periods!FirstOf(m) <= d
  BY DayHasMonth
<1>2. Periods!AddMonths(d, c) = Periods!FirstOf(m + c) + (d - Periods!FirstOf(m))
  BY DEF Periods!AddMonths
<1> HIDE DEF m
<1>3. Periods!FirstOf(m) \in Nat
  BY <1>1, MonthStarts
<1>4. Periods!FirstOf(m + c) \in Nat /\ Periods!FirstOf(m) + 28 * c <= Periods!FirstOf(m + c)
  BY <1>1, MonthsLater
<1> QED
  BY <1>1, <1>2, <1>3, <1>4

\* Where the periods start: the equations of the recursion hold, for each entry adds to the
\* ones before it.
LEMMA PeriodStarts ==
  ASSUME NEW start \in Nat, NEW c \in {1, 3, 6, 12}
  PROVE  LET from == Periods!StartOf(start, c) IN
         \A k \in 1..(14 \div c + 2) :
             from[k] = IF k = 1 THEN start ELSE Periods!AddMonths(from[k - 1], c)
<1> DEFINE N == 14 \div c + 2
           Fills(g, n) ==
               \A k \in 1..n : g[k] = IF k = 1 THEN start ELSE Periods!AddMonths(g[k - 1], c)
           Entry(g, n) == IF n = 1 THEN start ELSE Periods!AddMonths(g[n - 1], c)
           Bad == {n \in Nat : ~\E g : Fills(g, n)}
<1>1. N \in Nat
  OBVIOUS
<1>2. \E g : Fills(g, N)
  <2> HIDE DEF N
  <2> SUFFICES ASSUME Bad # {} PROVE FALSE
    BY <1>1
  <2>1. PICK n \in Bad : \A k \in Bad : n <= k
    <3> HIDE DEF Bad
    <3>1. Bad \in SUBSET Nat
      BY DEF Bad
    <3> QED
      BY <3>1, SmallestNumber
  <2>2. n \in Nat /\ n # 0
    OBVIOUS
  <2>3. n - 1 \in Nat /\ n - 1 \notin Bad
    <3> HIDE DEF Bad
    <3> QED
      BY <2>1, <2>2
  <2>4. PICK g : Fills(g, n - 1)
    BY <2>3
  <2> DEFINE h == [k \in 1..n |-> IF k = n THEN Entry(g, n) ELSE g[k]]
  <2>5. ASSUME NEW k \in 1..n PROVE h[k] = IF k = 1 THEN start ELSE Periods!AddMonths(h[k - 1], c)
    <3>1. CASE k = 1
      BY <2>2, <2>4, <3>1
    <3>2. CASE k # 1
      <4>1. k - 1 \in 1..n /\ k - 1 # n /\ h[k - 1] = g[k - 1]
        BY <2>2, <2>5, <3>2
      <4>2. CASE k = n
        BY <3>2, <4>1, <4>2
      <4>3. CASE k # n
        <5>1. k \in 1..(n - 1) /\ h[k] = g[k]
          BY <2>2, <2>5, <4>3
        <5>2. g[k] = Periods!AddMonths(g[k - 1], c)
          BY <2>4, <3>2, <5>1
        <5> QED
          BY <3>2, <4>1, <5>1, <5>2
      <4> QED
        BY <4>2, <4>3
    <3> QED
      BY <3>1, <3>2
  <2>6. Fills(h, n)
    BY <2>5
  <2> QED
    BY <2>1, <2>6
<1>3. PICK g : Fills(g, N)
  BY <1>2
<1> DEFINE Step(f) == [k \in 1..N |-> IF k = 1 THEN start ELSE Periods!AddMonths(f[k - 1], c)]
           f0 == [k \in 1..N |-> g[k]]
<1>4. f0 = Step(f0)
  <2>1. ASSUME NEW k \in 1..N PROVE f0[k] = IF k = 1 THEN start ELSE Periods!AddMonths(f0[k - 1], c)
    <3>1. k # 1 => k - 1 \in 1..N
      BY <1>1, <2>1
    <3> QED
      BY <1>3, <3>1
  <2> QED
    BY <2>1
<1>5. Periods!StartOf(start, c) = CHOOSE f : f = Step(f)
  BY DEF Periods!StartOf
<1>6. Periods!StartOf(start, c) = Step(Periods!StartOf(start, c))
  <2> HIDE DEF Step, f0
  <2> QED
    BY <1>4, <1>5
<1> QED
  BY <1>6

\* They start later and later, from the first day of the contract until it is over.
Follow(from, start, term, c) ==
    /\ from[1] = start
    /\ \A k \in 1..(14 \div c + 2) : from[k] \in Nat /\ start + 28 * c * (k - 1) <= from[k]
    /\ \A k \in 1..(14 \div c + 1) : from[k] + 28 <= from[k + 1]
    /\ from[14 \div c + 2] > start + term
    /\ \A k \in 1..(14 \div c + 2) : k > 14 => from[k] > start + term

LEMMA PeriodsFollow ==
  ASSUME NEW start \in Nat, NEW term \in 1..366, NEW c \in {1, 3, 6, 12}
  PROVE  Follow(Periods!StartOf(start, c), start, term, c)
<1> DEFINE N == 14 \div c + 2
           from == Periods!StartOf(start, c)
           Bad == {k \in 1..N : ~(from[k] \in Nat /\ start + 28 * c * (k - 1) <= from[k])}
<1>1. N \in Nat /\ N >= 2
  OBVIOUS
<1>2. from[1] = start /\ \A k \in 2..N : from[k] = Periods!AddMonths(from[k - 1], c)
  BY PeriodStarts, SMTT(40)
<1> HIDE DEF from, N
<1>3. \A k \in 1..N : from[k] \in Nat /\ start + 28 * c * (k - 1) <= from[k]
  <2> SUFFICES ASSUME Bad # {} PROVE FALSE
    OBVIOUS
  <2>1. PICK n \in Bad : \A k \in Bad : n <= k
    <3> HIDE DEF Bad
    <3>1. Bad \in SUBSET Nat
      BY <1>1 DEF Bad
    <3> QED
      BY <3>1, SmallestNumber
  <2>2. n # 1
    <3> SUFFICES ASSUME n = 1 PROVE FALSE
      OBVIOUS
    <3>1. 28 * c * (1 - 1) = 0
      OBVIOUS
    <3> QED
      BY <1>2, <2>1, <3>1
  <2>3. n \in 2..N /\ n - 1 \in 1..N /\ n - 1 \notin Bad
    BY <1>1, <2>1, <2>2
  <2>4. from[n - 1] \in Nat /\ start + 28 * c * ((n - 1) - 1) <= from[n - 1]
    BY <2>3
  <2>5. from[n] \in Nat /\ from[n - 1] + 28 * c <= from[n]
    BY <1>2, <2>3, <2>4, MonthsAdded, ZenonT(60)
  <2>6. 28 * c * (n - 1) = 28 * c * ((n - 1) - 1) + 28 * c
    BY <2>3
  <2> QED
    BY <2>1, <2>3, <2>4, <2>5, <2>6
<1>4. ASSUME NEW k \in 1..(N - 1) PROVE from[k] + 28 <= from[k + 1]
  <2>1. k \in 1..N /\ k + 1 \in 2..N /\ (k + 1) - 1 = k
    BY <1>1
  <2>2. from[k] \in Nat
    BY <1>3, <2>1
  <2>3. from[k + 1] \in Nat /\ from[k] + 28 * c <= from[k + 1]
    BY <1>2, <2>1, <2>2, MonthsAdded, ZenonT(60)
  <2> QED
    BY <2>2, <2>3
<1>5. ASSUME NEW k \in 1..N, 28 * c * (k - 1) > 366 PROVE from[k] > start + term
  BY <1>3, <1>5
<1>6. 28 * c * (N - 1) > 366
  BY DEF N
<1>7. \A k \in 1..N : k > 14 => 28 * c * (k - 1) > 366
  <2> SUFFICES ASSUME NEW k \in 1..N, k > 14 PROVE 28 * c * (k - 1) > 366
    OBVIOUS
  <2>1. k - 1 >= 14 /\ k \in Nat
    BY <1>1
  <2> QED
    BY <2>1
<1>8. N - 1 = 14 \div c + 1 /\ N \in 1..N
  BY <1>1 DEF N
<1> QED
  BY <1>2, <1>3, <1>4, <1>5, <1>6, <1>7, <1>8 DEF N, from, Follow

\* The periods are the days from the first to the last, each day in one of them.
Cover(periods, start, end) ==
    /\ \A p \in periods :
          /\ p.number \in 1..14 /\ p.start \in Nat /\ p.end \in Nat
          /\ p.start <= p.end /\ p.end <= end
          /\ p.start = start \/ \E q \in periods : q.end = p.start - 1
          /\ p.end = end \/ \E q \in periods : q.start = p.end + 1
    /\ \A d \in start..end : \E p \in periods : d \in p.start..p.end

LEMMA PeriodsCover ==
  ASSUME NEW start \in Nat, NEW term \in 1..366, NEW c \in {1, 3, 6, 12}
  PROVE  Cover(Periods!PeriodsOfContract(start, start + term, c), start, start + term)
<1> DEFINE K == 14 \div c + 1
           end == start + term
           from == Periods!StartOf(start, c)
           Period(k) == [number |-> k, start |-> from[k],
                         end |-> IF from[k + 1] - 1 > end THEN end ELSE from[k + 1] - 1]
           periods == Periods!PeriodsOfContract(start, end, c)
<1>1. K \in Nat /\ K >= 1 /\ end \in Nat /\ start <= end /\ K + 1 = 14 \div c + 2
  OBVIOUS
<1>2. periods = {Period(k) : k \in {j \in 1..K : from[j] <= end}}
  BY DEF Periods!PeriodsOfContract
<1>3. /\ from[1] = start
      /\ \A k \in 1..(K + 1) : from[k] \in Nat /\ start <= from[k]
      /\ \A k \in 1..K : from[k] + 28 <= from[k + 1]
      /\ from[K + 1] > end
      /\ \A k \in 1..(K + 1) : k > 14 => from[k] > end
  <2>1. \A k \in 1..(K + 1) : 0 <= 28 * c * (k - 1)
    <3> SUFFICES ASSUME NEW k \in 1..(K + 1) PROVE 0 <= 28 * c * (k - 1)
      OBVIOUS
    <3>1. k - 1 \in Nat
      BY <1>1
    <3> QED
      BY <3>1
  <2>2. Follow(from, start, term, c)
    BY PeriodsFollow
  <2> HIDE DEF from
  <2>3. \A k \in 1..(K + 1) : from[k] \in Nat /\ start + 28 * c * (k - 1) <= from[k]
    BY <1>1, <2>2 DEF Follow
  <2>4. \A k \in 1..(K + 1) : start <= from[k]
    <3> SUFFICES ASSUME NEW k \in 1..(K + 1) PROVE start <= from[k]
      OBVIOUS
    <3> DEFINE x == 28 * c * (k - 1)
    <3>1. 0 <= x /\ x \in Int /\ from[k] \in Nat /\ start + x <= from[k]
      BY <1>1, <2>1, <2>3
    <3> HIDE DEF x
    <3> QED
      BY <3>1
  <2> QED
    BY <1>1, <2>2, <2>3, <2>4 DEF Follow
<1> HIDE DEF K, end, from, periods
<1>4. ASSUME NEW k \in 1..K, from[k] <= end
      PROVE  /\ k \in 1..14 /\ Period(k) \in periods
             /\ from[k] \in Nat /\ from[k + 1] \in Nat /\ from[k] + 28 <= from[k + 1]
             /\ Period(k).number = k /\ Period(k).start = from[k]
             /\ Period(k).end = IF from[k + 1] - 1 > end THEN end ELSE from[k + 1] - 1
  <2>1. k \in 1..(K + 1) /\ k + 1 \in 1..(K + 1)
    BY <1>1
  <2>2. k \in 1..14
    <3> SUFFICES ASSUME k > 14 PROVE FALSE
      OBVIOUS
    <3>1. from[k] > end /\ from[k] \in Nat
      BY <1>3, <2>1
    <3> QED
      BY <1>1, <1>4, <3>1
  <2> QED
    BY <1>2, <1>3, <1>4, <2>1, <2>2
<1>5. ASSUME NEW p \in periods
      PROVE  /\ p.number \in 1..14 /\ p.start \in Nat /\ p.end \in Nat
             /\ p.start <= p.end /\ p.end <= end
             /\ p.start = start \/ \E q \in periods : q.end = p.start - 1
             /\ p.end = end \/ \E q \in periods : q.start = p.end + 1
  <2>1. PICK k \in 1..K : from[k] <= end /\ p = Period(k)
    BY <1>2
  <2> HIDE DEF Period
  <2>2. /\ k \in 1..14 /\ from[k] \in Nat /\ from[k + 1] \in Nat /\ from[k] + 28 <= from[k + 1]
        /\ p.number = k /\ p.start = from[k]
        /\ p.end = IF from[k + 1] - 1 > end THEN end ELSE from[k + 1] - 1
    BY <1>4, <2>1
  <2>3. p.start = start \/ \E q \in periods : q.end = p.start - 1
    <3>1. CASE k = 1
      BY <1>3, <2>2, <3>1
    <3>2. CASE k # 1
      <4>1. k - 1 \in 1..K /\ k - 1 \in 1..(K + 1) /\ (k - 1) + 1 = k
        BY <1>1, <3>2
      <4>2. from[k - 1] \in Nat /\ from[k - 1] + 28 <= from[k]
        BY <1>3, <4>1
      <4>3. from[k - 1] <= end
        BY <1>1, <2>1, <2>2, <4>2
      <4>4. /\ Period(k - 1) \in periods
            /\ Period(k - 1).end = IF from[k] - 1 > end THEN end ELSE from[k] - 1
        BY <1>4, <4>1, <4>3
      <4>5. Period(k - 1).end = p.start - 1
        BY <1>1, <2>1, <2>2, <4>4
      <4> QED
        BY <4>4, <4>5
    <3> QED
      BY <3>1, <3>2
  <2>4. p.end = end \/ \E q \in periods : q.start = p.end + 1
    <3>1. CASE from[k + 1] > end
      BY <1>1, <2>2, <3>1
    <3>2. CASE ~(from[k + 1] > end)
      <4>1. k + 1 # K + 1 /\ from[k + 1] <= end
        BY <1>1, <1>3, <2>2, <3>2
      <4>2. k + 1 \in 1..K
        BY <1>1, <4>1
      <4>3. Period(k + 1) \in periods /\ Period(k + 1).start = from[k + 1]
        BY <1>4, <4>1, <4>2
      <4>4. p.end + 1 = from[k + 1]
        BY <1>1, <2>2, <4>1
      <4> QED
        BY <4>3, <4>4
    <3> QED
      BY <3>1, <3>2
  <2> QED
    BY <1>1, <2>1, <2>2, <2>3, <2>4
<1>6. ASSUME NEW d \in start..end PROVE \E p \in periods : d \in p.start..p.end
  <2> DEFINE After == {k \in 1..(K + 1) : from[k] > d}
  <2>1. K + 1 \in After
    BY <1>1, <1>3
  <2>2. PICK n \in After : \A k \in After : n <= k
    <3>1. After \in SUBSET Nat
      BY <1>1
    <3> HIDE DEF After
    <3> QED
      BY <2>1, <3>1, SmallestNumber
  <2>3. n # 1 /\ n \in 1..(K + 1) /\ from[n] > d
    BY <1>3, <2>2
  <2>4. n - 1 \in 1..K /\ n - 1 \in 1..(K + 1) /\ n - 1 < n /\ (n - 1) + 1 = n
    BY <1>1, <2>3
  <2>5. n - 1 \notin After
    <3>1. ~(n <= n - 1)
      BY <2>3
    <3> HIDE DEF After
    <3> QED
      BY <2>2, <3>1
  <2>6. from[n - 1] \in Nat /\ from[n] \in Nat /\ from[n - 1] <= d
    BY <1>3, <2>3, <2>4, <2>5
  <2>7. from[n - 1] <= end
    BY <1>1, <2>6
  <2>8. /\ Period(n - 1) \in periods /\ Period(n - 1).start = from[n - 1]
        /\ Period(n - 1).end = IF from[n] - 1 > end THEN end ELSE from[n] - 1
    BY <1>4, <2>4, <2>7
  <2>9. d \in Period(n - 1).start..Period(n - 1).end
    BY <1>1, <2>3, <2>6, <2>8
  <2> QED
    BY <2>8, <2>9
<1> QED
  BY <1>5, <1>6 DEF end, periods, Cover

\* What the periods of a contract are is decided when it is signed.
Signing ==
    agreement # None =>
        \E start \in Starts, term \in Terms, cycle \in Cycles :
            agreement = Periods!Signed(start, term, cycle)

Billable == desk = "periods" => Periods!TypeOK /\ Signing

LEMMA PeriodConstants ==
  /\ Periods!LastDay \in Nat /\ Starts \subseteq 0..Periods!LastDay /\ Dates \subseteq 0..Periods!LastDay
  /\ \A start \in Starts, term \in Terms : start + term <= Periods!LastDay
  /\ Terms \subseteq 1..366 /\ Cycles \subseteq {0, 1, 3, 6, 12}
<1>1. Periods!BillingPeriodsConstants
  BY BackOfficeConstants
<1>2. 30 \in Nat /\ Periods!LastDay \in Nat
  BY MonthStarts DEF Periods!LastDay
<1> QED
  BY <1>1, <1>2 DEF Periods!BillingPeriodsConstants

LEMMA NoPeriodsPerVisit ==
  ASSUME NEW start, NEW end
  PROVE  Periods!PeriodsOfContract(start, end, 0) = {}
  BY DEF Periods!PeriodsOfContract

LEMMA BillableKept ==
  ASSUME Periods!TypeOK, Signing, Periods!Next
  PROVE  Periods!TypeOK' /\ Signing'
<1>0. /\ agreement # None =>
             /\ agreement.start \in Starts /\ agreement.cycle \in Cycles
             /\ \A p \in agreement.periods : p.number \in 1..14 /\ {p.start, p.end} \subseteq 0..Periods!LastDay
      /\ visit \in [Visits ->
              {None} \cup [date : Dates, status : {"CREATED", "WORK_DONE", "CANCELLED"}]]
      /\ invoice \subseteq [point : 1..14, period : {None} \cup 0..Periods!LastDay, cancelled : BOOLEAN]
      /\ now \in Dates \cup {0}
  BY DEF Periods!TypeOK
<1>1. ASSUME NEW start \in Starts, NEW term \in Terms, NEW cycle \in Cycles,
             Periods!Sign(start, term, cycle)
      PROVE  Periods!TypeOK' /\ Signing'
  <2>1. agreement' = Periods!Signed(start, term, cycle) /\ UNCHANGED <<visit, invoice, now>>
    BY <1>1 DEF Periods!Sign
  <2>2. /\ agreement'.start = start /\ agreement'.cycle = cycle
        /\ agreement'.periods = Periods!PeriodsOfContract(start, start + term, cycle)
    BY <2>1 DEF Periods!Signed
  <2>3. \A p \in agreement'.periods : p.number \in 1..14 /\ {p.start, p.end} \subseteq 0..Periods!LastDay
    <3>1. CASE cycle = 0
      BY <2>2, <3>1, NoPeriodsPerVisit
    <3>2. CASE cycle # 0
      <4>1. start \in Nat /\ term \in 1..366 /\ cycle \in {1, 3, 6, 12}
        BY <3>2, PeriodConstants
      <4>2. Cover(agreement'.periods, start, start + term)
        BY <2>2, <4>1, PeriodsCover, ZenonT(60)
      <4>3. start + term <= Periods!LastDay /\ Periods!LastDay \in Nat
        BY PeriodConstants
      <4> QED
        BY <4>1, <4>2, <4>3 DEF Cover
    <3> QED
      BY <3>1, <3>2
  <2>4. Periods!TypeOK'
    BY <1>0, <2>1, <2>2, <2>3 DEF Periods!TypeOK
  <2>5. Signing'
    BY <2>1 DEF Signing
  <2> QED
    BY <2>4, <2>5
<1>2. ASSUME UNCHANGED agreement PROVE Signing'
  BY <1>2 DEF Signing
<1>3. ASSUME NEW v \in Visits, NEW day \in Dates, Periods!Schedule(v, day)
      PROVE  Periods!TypeOK' /\ Signing'
  BY <1>0, <1>2, <1>3 DEF Periods!Schedule, Periods!TypeOK
<1>4. ASSUME NEW v \in Visits, NEW status \in {"WORK_DONE", "CANCELLED"}, Periods!Finish(v, status)
      PROVE  Periods!TypeOK' /\ Signing'
  <2>1. visit'[v] \in [date : Dates, status : {"CREATED", "WORK_DONE", "CANCELLED"}]
    BY <1>0, <1>4 DEF Periods!Finish
  <2>2. visit' = [visit EXCEPT ![v] = visit'[v]] /\ UNCHANGED <<agreement, invoice, now>>
    BY <1>0, <1>4 DEF Periods!Finish
  <2> QED
    BY <1>0, <1>2, <2>1, <2>2 DEF Periods!TypeOK
<1>5. ASSUME NEW p \in Periods!Due, NEW dated \in BOOLEAN, Periods!Bill(p, dated)
      PROVE  Periods!TypeOK' /\ Signing'
  <2>1. agreement # None /\ p \in agreement.periods
    BY <1>5 DEF Periods!Due
  <2>2. p.number \in 1..14 /\ p.start \in 0..Periods!LastDay
    BY <1>0, <2>1
  <2> DEFINE period == IF dated THEN p.start ELSE None
  <2>3. [point |-> p.number, period |-> period, cancelled |-> FALSE]
            \in [point : 1..14, period : {None} \cup 0..Periods!LastDay, cancelled : BOOLEAN]
    BY <2>2
  <2>4. /\ invoice' = invoice \cup {[point |-> p.number, period |-> period, cancelled |-> FALSE]}
        /\ UNCHANGED <<agreement, visit, now>>
    BY <1>5 DEF Periods!Bill
  <2> HIDE DEF period
  <2> QED
    BY <1>0, <1>2, <2>3, <2>4 DEF Periods!TypeOK
<1>6. ASSUME NEW b \in Periods!Live, Periods!Cancel(b) PROVE Periods!TypeOK' /\ Signing'
  BY <1>0, <1>2, <1>6 DEF Periods!Cancel, Periods!Live, Periods!TypeOK
<1>7. ASSUME NEW day \in Dates, Periods!Pass(day) PROVE Periods!TypeOK' /\ Signing'
  BY <1>0, <1>2, <1>7 DEF Periods!Pass, Periods!TypeOK
<1> QED
  BY <1>1, <1>3, <1>4, <1>5, <1>6, <1>7 DEF Periods!Next

LEMMA BillableSuffices ==
  ASSUME Periods!TypeOK, Signing
  PROVE  Periods!PeriodsAreBillable /\ Periods!WorkIsBillable
<1> SUFFICES ASSUME agreement # None, agreement.cycle # 0
             PROVE  Periods!PeriodsAreBillable /\ Periods!WorkIsBillable
  BY DEF Periods!PeriodsAreBillable, Periods!WorkIsBillable
<1>1. PICK start \in Starts, term \in Terms, cycle \in Cycles : agreement = Periods!Signed(start, term, cycle)
  BY DEF Signing
<1>2. /\ agreement.start = start /\ agreement.end = start + term /\ agreement.cycle = cycle
      /\ agreement.periods = Periods!PeriodsOfContract(start, start + term, cycle)
  BY <1>1 DEF Periods!Signed
<1>3. start \in Nat /\ term \in 1..366 /\ cycle \in {1, 3, 6, 12}
  BY <1>2, PeriodConstants
<1>4. Cover(agreement.periods, start, start + term)
  BY <1>2, <1>3, PeriodsCover
<1>5. \A p \in Periods!Due :
        Periods!Refused(p.number, p.start) => \E b \in invoice \ Periods!Live : b.point = p.number
  BY DEF Periods!Due, Periods!Refused, Periods!Billed, Periods!Live
<1>6. Periods!PeriodsAreBillable
  BY <1>2, <1>4, <1>5 DEF Periods!PeriodsAreBillable, Cover
<1>7. ASSUME NEW v \in Periods!Scheduled, Periods!Done(v), visit[v].date \in start..(start + term)
      PROVE  \E p \in agreement.periods :
                 /\ v \in Periods!Inside(p)
                 /\ \/ Periods!Billed(p) \/ p \in Periods!Due \/ p.start > now
                    \/ p.end >= now /\ \E u \in Periods!Inside(p) : ~Periods!Done(u)
  <2>1. PICK p \in agreement.periods : visit[v].date \in p.start..p.end
    BY <1>4, <1>7 DEF Cover
  <2>2. v \in Periods!Inside(p)
    BY <1>7, <2>1 DEF Periods!Inside, Periods!Done
  <2>3. ASSUME ~Periods!Billed(p), p \notin Periods!Due, ~(p.start > now)
        PROVE  p.end >= now /\ \E u \in Periods!Inside(p) : ~Periods!Done(u)
    <3>1. p.start \in Nat /\ p.end \in Nat /\ now \in Nat
      BY <1>4, <2>1, PeriodConstants DEF Periods!TypeOK, Cover
    <3>2. ~Periods!Earned(p)
      BY <2>1, <2>3, <3>1 DEF Periods!Due
    <3> QED
      BY <2>2, <3>1, <3>2 DEF Periods!Earned
  <2> QED
    BY <2>1, <2>2, <2>3
<1>8. Periods!WorkIsBillable
  BY <1>2, <1>7 DEF Periods!WorkIsBillable
<1> QED
  BY <1>6, <1>8

LEMMA PeriodDeskKept == Spec => []Billable
<1>1. Init => Billable
  <2> SUFFICES ASSUME Init, desk = "periods" PROVE Periods!TypeOK /\ Signing
    BY DEF Billable
  <2>1. Periods!Init
    BY DeskStarts
  <2> QED
    BY <2>1 DEF Periods!Init, Periods!TypeOK, Signing
<1>2. Billable /\ [Next]_vars => Billable'
  <2> SUFFICES ASSUME Billable, [Next]_vars, desk' = "periods" PROVE Periods!TypeOK' /\ Signing'
    BY DEF Billable
  <2>1. desk = "periods" /\ (Periods!Next \/ UNCHANGED Periods!vars)
    BY DeskSteps
  <2>2. Periods!TypeOK /\ Signing
    BY <2>1 DEF Billable
  <2>3. CASE Periods!Next
    BY <2>2, <2>3, BillableKept
  <2>4. CASE UNCHANGED Periods!vars
    BY <2>2, <2>4 DEF Periods!vars, Periods!TypeOK, Signing
  <2> QED
    BY <2>1, <2>3, <2>4
<1> QED
  BY <1>1, <1>2, PTL DEF Spec

\* The periods of a contract cover it day by day, one that is offered can be billed unless a bill
\* of it was cancelled, and work that was done is billed, offered or waiting: whatever day the
\* contract starts on, through short months and the leap year, for any number of visits and
\* bills (billing-periods.ts).
THEOREM PeriodsAlwaysBillable == Spec => []PeriodsAreBillable
<1>1. Billable => PeriodsAreBillable
  BY BillableSuffices DEF Billable, PeriodsAreBillable
<1> QED
  BY <1>1, PeriodDeskKept, PTL

\* Every desk keeps the types of its tables (BackOffice).
THEOREM DesksTypeCorrect == Spec => []TypeOK
<1>1. ControlPlane /\ Doors /\ SalesDesk /\ ServiceDesk /\ Purchasing /\ Stocking /\ Billable => TypeOK
  BY DEF ControlPlane, Doors, SalesDesk, Selling, ServiceDesk, Serving, Purchasing, Stocking,
         Billable, TypeOK
<1>2. Spec => [](ControlPlane /\ Doors /\ Purchasing)
  BY ControlPlaneStarts, ControlPlaneKept, DoorsStart, DoorsKept, PurchasingStarts,
     PurchasingKept, PTL DEF Spec
<1> QED
  BY <1>1, <1>2, SalesDeskKept, ServiceDeskKept, StockDeskKept, PeriodDeskKept, PTL
=============================================================================
