----------------------------- MODULE RateLimit -----------------------------
(***************************************************************************)
(* The budgets in front of the four public doors.  An attempt spends a hit  *)
(* of its account's budget and one of its address's, is judged if neither   *)
(* refuses, and what it spent is given back if it was no failure: the       *)
(* account's row is deleted, the address's loses the one hit.  Each key is  *)
(* a row with a fixed window, and each of the three functions of 0006 and   *)
(* 0012 is one statement.  The keys of two doors differ, so the module is   *)
(* of one door, and of one address that many accounts share.                *)
(***************************************************************************)
EXTENDS Integers, FiniteSets

CONSTANTS
    Attempts,     \* requests served at the same time
    Accounts,     \* the people behind the address
    Door,         \* "password", "verify", "request" or "refresh"
    MaxAccount, MaxAddress,   \* LIMITS: hits per window
    Window,       \* LIMITS: windowSeconds
    MaxTime,      \* bound: the clock
    MaxHits,      \* bound: how often a budget is spent in one window
    Address       \* the key of the address

RateLimitConstants ==
    /\ Door \in {"password", "verify", "request", "refresh"}
    /\ {MaxAccount, MaxAddress, Window} \subseteq Nat \ {0} /\ {MaxTime, MaxHits} \subseteq Nat
    /\ Address \notin Accounts

Keys == Accounts \cup {Address}

VARIABLES
    now,
    limit,    \* table rate_limits: a start of 0 is no row
    req,
    failed,   \* history: attempts of the address's present window that were judged and failed
    lost,     \* history: attempts of it that crashed or were refused
    late      \* history: hits of it given back that were spent in an earlier one

vars == <<now, limit, req, failed, lost, late>>

History == <<failed, lost, late>>

NoRow == [start |-> 0, hits |-> 0]

Idle == [pc |-> "idle"]

\* A request carries the keys it has still to spend or to give back, whether one refused,
\* and the window in which it spent its hit of the address.
Request ==
    {Idle} \cup
    [pc : {"spend", "judge", "forgive"}, account : Accounts, left : SUBSET Keys,
     refused : BOOLEAN, window : Nat]

At(w, pc) == req[w].pc = pc

Goto(w, r) == req' = [req EXCEPT ![w] = r]

Finish(w) == Goto(w, Idle)
-----------------------------------------------------------------------------
(* consume_rate_limit, clear_rate_limit, refund_rate_limit                  *)

Max(k) == IF k = Address THEN MaxAddress ELSE MaxAccount

\* Mutant: a window that is over goes on.
NeverOver(k) == limit[k] = NoRow

Over(k) == limit[k] = NoRow \/ limit[k].start + Window <= now

\* The UPSERT: a new window if there was none or it is over, else one more hit.
Hit(k) == IF Over(k) THEN [start |-> now, hits |-> 1] ELSE [limit[k] EXCEPT !.hits = @ + 1]

\* Mutant: the address is cleared as the account is.
Cleared(k) == NoRow

\* Mutant: a refund may take a row below nothing.
Unfloored(k) == IF k = Address THEN [limit[k] EXCEPT !.hits = @ - 1] ELSE NoRow

\* A success clears the account's row and gives the address one hit back.
Forgiven(k) ==
    IF k = Address THEN [limit[k] EXCEPT !.hits = IF @ > 0 THEN @ - 1 ELSE 0] ELSE NoRow
-----------------------------------------------------------------------------
\* What a door spends: /refresh knows no account, it has the address alone.
Spent(a) == IF Door = "refresh" THEN {Address} ELSE {a, Address}

\* What a success gives back: every request for a code is a message, and counts.
GivenBack(a) == IF Door = "request" THEN {} ELSE Spent(a)

Arrive(w, a) ==
    /\ req[w] = Idle
    /\ Goto(w, [pc |-> "spend", account |-> a, left |-> Spent(a), refused |-> FALSE,
                window |-> 0])
    /\ UNCHANGED <<now, limit, History>>

\* consumeAll: all keys are spent, in parallel, even when one refuses.
Spend(w, k) ==
    LET r == req[w]
        row == Hit(k)
        refused == r.refused \/ row.hits > Max(k)
        left == r.left \ {k}
        window == IF k = Address THEN row.start ELSE r.window
        opens == k = Address /\ Over(k)
        ends == left = {} /\ refused
    IN
    /\ At(w, "spend") /\ k \in r.left
    /\ row.hits <= MaxHits
    /\ limit' = [limit EXCEPT ![k] = row]
    /\ IF ends THEN Finish(w)
       ELSE Goto(w, [r EXCEPT !.pc = IF left = {} THEN "judge" ELSE "spend",
                     !.left = left, !.refused = refused, !.window = window])
    /\ failed' = IF opens THEN 0 ELSE failed
    /\ late' = IF opens THEN 0 ELSE late
    /\ lost' = (IF opens THEN 0 ELSE lost)
                 + (IF ends /\ (opens \/ window = limit[Address].start) THEN 1 ELSE 0)
    /\ UNCHANGED now

InWindow(w) == req[w].window = limit[Address].start

Judge(w) ==
    /\ At(w, "judge")
    /\ \/ /\ Finish(w)
          /\ failed' = IF InWindow(w) THEN failed + 1 ELSE failed
       \/ /\ IF GivenBack(req[w].account) = {} THEN Finish(w)
             ELSE Goto(w, [req[w] EXCEPT !.pc = "forgive", !.left = GivenBack(req[w].account)])
          /\ UNCHANGED failed
    /\ UNCHANGED <<now, limit, lost, late>>

GiveBack(w, k) ==
    LET left == req[w].left \ {k} IN
    /\ At(w, "forgive") /\ k \in req[w].left
    /\ limit' = [limit EXCEPT ![k] = Forgiven(k)]
    /\ IF left = {} THEN Finish(w) ELSE Goto(w, [req[w] EXCEPT !.left = left])
    /\ late' = IF k = Address /\ ~InWindow(w) THEN late + 1 ELSE late
    /\ UNCHANGED <<now, failed, lost>>

\* A request that holds a hit of the address's present window.
HoldsHit(w) ==
    /\ req[w] # Idle
    /\ InWindow(w)
    /\ \/ At(w, "spend") /\ Address \notin req[w].left
       \/ At(w, "judge")
       \/ At(w, "forgive") /\ Address \in req[w].left

Crash(w) ==
    /\ req[w] # Idle
    /\ Finish(w)
    /\ lost' = IF HoldsHit(w) THEN lost + 1 ELSE lost
    /\ UNCHANGED <<now, limit, failed, late>>

Tick ==
    /\ now < MaxTime
    /\ now' = now + 1
    /\ UNCHANGED <<limit, req, History>>

Init ==
    /\ now = 1
    /\ limit = [k \in Keys |-> NoRow]
    /\ req = [w \in Attempts |-> Idle]
    /\ failed = 0 /\ lost = 0 /\ late = 0

Next ==
    \/ \E w \in Attempts :
        \/ \E a \in Accounts : Arrive(w, a)
        \/ \E k \in Keys : Spend(w, k) \/ GiveBack(w, k)
        \/ Judge(w) \/ Crash(w)
    \/ Tick

Spec == Init /\ [][Next]_vars
-----------------------------------------------------------------------------
TypeOK ==
    /\ now \in Nat
    /\ limit \in [Keys -> [start : Nat, hits : Nat]]
    /\ req \in [Attempts -> Request]
    /\ failed \in Nat /\ lost \in Nat /\ late \in Nat

\* The address's budget is its failures: at any moment its hits are the failures of the window,
\* the hits requests under way hold, and at most those of requests that crashed or were refused.
\* A success costs nothing and gives no failure back, except that a hit given back after its
\* window closed is taken from the next one (consume_rate_limit, refund_rate_limit).
BudgetIsFailures ==
    Door \in {"password", "verify", "refresh"} =>
        LET held == Cardinality({w \in Attempts : HoldsHit(w)}) IN
        /\ limit[Address].hits + late >= failed + held
        /\ limit[Address].hits <= failed + held + lost
=============================================================================
