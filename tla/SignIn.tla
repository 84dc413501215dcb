------------------------------- MODULE SignIn -------------------------------
(***************************************************************************)
(* The doors of the operations app: one-time codes, passwords, refresh      *)
(* tokens that rotate, signing out, and choosing one's own password.  One   *)
(* action is one SQL statement with the checks made on its answer.          *)
(*                                                                         *)
(* A person is found by phone or email; both name one row of users, so the  *)
(* row stands for them.  issueFor reads the row again for the claims of the *)
(* access token; rows are never deleted and no claim decides anything here, *)
(* so it is the INSERT of the refresh token alone.  Neither rotated_from    *)
(* nor the sweep of tokens dead for a week is read by any handler.          *)
(***************************************************************************)
EXTENDS Naturals, FiniteSets

CONSTANTS
    Workers,       \* requests served at the same time
    Users,         \* rows of users of one firm
    Owner,         \* the owner the firm was provisioned with
    Visitors,      \* bound: the people who come to the doors (nobody sees another's rows there)
    Tokens,        \* rows of refresh_tokens
    MaxCode,       \* bound: how many codes are sent
    MaxAttempts,   \* MAX_ATTEMPTS: wrong guesses a code bears
    MaxPassword,   \* bound: how often a password is changed
    None

ASSUME SignInConstants ==
    /\ Owner \in Users /\ Visitors \subseteq Users
    /\ MaxCode \in Nat /\ MaxAttempts \in Nat \ {0} /\ MaxPassword \in Nat
    /\ None \notin Users \cup Tokens \cup Nat
    /\ Tokens \cap Nat = {}                    \* a token is not a code

Codes == 1..MaxCode

VARIABLES
    user,      \* table users: role, active, and which password it is
    code,      \* table otp_challenges
    token,     \* table refresh_tokens, with the password its session was opened under
    req,
    bought,    \* history: how many sessions each code or token was exchanged for, while
               \* no two requests held it
    shared,    \* history: codes and tokens two requests held at once
    settled,   \* history: the password after whose change sessions were last ended
    stray      \* history: people who were signing in while their sessions were ended

Tables == <<user, code, token>>
History == <<bought, shared, settled, stray>>
-----------------------------------------------------------------------------
Roles == {"owner", "technician"}

ASSUME NullIsNoRole == None \notin Roles

\* A role of None is no row.
UserRow == [role : Roles \cup {None}, active : BOOLEAN, password : Nat]
CodeRow == [state : {"ABSENT", "LIVE", "EXPIRED", "CONSUMED", "DELETED"}, user : Users \cup {None},
            attempts : Nat]
TokenRow == [state : {"ABSENT", "LIVE", "DEAD"}, user : Users \cup {None}, password : Nat]

Proofs == Codes \cup Tokens

Idle == [pc |-> "idle"]

DoorRequest ==
    [pc : {"otp_insert", "change_write", "change_revoke"}, user : Users]
    \cup [pc : {"code_count"}, user : Users, proof : Codes, attempts : Nat]
    \cup [pc : {"code_consume"}, user : Users, proof : Codes, password : Nat]
    \cup [pc : {"rotate_revoke"}, user : Users, proof : Tokens, password : Nat]
    \cup [pc : {"issue"}, user : Users, proof : Proofs \cup {None}, password : Nat]

At(w, pc) == req[w].pc = pc

Goto(w, r) == req' = [req EXCEPT ![w] = r]

Finish(w) == Goto(w, Idle)

Exists(u) == user[u].role # None

LiveTokens(u) == {t \in Tokens : token[t].state = "LIVE" /\ token[t].user = u}
-----------------------------------------------------------------------------
(* What the properties ask about the past.                                  *)

\* Requests that hold a code or a token they have read and not yet spent or counted.
Holds(w, p) == "proof" \in DOMAIN req[w] /\ req[w].proof = p

NoteHeld(w, p) ==
    IF \E v \in Workers \ {w} : Holds(v, p)
    THEN shared' = shared \cup {p} /\ bought' = [bought EXCEPT ![p] = 0]
    ELSE UNCHANGED <<shared, bought>>

\* People with a request at one of the doors, or with a code in their hands.
SigningIn(except) ==
    {req[w].user : w \in {v \in Workers \ {except} :
        req[v].pc \in {"otp_insert", "code_count", "code_consume", "rotate_revoke", "issue",
                        "change_write", "change_revoke"}}}
    \cup {code[k].user : k \in {c \in Codes : code[c].state = "LIVE"}}
-----------------------------------------------------------------------------
(* requestOtp                                                               *)

\* Mutant: a code goes to whoever is on file.
OnFile(u) == Exists(u)

MayBeSent(u) == Exists(u) /\ user[u].active

OtpRead(w, u) ==
    /\ req[w] = Idle
    /\ MayBeSent(u)
    /\ Goto(w, [pc |-> "otp_insert", user |-> u])
    /\ UNCHANGED <<Tables, History>>

\* The DELETE of expired codes, of whoever, and the INSERT.
OtpInsert(w) ==
    /\ At(w, "otp_insert")
    /\ \E k \in Codes :
        /\ \A c \in Codes : code[c].state = "ABSENT" <=> c >= k
        /\ code' = [c \in Codes |->
            IF c = k THEN [state |-> "LIVE", user |-> req[w].user, attempts |-> 0]
            ELSE IF code[c].state = "EXPIRED" THEN [code[c] EXCEPT !.state = "DELETED"]
            ELSE code[c]]
    /\ Finish(w)
    /\ UNCHANGED <<user, token, History>>
-----------------------------------------------------------------------------
(* verifyOtp                                                                *)

\* Mutant: a code that was spent is found again.
EverSent(u) == {k \in Codes : code[k].user = u /\ code[k].state # "DELETED"}

Unconsumed(u) == {k \in Codes : code[k].user = u /\ code[k].state \in {"LIVE", "EXPIRED"}}

\* The latest code that is not consumed; no older one is tried in its place.
Challenge(u) == {k \in Unconsumed(u) : \A c \in Unconsumed(u) : c <= k}

\* The right code is spent next, a wrong one is counted from the attempts that were read.
VerifyRead(w, u) ==
    /\ req[w] = Idle
    /\ \E k \in Challenge(u) :
        /\ code[k].state # "EXPIRED"
        /\ code[k].attempts < MaxAttempts
        /\ \/ Goto(w, [pc |-> "code_consume", user |-> u, proof |-> k,
                       password |-> user[u].password])
           \/ Goto(w, [pc |-> "code_count", user |-> u, proof |-> k,
                       attempts |-> code[k].attempts])
        /\ NoteHeld(w, k)
    /\ UNCHANGED <<Tables, settled, stray>>

CodeCount(w) ==
    /\ At(w, "code_count")
    /\ code' = [code EXCEPT ![req[w].proof].attempts = req[w].attempts + 1]
    /\ Finish(w)
    /\ UNCHANGED <<user, token, History>>

CodeConsume(w) ==
    /\ At(w, "code_consume")
    /\ code' = [code EXCEPT ![req[w].proof].state = "CONSUMED"]
    /\ Goto(w, [req[w] EXCEPT !.pc = "issue"])
    /\ UNCHANGED <<user, token, History>>
-----------------------------------------------------------------------------
(* signInWithPassword, issueFor                                             *)

PasswordRead(w, u) ==
    /\ req[w] = Idle
    /\ Exists(u) /\ user[u].active
    /\ Goto(w, [pc |-> "issue", user |-> u, proof |-> None, password |-> user[u].password])
    /\ UNCHANGED <<Tables, History>>

Issue(w) ==
    /\ At(w, "issue")
    /\ \E t \in Tokens :
        /\ token[t].state = "ABSENT"
        /\ token' = [token EXCEPT ![t] =
                [state |-> "LIVE", user |-> req[w].user, password |-> req[w].password]]
    /\ bought' = IF req[w].proof \in Proofs \ shared
                 THEN [bought EXCEPT ![req[w].proof] = @ + 1] ELSE bought
    /\ Finish(w)
    /\ UNCHANGED <<user, code, shared, settled, stray>>
-----------------------------------------------------------------------------
(* rotateRefresh, revokeRefreshToken                                        *)

Renewable(t) == token[t].state = "LIVE"

RotateRead(w, t) ==
    /\ req[w] = Idle
    /\ Renewable(t)
    /\ Goto(w, [pc |-> "rotate_revoke", user |-> token[t].user, proof |-> t,
                password |-> token[t].password])
    /\ NoteHeld(w, t)
    /\ UNCHANGED <<Tables, settled, stray>>

\* By id: whether it was revoked meanwhile is not looked at, and neither is the person.
RotateRevoke(w) ==
    /\ At(w, "rotate_revoke")
    /\ token' = [token EXCEPT ![req[w].proof].state = "DEAD"]
    /\ Goto(w, [req[w] EXCEPT !.pc = "issue"])
    /\ UNCHANGED <<user, code, History>>

\* One statement.
SignOut(t) ==
    /\ token[t].state = "LIVE"
    /\ token' = [token EXCEPT ![t].state = "DEAD"]
    /\ UNCHANGED <<user, code, req, History>>
-----------------------------------------------------------------------------
(* changeOwnPassword                                                        *)

\* Mutant: the sessions are left alone.
NotEnded(u) == token

\* revokeAllForUser
Ended(u) == [t \in Tokens |->
    IF t \in LiveTokens(u) THEN [token[t] EXCEPT !.state = "DEAD"] ELSE token[t]]

EndSessions(w, u) ==
    /\ token' = Ended(u)
    /\ stray' = IF u \in SigningIn(w) THEN stray \cup {u} ELSE stray

ChangeRead(w, u) ==
    /\ req[w] = Idle
    /\ Exists(u) /\ user[u].active
    /\ user[u].password < MaxPassword
    /\ Goto(w, [pc |-> "change_write", user |-> u])
    /\ UNCHANGED <<Tables, History>>

ChangeWrite(w) ==
    /\ At(w, "change_write")
    /\ user[req[w].user].password < MaxPassword
    /\ user' = [user EXCEPT ![req[w].user].password = @ + 1]
    /\ Goto(w, [pc |-> "change_revoke", user |-> req[w].user])
    /\ UNCHANGED <<code, token, History>>

ChangeRevoke(w) ==
    LET u == req[w].user IN
    /\ At(w, "change_revoke")
    /\ EndSessions(w, u)
    /\ settled' = [settled EXCEPT ![u] = user[u].password]
    /\ Goto(w, [pc |-> "issue", user |-> u, proof |-> None, password |-> user[u].password])
    /\ UNCHANGED <<user, code, bought, shared>>
-----------------------------------------------------------------------------
(* Time: five minutes for a code, thirty days for a token.                  *)

CodeExpires(k) ==
    /\ code[k].state = "LIVE"
    /\ code' = [code EXCEPT ![k].state = "EXPIRED"]
    /\ UNCHANGED <<user, token, req, History>>

TokenExpires(t) ==
    /\ token[t].state = "LIVE"
    /\ token' = [token EXCEPT ![t].state = "DEAD"]
    /\ UNCHANGED <<user, code, req, History>>

DoorsInit ==
    /\ user = [u \in Users |->
        [role |-> IF u = Owner THEN "owner" ELSE None, active |-> u = Owner, password |-> 0]]
    /\ code = [k \in Codes |-> [state |-> "ABSENT", user |-> None, attempts |-> 0]]
    /\ token = [t \in Tokens |-> [state |-> "ABSENT", user |-> None, password |-> 0]]
    /\ req = [w \in Workers |-> Idle]
    /\ bought = [p \in Proofs |-> 0]
    /\ shared = {}
    /\ settled = [u \in Users |-> 0]
    /\ stray = {}

DoorsNext ==
    \/ \E w \in Workers :
        \/ OtpInsert(w) \/ CodeCount(w) \/ CodeConsume(w) \/ Issue(w)
        \/ RotateRevoke(w) \/ ChangeWrite(w) \/ ChangeRevoke(w)
        \/ \E u \in Visitors :
            OtpRead(w, u) \/ VerifyRead(w, u) \/ PasswordRead(w, u) \/ ChangeRead(w, u)
        \/ \E t \in Tokens : RotateRead(w, t)
    \/ \E k \in Codes : CodeExpires(k)
    \/ \E t \in Tokens : SignOut(t) \/ TokenExpires(t)
=============================================================================
