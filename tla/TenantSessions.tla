--------------------------- MODULE TenantSessions ---------------------------
(***************************************************************************)
(* Password sessions of the tenant service, for one person: sign-in,        *)
(* refresh and sign-out, while the password is replaced and the account is  *)
(* switched off and on.  One action is one SQL statement; the two plpgsql   *)
(* functions of 0423 hold the lock on the user's row and are one statement  *)
(* each, and so is the consumption of a refresh token.                      *)
(*                                                                         *)
(* Every statement names the user, the session or the token, so what one    *)
(* person does cannot be seen in another's rows.                            *)
(***************************************************************************)
EXTENDS Naturals, FiniteSets

CONSTANTS
    Workers,       \* requests served at the same time
    Sessions,      \* ids of rows of z_sessions
    Tokens,        \* rows of refresh_tokens, each with its row of z_session_refresh
    MaxPassword,   \* bound: how often the password is replaced
    None

ASSUME SessionConstants == MaxPassword \in Nat /\ None \notin Sessions

VARIABLES
    password,    \* users.password_hash: the how-manieth password it is of
    active,      \* users.active
    allowed,     \* accountAllowed: the company's lifecycle and subscription
    session,     \* table z_sessions, with the password each was opened with
    token,       \* table refresh_tokens: LIVE is neither revoked nor expired
    signedOut,   \* sessions whose sign-out has been answered
    req

vars == <<password, active, allowed, session, token, signedOut, req>>

Account == <<password, active, allowed>>
-----------------------------------------------------------------------------
SessionRow == [state : {"ABSENT", "LIVE", "REVOKED"}, password : Nat]
TokenRow == [state : {"ABSENT", "LIVE", "SPENT"}, session : Sessions \cup {None}]

Idle == [pc |-> "idle"]

Request ==
    {Idle}
    \cup [pc : {"sign_recheck", "sign_create"}, password : Nat]
    \cup [pc : {"refresh_user", "refresh_session", "issue"}, session : Sessions]
    \cup [pc : {"out_token"}, token : Tokens]
    \cup [pc : {"exit_revoke"}]

At(w, pc) == req[w].pc = pc

Goto(w, r) == req' = [req EXCEPT ![w] = r]

Finish(w) == Goto(w, Idle)

Init ==
    /\ password = 0
    /\ active = TRUE
    /\ allowed = TRUE
    /\ session = [s \in Sessions |-> [state |-> "ABSENT", password |-> 0]]
    /\ token = [t \in Tokens |-> [state |-> "ABSENT", session |-> None]]
    /\ signedOut = {}
    /\ req = [w \in Workers |-> Idle]

\* activeUser: the row of an active user of a company in good standing. Its two SELECTs
\* are one step here: nothing below depends on when the company was looked at.
ActiveUser == active /\ allowed
-----------------------------------------------------------------------------
(* passwordSignIn                                                           *)

\* passwordCandidates, and a verification that takes long enough to be overtaken.
SignInRead(w) ==
    /\ req[w] = Idle
    /\ active
    /\ Goto(w, [pc |-> "sign_recheck", password |-> password])
    /\ UNCHANGED <<Account, session, token, signedOut>>

SignInRecheck(w) ==
    /\ At(w, "sign_recheck")
    /\ IF ActiveUser /\ req[w].password = password
       THEN Goto(w, [pc |-> "sign_create", password |-> req[w].password])
       ELSE Finish(w)
    /\ UNCHANGED <<Account, session, token, signedOut>>

\* Mutant: the password verified is not compared again under the lock.
ProvenEarlier(r) == active

\* z_create_password_session_if_current: same password, same email, still active.
StillProven(r) == active /\ r.password = password

SignInCreate(w) ==
    /\ At(w, "sign_create")
    /\ IF StillProven(req[w])
       THEN \E s \in Sessions :
                /\ session[s].state = "ABSENT"
                /\ session' = [session EXCEPT ![s] =
                        [state |-> "LIVE", password |-> req[w].password]]
                /\ Goto(w, [pc |-> "issue", session |-> s])
       ELSE Finish(w) /\ UNCHANGED session
    /\ UNCHANGED <<Account, token, signedOut>>

\* Mutant: the token is saved and its link to the session is not.
NotLinked(r) == None

\* The row of z_session_refresh.
LinkOf(r) == r.session

\* saveRefresh: the token and its link to the session in one statement.
Issue(w) ==
    /\ At(w, "issue")
    /\ \E t \in Tokens :
        /\ token[t].state = "ABSENT"
        /\ token' = [token EXCEPT ![t] = [state |-> "LIVE", session |-> LinkOf(req[w])]]
    /\ Finish(w)
    /\ UNCHANGED <<Account, session, signedOut>>
-----------------------------------------------------------------------------
(* refreshSession                                                           *)

\* A token that is neither revoked nor expired, of a session that is not revoked.
Usable(t) ==
    /\ token[t].state = "LIVE"
    /\ session[token[t].session].state = "LIVE"

\* Mutant: whether the token was revoked is not part of the statement.
OfLiveSession(t) ==
    /\ token[t].state # "ABSENT"
    /\ session[token[t].session].state = "LIVE"

Consumable(t) == Usable(t)

\* One statement, both rows locked: of two that present the token one consumes it.
RefreshConsume(w) ==
    /\ req[w] = Idle
    /\ \E t \in Tokens :
        /\ Consumable(t)
        /\ token' = [token EXCEPT ![t].state = "SPENT"]
        /\ Goto(w, [pc |-> "refresh_user", session |-> token[t].session])
    /\ UNCHANGED <<Account, session, signedOut>>

RefreshUser(w) ==
    /\ At(w, "refresh_user")
    /\ IF ActiveUser
       THEN Goto(w, [pc |-> "refresh_session", session |-> req[w].session])
       ELSE Finish(w)
    /\ UNCHANGED <<Account, session, token, signedOut>>

RefreshSession(w) ==
    /\ At(w, "refresh_session")
    /\ IF session[req[w].session].state = "LIVE"
       THEN Goto(w, [pc |-> "issue", session |-> req[w].session])
       ELSE Finish(w)
    /\ UNCHANGED <<Account, session, token, signedOut>>
-----------------------------------------------------------------------------
(* signOut                                                                  *)

\* Mutant: a token that was rotated away ends nothing.
EndsIfLive(t, s) == token[t].state = "LIVE" /\ token[t].session = s

\* revokeSessionByRefresh: the session of the token, whatever became of the token.
Ends(t, s) == token[t].session = s

SignOutSession(w) ==
    /\ req[w] = Idle
    /\ \E t \in Tokens :
        /\ token[t].state # "ABSENT"
        /\ session' = [s \in Sessions |->
                IF Ends(t, s) THEN [session[s] EXCEPT !.state = "REVOKED"] ELSE session[s]]
        /\ Goto(w, [pc |-> "out_token", token |-> t])
    /\ UNCHANGED <<Account, token, signedOut>>

SignOutToken(w) ==
    /\ At(w, "out_token")
    /\ token' = [token EXCEPT ![req[w].token].state = "SPENT"]
    /\ signedOut' = signedOut \cup {token[req[w].token].session}
    /\ Finish(w)
    /\ UNCHANGED <<Account, session>>
-----------------------------------------------------------------------------
(* The account                                                              *)

Spent(t) == [token[t] EXCEPT !.state = IF @ = "LIVE" THEN "SPENT" ELSE @]

SessionAfterReplace(s) ==
    [session[s] EXCEPT !.state = IF @ = "LIVE" THEN "REVOKED" ELSE @]

\* z_replace_password_and_revoke: the password, the sessions and the tokens in one.
ReplacePassword ==
    /\ password < MaxPassword
    /\ active
    /\ password' = password + 1
    /\ session' = [s \in Sessions |-> SessionAfterReplace(s)]
    /\ token' = [t \in Tokens |-> Spent(t)]
    /\ UNCHANGED <<active, allowed, signedOut, req>>

\* POST /people/:id/active: off is two statements, and the second knows no sessions.
Deactivate(w) ==
    /\ req[w] = Idle
    /\ active' = FALSE
    /\ Goto(w, [pc |-> "exit_revoke"])
    /\ UNCHANGED <<password, allowed, session, token, signedOut>>

RevokeAllForUser(w) ==
    /\ At(w, "exit_revoke")
    /\ token' = [t \in Tokens |-> Spent(t)]
    /\ Finish(w)
    /\ UNCHANGED <<Account, session, signedOut>>

Activate ==
    /\ active' = TRUE
    /\ UNCHANGED <<password, allowed, session, token, signedOut, req>>

\* The company is suspended, or let in again.
LifecycleChange ==
    /\ allowed' = ~allowed
    /\ UNCHANGED <<password, active, session, token, signedOut, req>>

TokenExpires ==
    /\ \E t \in Tokens : token' = [token EXCEPT ![t] = Spent(t)]
    /\ UNCHANGED <<Account, session, signedOut, req>>

Crash(w) ==
    /\ req[w] # Idle
    /\ Finish(w)
    /\ UNCHANGED <<Account, session, token, signedOut>>

Step(w) ==
    \/ SignInRead(w) \/ SignInRecheck(w) \/ SignInCreate(w) \/ Issue(w)
    \/ RefreshConsume(w) \/ RefreshUser(w) \/ RefreshSession(w)
    \/ SignOutSession(w) \/ SignOutToken(w)
    \/ Deactivate(w) \/ RevokeAllForUser(w)

Next ==
    \/ \E w \in Workers : Step(w) \/ Crash(w)
    \/ ReplacePassword \/ Activate \/ LifecycleChange \/ TokenExpires

Spec == Init /\ [][Next]_vars
-----------------------------------------------------------------------------
TypeOK ==
    /\ password \in Nat
    /\ active \in BOOLEAN
    /\ allowed \in BOOLEAN
    /\ session \in [Sessions -> SessionRow]
    /\ token \in [Tokens -> TokenRow]
    /\ \A t \in Tokens : token[t].state # "ABSENT" => token[t].session \in Sessions
    /\ \A w \in Workers : At(w, "out_token") => token[req[w].token].state # "ABSENT"
    /\ signedOut \subseteq Sessions
    /\ req \in [Workers -> Request]

\* A session that can still be renewed was opened with the password the person has now,
\* although the password is verified long before the session is opened and the token is
\* saved after it.
UsableIsCurrent ==
    \A t \in Tokens : Usable(t) => session[token[t].session].password = password

Live(s) == {t \in Tokens : token[t].state = "LIVE" /\ token[t].session = s}

\* A session has one refresh token at a time: refreshing exchanges the token and never
\* copies it, however many requests present it at once.
OneTokenPerSession ==
    \A s \in Sessions : \A t, u \in Live(s) : t = u

\* Once a sign-out is answered the session cannot be renewed, also by a refresh that had
\* consumed its token before and saves the next one after.
SignedOutStaysOut == \A t \in Tokens : Usable(t) => token[t].session \notin signedOut
-----------------------------------------------------------------------------
(* What keeps the three true from one statement to the next.                *)

\* The requests that will save a token for session s.
Minting(s) ==
    {w \in Workers :
        /\ req[w].pc \in {"refresh_user", "refresh_session", "issue"}
        /\ req[w].session = s}

LiveIsCurrent ==
    \A s \in Sessions : session[s].state = "LIVE" => session[s].password = password

OneHolder ==
    \A s \in Sessions :
        /\ \A t, u \in Live(s) : t = u
        /\ \A v, w \in Minting(s) : v = w
        /\ Minting(s) # {} => Live(s) = {}
        /\ session[s].state = "ABSENT" => Minting(s) = {} /\ Live(s) = {}

LeavingIsRevoked ==
    /\ \A s \in signedOut : session[s].state = "REVOKED"
    /\ \A w \in Workers : At(w, "out_token") =>
        session[token[req[w].token].session].state = "REVOKED"

\* The right to renew a session is with one token or one request, a live session is of
\* the present password, and who signs out has revoked the session first: at every
\* statement of every request.
RenewalHeldOnce == LiveIsCurrent /\ OneHolder /\ LeavingIsRevoked
=============================================================================
