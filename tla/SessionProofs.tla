---------------------------- MODULE SessionProofs ----------------------------
(* Theorems about TenantSessions, for any number of requests, sessions and     *)
(* tokens, and however often the password is replaced.                         *)
EXTENDS TenantSessions, TLAPS

\* What a request still holds, by the statement it executes next.
LEMMA RequestFields ==
  ASSUME TypeOK, NEW w \in Workers
  PROVE  /\ At(w, "sign_recheck") \/ At(w, "sign_create") => req[w].password \in Nat
         /\ At(w, "refresh_user") \/ At(w, "refresh_session") \/ At(w, "issue") =>
                req[w].session \in Sessions
         /\ At(w, "out_token") => req[w].token \in Tokens
<1>1. req[w] \in Request
  BY DEF TypeOK
<1> QED
  BY <1>1 DEF At, Request, Idle

\* To spend a token changes nothing else of its row.
LEMMA SpentTypes ==
  ASSUME TypeOK, NEW t \in Tokens
  PROVE  /\ Spent(t) \in TokenRow
         /\ Spent(t).session = token[t].session
         /\ Spent(t).state = "ABSENT" <=> token[t].state = "ABSENT"
         /\ Spent(t).state # "LIVE"
  BY DEF TypeOK, Spent, TokenRow

\* Every statement keeps the types.
LEMMA StepTypes ==
  ASSUME TypeOK, NEW w \in Workers, Step(w)
  PROVE  TypeOK'
<1> USE DEF TypeOK, At, Goto, Finish, Request, Idle, Account
<1>1. CASE SignInRead(w)
  BY <1>1 DEF SignInRead
<1>2. CASE SignInRecheck(w)
  BY <1>2, RequestFields DEF SignInRecheck
<1>3. CASE SignInCreate(w)
  <2>1. req[w].password \in Nat
    BY <1>3, RequestFields DEF SignInCreate
  <2>2. session' \in [Sessions -> SessionRow] /\ req' \in [Workers -> Request]
    BY <1>3, <2>1 DEF SignInCreate, SessionRow
  <2>3. \A v \in Workers : req'[v].pc = "out_token" => req'[v] = req[v]
    BY <1>3, <2>1 DEF SignInCreate
  <2> QED
    BY <1>3, <2>2, <2>3 DEF SignInCreate
<1>4. CASE Issue(w)
  BY <1>4, RequestFields DEF Issue, TokenRow, LinkOf
<1>5. CASE RefreshConsume(w)
  BY <1>5 DEF RefreshConsume, Consumable, Usable, TokenRow
<1>6. CASE RefreshUser(w)
  BY <1>6, RequestFields DEF RefreshUser
<1>7. CASE RefreshSession(w)
  BY <1>7, RequestFields DEF RefreshSession
<1>8. CASE SignOutSession(w)
  BY <1>8 DEF SignOutSession, Ends, SessionRow
<1>9. CASE SignOutToken(w)
  BY <1>9, RequestFields DEF SignOutToken, TokenRow
<1>10. CASE Deactivate(w)
  BY <1>10 DEF Deactivate
<1>11. CASE RevokeAllForUser(w)
  <2>1. req' \in [Workers -> Request] /\ token' \in [Tokens -> TokenRow]
    BY <1>11, SpentTypes DEF RevokeAllForUser
  <2>2. \A v \in Workers : req'[v].pc = "out_token" => req'[v] = req[v] /\ req[v].token \in Tokens
    BY <1>11, RequestFields DEF RevokeAllForUser
  <2> QED
    BY <1>11, SpentTypes, <2>1, <2>2 DEF RevokeAllForUser
<1> QED
  BY <1>1, <1>2, <1>3, <1>4, <1>5, <1>6, <1>7, <1>8, <1>9, <1>10, <1>11 DEF Step

\* Every row and every request of the tenant service's sessions keeps its type.
THEOREM TypeCorrect == Spec => []TypeOK
<1> USE DEF At
<1>1. Init => TypeOK
  BY SessionConstants DEF Init, TypeOK, SessionRow, TokenRow, Request, Idle
<1>2. TypeOK /\ [Next]_vars => TypeOK'
  <2> SUFFICES ASSUME TypeOK, [Next]_vars PROVE TypeOK'
    OBVIOUS
  <2>1. ASSUME NEW w \in Workers, Step(w) PROVE TypeOK'
    BY <2>1, StepTypes
  <2>2. ASSUME NEW w \in Workers, Crash(w) PROVE TypeOK'
    <3>1. req' \in [Workers -> Request]
      BY <2>2 DEF Crash, TypeOK, Finish, Goto, Request
    <3>2. \A v \in Workers : req'[v].pc = "out_token" => req'[v] = req[v]
      BY <2>2 DEF Crash, TypeOK, Finish, Goto, Idle
    <3> QED
      BY <2>2, <3>1, <3>2 DEF Crash, TypeOK, Account
  <2>3. CASE ReplacePassword
    <3>1. token' \in [Tokens -> TokenRow] /\ session' \in [Sessions -> SessionRow]
      BY <2>3, SpentTypes DEF ReplacePassword, TypeOK, SessionAfterReplace, SessionRow
    <3>2. \A w \in Workers : At(w, "out_token") => req[w].token \in Tokens
      BY RequestFields
    <3> QED
      BY <2>3, SpentTypes, <3>1, <3>2 DEF ReplacePassword, TypeOK
  <2>4. CASE Activate
    BY <2>4 DEF Activate, TypeOK
  <2>5. CASE LifecycleChange
    BY <2>5 DEF LifecycleChange, TypeOK
  <2>6. CASE TokenExpires
    BY <2>6 DEF TokenExpires, TypeOK, Account, Spent, TokenRow
  <2>7. CASE UNCHANGED vars
    BY <2>7 DEF vars, TypeOK
  <2> QED
    BY <2>1, <2>2, <2>3, <2>4, <2>5, <2>6, <2>7 DEF Next
<1> QED
  BY <1>1, <1>2, PTL DEF Spec

\* Who holds the right to renew a session changes with the requests that mint for it and
\* with the live tokens of it: what a step leaves of both.
LEMMA Keeps ==
  ASSUME OneHolder,
         \A s \in Sessions : Minting(s)' \subseteq Minting(s) /\ Live(s)' \subseteq Live(s),
         \A s \in Sessions : session'[s].state = "ABSENT" => session[s].state = "ABSENT"
  PROVE  OneHolder'
  BY DEF OneHolder

\* A session that is revoked stays so, and a token never changes its session.
LEMMA Leaving ==
  ASSUME TypeOK, LeavingIsRevoked, signedOut' = signedOut,
         \A s \in Sessions : session[s].state = "REVOKED" => session'[s].state = "REVOKED",
         \A t \in Tokens : token[t].state # "ABSENT" => token'[t].session = token[t].session,
         \A w \in Workers : At(w, "out_token")' => At(w, "out_token") /\ req'[w] = req[w]
  PROVE  LeavingIsRevoked'
<1>1. ASSUME NEW w \in Workers, At(w, "out_token")'
      PROVE  session'[token'[req'[w].token].session].state = "REVOKED"
  BY <1>1, RequestFields DEF LeavingIsRevoked, TypeOK
<1> QED
  BY <1>1 DEF LeavingIsRevoked, TypeOK

\* A live session is of the present password: only the function that replaces it moves
\* the password, and it leaves no session live.
LEMMA CurrentKept ==
  ASSUME TypeOK, LiveIsCurrent, [Next]_vars
  PROVE  LiveIsCurrent'
<1> USE DEF LiveIsCurrent
<1>1. ASSUME NEW w \in Workers, SignInCreate(w) PROVE LiveIsCurrent'
  <2>1. password' = password
    BY <1>1 DEF SignInCreate, Account
  <2>2. CASE StillProven(req[w])
    <3>1. PICK n \in Sessions :
              session' = [session EXCEPT ![n] = [state |-> "LIVE", password |-> password]]
      BY <1>1, <2>2 DEF SignInCreate, StillProven
    <3> QED
      BY <2>1, <3>1 DEF TypeOK
  <2>3. CASE ~StillProven(req[w])
    BY <1>1, <2>1, <2>3 DEF SignInCreate
  <2> QED
    BY <2>2, <2>3
<1>2. ASSUME NEW w \in Workers, SignOutSession(w) PROVE LiveIsCurrent'
  BY <1>2 DEF SignOutSession, TypeOK, SessionRow, Account
<1>3. CASE ReplacePassword
  BY <1>3 DEF ReplacePassword, SessionAfterReplace, TypeOK, SessionRow
<1>4. CASE UNCHANGED <<password, session>>
  BY <1>4
<1>5. ASSUME NEW w \in Workers, Step(w) \/ Crash(w), ~SignInCreate(w), ~SignOutSession(w)
      PROVE  UNCHANGED <<password, session>>
  BY <1>5 DEF Step, Crash, SignInRead, SignInRecheck, Issue, RefreshConsume, RefreshUser,
     RefreshSession, SignOutToken, Deactivate, RevokeAllForUser, Account
<1> QED
  BY <1>1, <1>2, <1>3, <1>4, <1>5 DEF Next, Activate, LifecycleChange, TokenExpires, Account, vars

\* Opening a session makes its first minter.
LEMMA HolderCreated ==
  ASSUME TypeOK, OneHolder, NEW w \in Workers, SignInCreate(w)
  PROVE  OneHolder'
<1>1. CASE ~StillProven(req[w])
  BY <1>1, Keeps DEF SignInCreate, Finish, Goto, Idle, Minting, Live, TypeOK, At
<1>2. CASE StillProven(req[w])
  <2>1. PICK n \in Sessions :
            /\ session[n].state = "ABSENT"
            /\ session' = [session EXCEPT ![n] = [state |-> "LIVE", password |-> req[w].password]]
            /\ req' = [req EXCEPT ![w] = [pc |-> "issue", session |-> n]]
    BY <1>2 DEF SignInCreate, Goto
  <2>2. Minting(n)' = {w} /\ Live(n)' = {}
    BY <1>2, <2>1 DEF SignInCreate, OneHolder, Minting, Live, TypeOK
  <2>3. \A s \in Sessions \ {n} : Minting(s)' = Minting(s) \ {w} /\ Live(s)' = Live(s)
    BY <1>2, <2>1 DEF SignInCreate, Minting, Live, TypeOK
  <2>4. session'[n].state = "LIVE" /\ \A s \in Sessions \ {n} : session'[s] = session[s]
    BY <2>1 DEF TypeOK
  <2> QED
    BY <2>2, <2>3, <2>4 DEF OneHolder
<1> QED
  BY <1>1, <1>2

\* Saving a token hands the right over from the request to the token.
LEMMA HolderIssued ==
  ASSUME TypeOK, OneHolder, NEW w \in Workers, Issue(w)
  PROVE  OneHolder'
<1>1. PICK n \in Sessions : n = req[w].session /\ w \in Minting(n)
  BY RequestFields DEF Issue, Minting, At
<1>2. PICK t \in Tokens :
          /\ token[t].state = "ABSENT"
          /\ token' = [token EXCEPT ![t] = [state |-> "LIVE", session |-> n]]
  BY <1>1 DEF Issue, LinkOf
<1>3. req' = [req EXCEPT ![w] = Idle] /\ session' = session
  BY DEF Issue, Finish, Goto
<1>4. Minting(n)' = {} /\ Live(n)' = {t}
  <2>1. Minting(n) = {w} /\ Live(n) = {}
    BY <1>1 DEF OneHolder
  <2>2. Minting(n)' = Minting(n) \ {w}
    BY <1>3 DEF Minting, TypeOK, Idle
  <2>3. Live(n)' = Live(n) \cup {t}
    BY <1>2 DEF Live, TypeOK
  <2> QED
    BY <2>1, <2>2, <2>3
<1>5. \A s \in Sessions \ {n} : Minting(s)' = Minting(s) /\ Live(s)' = Live(s)
  BY <1>1, <1>2, <1>3 DEF Minting, Live, TypeOK, Idle
<1>6. session[n].state # "ABSENT"
  BY <1>1 DEF OneHolder
<1>7. ASSUME NEW s \in Sessions \ {n}, NEW x, NEW y
      PROVE  /\ x \in Live(s)' /\ y \in Live(s)' => x = y
             /\ x \in Minting(s)' /\ y \in Minting(s)' => x = y
             /\ Minting(s)' # {} => Live(s)' = {}
             /\ session'[s].state = "ABSENT" => Minting(s)' = {} /\ Live(s)' = {}
  BY <1>3, <1>5, <1>7 DEF OneHolder
<1> QED
  BY <1>3, <1>4, <1>6, <1>7 DEF OneHolder

\* Consuming a token hands it back.
LEMMA HolderConsumed ==
  ASSUME TypeOK, OneHolder, NEW w \in Workers, RefreshConsume(w)
  PROVE  OneHolder'
<1>1. PICK t \in Tokens :
          /\ Usable(t)
          /\ token' = [token EXCEPT ![t].state = "SPENT"]
          /\ req' = [req EXCEPT ![w] = [pc |-> "refresh_user", session |-> token[t].session]]
  BY DEF RefreshConsume, Consumable, Goto
<1>2. PICK n \in Sessions :
          n = token[t].session /\ t \in Live(n) /\ session[n].state = "LIVE"
  BY <1>1 DEF Usable, TypeOK, Live
<1>3. req[w] = Idle /\ session' = session
  BY DEF RefreshConsume
<1>4. Minting(n)' = {w} /\ Live(n)' = {}
  BY <1>1, <1>2, <1>3 DEF OneHolder, Minting, Live, TypeOK
<1>5. \A s \in Sessions \ {n} : Minting(s)' = Minting(s) /\ Live(s)' = Live(s)
  BY <1>1, <1>2, <1>3 DEF Minting, Live, TypeOK, Idle
<1>6. ASSUME NEW s \in Sessions \ {n}, NEW x, NEW y
      PROVE  /\ x \in Live(s)' /\ y \in Live(s)' => x = y
             /\ x \in Minting(s)' /\ y \in Minting(s)' => x = y
             /\ Minting(s)' # {} => Live(s)' = {}
             /\ session'[s].state = "ABSENT" => Minting(s)' = {} /\ Live(s)' = {}
  BY <1>3, <1>5, <1>6 DEF OneHolder
<1> QED
  BY <1>2, <1>3, <1>4, <1>6 DEF OneHolder

\* The right to renew a session is with one token or one request.
LEMMA HolderKept ==
  ASSUME TypeOK, OneHolder, [Next]_vars
  PROVE  OneHolder'
<1>1. ASSUME NEW w \in Workers, Step(w) PROVE OneHolder'
  <2> USE DEF Minting, Live, Goto, Finish, Idle, At, Account
  <2>1. CASE SignInRead(w)
    BY <2>1, Keeps DEF SignInRead, TypeOK
  <2>2. CASE SignInRecheck(w)
    BY <2>2, Keeps DEF SignInRecheck, TypeOK
  <2>3. CASE SignInCreate(w)
    BY <2>3, HolderCreated
  <2>4. CASE Issue(w)
    BY <2>4, HolderIssued
  <2>5. CASE RefreshConsume(w)
    BY <2>5, HolderConsumed
  <2>6. CASE RefreshUser(w)
    BY <2>6, Keeps DEF RefreshUser, TypeOK
  <2>7. CASE RefreshSession(w)
    BY <2>7, Keeps DEF RefreshSession, TypeOK
  <2>8. CASE SignOutSession(w)
    BY <2>8, Keeps DEF SignOutSession, TypeOK, SessionRow
  <2>9. CASE SignOutToken(w)
    BY <2>9, Keeps DEF SignOutToken, TypeOK, TokenRow
  <2>10. CASE Deactivate(w)
    BY <2>10, Keeps DEF Deactivate, TypeOK
  <2>11. CASE RevokeAllForUser(w)
    BY <2>11, SpentTypes, Keeps DEF RevokeAllForUser, TypeOK
  <2> QED
    BY <1>1, <2>1, <2>2, <2>3, <2>4, <2>5, <2>6, <2>7, <2>8, <2>9, <2>10, <2>11 DEF Step
<1>2. ASSUME NEW w \in Workers, Crash(w) PROVE OneHolder'
  BY <1>2, Keeps DEF Crash, TypeOK, Minting, Live, Goto, Finish, Idle, Account
<1>3. CASE ReplacePassword
  BY <1>3, SpentTypes, Keeps DEF ReplacePassword, SessionAfterReplace, TypeOK, SessionRow, Minting, Live
<1>4. CASE TokenExpires
  BY <1>4, SpentTypes, Keeps DEF TokenExpires, TypeOK, Minting, Live, Account
<1>5. CASE Activate \/ LifecycleChange \/ UNCHANGED vars
  BY <1>5, Keeps DEF Activate, LifecycleChange, vars, Minting, Live
<1> QED
  BY <1>1, <1>2, <1>3, <1>4, <1>5 DEF Next

\* Who signs out has revoked the session by then, and nothing revives it.
LEMMA LeavingKept ==
  ASSUME TypeOK, LeavingIsRevoked, [Next]_vars
  PROVE  LeavingIsRevoked'
<1>1. ASSUME NEW w \in Workers, Step(w) PROVE LeavingIsRevoked'
  <2> USE DEF Goto, Finish, Idle, At, Account
  <2>1. CASE SignInRead(w)
    BY <2>1, Leaving DEF SignInRead, TypeOK
  <2>2. CASE SignInRecheck(w)
    BY <2>2, Leaving DEF SignInRecheck, TypeOK
  <2>3. CASE SignInCreate(w)
    BY <2>3, Leaving DEF SignInCreate, TypeOK
  <2>4. CASE Issue(w)
    BY <2>4, Leaving DEF Issue, TypeOK
  <2>5. CASE RefreshConsume(w)
    BY <2>5, Leaving DEF RefreshConsume, TypeOK
  <2>6. CASE RefreshUser(w)
    BY <2>6, Leaving DEF RefreshUser, TypeOK
  <2>7. CASE RefreshSession(w)
    BY <2>7, Leaving DEF RefreshSession, TypeOK
  <2>8. CASE SignOutSession(w)
    <3>1. PICK t \in Tokens :
              /\ token[t].state # "ABSENT"
              /\ session' = [s \in Sessions |->
                    IF Ends(t, s) THEN [session[s] EXCEPT !.state = "REVOKED"] ELSE session[s]]
              /\ req' = [req EXCEPT ![w] = [pc |-> "out_token", token |-> t]]
      BY <2>8 DEF SignOutSession
    <3>2. token' = token /\ signedOut' = signedOut
      BY <2>8 DEF SignOutSession
    <3>3. session'[token[t].session].state = "REVOKED"
      BY <3>1 DEF Ends, TypeOK, SessionRow
    <3>4. \A s \in Sessions : session[s].state = "REVOKED" => session'[s].state = "REVOKED"
      BY <3>1 DEF TypeOK, SessionRow
    <3>5. ASSUME NEW v \in Workers, req'[v].pc = "out_token"
          PROVE  session'[token'[req'[v].token].session].state = "REVOKED"
      <4>1. CASE v = w
        BY <3>1, <3>2, <3>3, <4>1 DEF TypeOK
      <4>2. CASE v # w
        <5>1. req'[v] = req[v] /\ req[v].token \in Tokens /\ token[req[v].token].state # "ABSENT"
          BY <3>1, <3>5, <4>2, RequestFields DEF TypeOK
        <5> QED
          BY <3>2, <3>4, <3>5, <5>1 DEF LeavingIsRevoked, TypeOK
      <4> QED
        BY <4>1, <4>2
    <3> QED
      BY <3>2, <3>4, <3>5 DEF LeavingIsRevoked, TypeOK
  <2>9. CASE SignOutToken(w)
    <3> DEFINE t == req[w].token
    <3>1. t \in Tokens /\ token[t].state # "ABSENT" /\ session[token[t].session].state = "REVOKED"
      BY <2>9, RequestFields DEF SignOutToken, TypeOK, LeavingIsRevoked
    <3>2. \A s \in signedOut' : session'[s].state = "REVOKED"
      BY <2>9, <3>1 DEF SignOutToken, LeavingIsRevoked
    <3>3. ASSUME NEW v \in Workers, req'[v].pc = "out_token"
          PROVE  session'[token'[req'[v].token].session].state = "REVOKED"
      <4>1. req'[v] = req[v] /\ req[v].token \in Tokens
        BY <2>9, <3>3, RequestFields DEF SignOutToken, TypeOK
      <4>2. token'[req[v].token].session = token[req[v].token].session
        BY <2>9, <4>1 DEF SignOutToken, TypeOK, TokenRow
      <4> QED
        BY <2>9, <3>3, <4>1, <4>2 DEF SignOutToken, LeavingIsRevoked
    <3> QED
      BY <3>2, <3>3 DEF LeavingIsRevoked
  <2>10. CASE Deactivate(w)
    BY <2>10, Leaving DEF Deactivate, TypeOK
  <2>11. CASE RevokeAllForUser(w)
    BY <2>11, SpentTypes, Leaving DEF RevokeAllForUser, TypeOK
  <2> QED
    BY <1>1, <2>1, <2>2, <2>3, <2>4, <2>5, <2>6, <2>7, <2>8, <2>9, <2>10, <2>11 DEF Step
<1>2. ASSUME NEW w \in Workers, Crash(w) PROVE LeavingIsRevoked'
  BY <1>2, Leaving DEF Crash, TypeOK, Goto, Finish, Idle, Account, At
<1>3. CASE ReplacePassword
  BY <1>3, SpentTypes, Leaving DEF ReplacePassword, SessionAfterReplace, TypeOK, SessionRow, At
<1>4. CASE TokenExpires
  BY <1>4, SpentTypes, Leaving DEF TokenExpires, TypeOK, Account, At
<1>5. CASE Activate \/ LifecycleChange \/ UNCHANGED vars
  BY <1>5, Leaving DEF Activate, LifecycleChange, vars, At
<1> QED
  BY <1>1, <1>2, <1>3, <1>4, <1>5 DEF Next

\* At every statement of every request the right to renew a session is held once.
THEOREM RenewalAlwaysHeldOnce == Spec => []RenewalHeldOnce
<1>1. Init => RenewalHeldOnce
  BY DEF Init, RenewalHeldOnce, LiveIsCurrent, OneHolder, LeavingIsRevoked, Minting, Live, At, Idle
<1>2. TypeOK /\ RenewalHeldOnce /\ [Next]_vars => RenewalHeldOnce'
  BY CurrentKept, HolderKept, LeavingKept DEF RenewalHeldOnce
<1> QED
  BY <1>1, <1>2, TypeCorrect, PTL DEF Spec

\* Nothing can be renewed with a password that was replaced, though it is verified long
\* before the session is opened.
THEOREM AlwaysOfPresentPassword == Spec => []UsableIsCurrent
<1>1. TypeOK /\ RenewalHeldOnce => UsableIsCurrent
  BY DEF TypeOK, RenewalHeldOnce, LiveIsCurrent, UsableIsCurrent, Usable
<1> QED
  BY <1>1, TypeCorrect, RenewalAlwaysHeldOnce, PTL

\* Requests that present one refresh token at once never turn it into two.
THEOREM AlwaysOneToken == Spec => []OneTokenPerSession
<1>1. RenewalHeldOnce => OneTokenPerSession
  BY DEF RenewalHeldOnce, OneHolder, OneTokenPerSession
<1> QED
  BY <1>1, RenewalAlwaysHeldOnce, PTL

\* A session whose sign-out was answered cannot be renewed, whatever was in flight.
THEOREM SignedOutForGood == Spec => []SignedOutStaysOut
<1>1. RenewalHeldOnce => SignedOutStaysOut
  BY DEF RenewalHeldOnce, LeavingIsRevoked, SignedOutStaysOut, Usable
<1> QED
  BY <1>1, RenewalAlwaysHeldOnce, PTL
==============================================================================
