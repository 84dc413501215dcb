--------------------------- MODULE AccountsProofs ---------------------------
(* Theorems about Accounts and the doors of SignIn, for every set of requests, *)
(* people, codes and tokens.                                                  *)
EXTENDS Accounts, TLAPS

-----------------------------------------------------------------------------
(***************************************************************************)
(* Types.                                                                   *)
(***************************************************************************)

\* Whatever is live is somebody's; what a request works on is on file, and so is whoever
\* ended their sessions or was switched off.
OnFileOnly ==
    /\ \A t \in Tokens : token[t].state = "LIVE" => token[t].user \in Users
    /\ \A w \in Workers :
        req[w].pc \in {"change_write", "change_revoke", "edit_count", "edit_write",
                       "switch_count", "switch_write", "switch_revoke"} => Exists(req[w].user)
    /\ \A u \in Users : ~Exists(u) => settled[u] = 0 /\ u \notin withdrawn

Typed == TypeOK /\ OnFileOnly

\* A request, by the statement it executes next.
LEMMA RequestFields ==
  ASSUME TypeOK, NEW w \in Workers
  PROVE  LET r == req[w] IN
    /\ At(w, "otp_insert") \/ At(w, "change_write") \/ At(w, "change_revoke") =>
         r \in [pc : {"otp_insert", "change_write", "change_revoke"}, user : Users]
    /\ At(w, "code_count") => r \in [pc : {"code_count"}, user : Users, proof : Codes, attempts : Nat]
    /\ At(w, "code_consume") => r \in [pc : {"code_consume"}, user : Users, proof : Codes, password : Nat]
    /\ At(w, "rotate_revoke") => r \in [pc : {"rotate_revoke"}, user : Users, proof : Tokens, password : Nat]
    /\ At(w, "issue") => r \in [pc : {"issue"}, user : Users, proof : Proofs \cup {None}, password : Nat]
    /\ At(w, "edit_count") \/ At(w, "edit_write") =>
         r \in [pc : {"edit_count", "edit_write"}, user : Users, role : Roles]
    /\ At(w, "switch_count") \/ At(w, "switch_write") \/ At(w, "switch_revoke") =>
         r \in [pc : {"switch_count", "switch_write", "switch_revoke"}, user : Users, active : BOOLEAN]
<1> req[w] \in Request
  BY DEF TypeOK
<1> QED
  BY DEF At, Request, DoorRequest, TeamRequest, Idle

\* A worker that goes to a request of the right shape leaves all of them well shaped.
LEMMA Moves ==
  ASSUME TypeOK, NEW w \in Workers, NEW r \in Request, Goto(w, r)
  PROVE  /\ req' \in [Workers -> Request] /\ req'[w] = r
         /\ \A v \in Workers \ {w} : req'[v] = req[v]
  BY DEF TypeOK, Goto

\* Only live and expired codes are tried, and only live ones are found good.
LEMMA ChallengeTypes ==
  ASSUME TypeOK, NEW u \in Users, NEW k \in Challenge(u), code[k].state # "EXPIRED"
  PROVE  k \in Codes /\ k \in Proofs /\ code[k].state = "LIVE" /\ code[k].user = u
         /\ code[k].attempts \in Nat
  BY DEF Challenge, Unconsumed, TypeOK, CodeRow, Proofs

\* A code or token two requests hold is noted.
LEMMA NoteTypes ==
  ASSUME TypeOK, NEW w \in Workers, NEW p \in Proofs, NoteHeld(w, p)
  PROVE  bought' \in [Proofs -> Nat] /\ shared' \subseteq Proofs
  BY DEF TypeOK, NoteHeld

\* Ending a person's sessions leaves dead rows.
LEMMA EndedTypes ==
  ASSUME TypeOK, NEW u \in Users
  PROVE  /\ Ended(u) \in [Tokens -> TokenRow]
         /\ \A t \in Tokens :
              /\ Ended(u)[t].user = token[t].user /\ Ended(u)[t].password = token[t].password
              /\ Ended(u)[t].state = IF t \in LiveTokens(u) THEN "DEAD" ELSE token[t].state
  BY DEF TypeOK, Ended, TokenRow

\* What was proven is exchanged next, for the same person.
LEMMA IssueNext ==
  ASSUME NEW r \in [pc : {"code_consume"}, user : Users, proof : Codes, password : Nat]
                   \cup [pc : {"rotate_revoke"}, user : Users, proof : Tokens, password : Nat]
  PROVE  /\ [r EXCEPT !.pc = "issue"] =
              [pc |-> "issue", user |-> r.user, proof |-> r.proof, password |-> r.password]
         /\ [pc |-> "issue", user |-> r.user, proof |-> r.proof, password |-> r.password] \in Request
<1>1. r = [pc |-> r.pc, user |-> r.user, proof |-> r.proof, password |-> r.password]
  OBVIOUS
<1>2. r.user \in Users /\ r.proof \in Proofs \cup {None} /\ r.password \in Nat
  BY DEF Proofs
<1> QED
  BY <1>1, <1>2 DEF Request, DoorRequest

\* Every statement of the doors keeps the types.
LEMMA DoorTypes ==
  ASSUME Typed, DoorsNext, UNCHANGED withdrawn
  PROVE  Typed'
<1> USE DEF Typed
<1>0. /\ user \in [Users -> UserRow] /\ code \in [Codes -> CodeRow] /\ token \in [Tokens -> TokenRow]
      /\ req \in [Workers -> Request] /\ bought \in [Proofs -> Nat] /\ shared \subseteq Proofs
      /\ settled \in [Users -> Nat] /\ stray \subseteq Users /\ withdrawn \subseteq Users
      /\ Visitors \subseteq Users /\ Idle \in Request
  BY SignInConstants DEF TypeOK, Request
<1>1. ASSUME NEW w \in Workers, OtpInsert(w) PROVE Typed'
  <2>1. req[w].user \in Users
    BY <1>1, RequestFields DEF OtpInsert
  <2>2. code' \in [Codes -> CodeRow]
    BY <1>0, <1>1, <2>1 DEF OtpInsert, CodeRow
  <2> QED
    BY <1>0, <1>1, <2>2, Moves DEF OtpInsert, Finish, TypeOK, OnFileOnly, History, Exists, Idle
<1>2. ASSUME NEW w \in Workers, CodeCount(w) PROVE Typed'
  <2>1. req[w].proof \in Codes /\ req[w].attempts \in Nat
    BY <1>2, RequestFields DEF CodeCount
  <2>2. code' \in [Codes -> CodeRow]
    BY <1>0, <1>2, <2>1 DEF CodeCount, CodeRow
  <2> QED
    BY <1>0, <1>2, <2>2, Moves DEF CodeCount, Finish, TypeOK, OnFileOnly, History, Exists, Idle
<1>3. ASSUME NEW w \in Workers, CodeConsume(w) PROVE Typed'
  <2>1. req[w] \in [pc : {"code_consume"}, user : Users, proof : Codes, password : Nat]
    BY <1>3, RequestFields DEF CodeConsume
  <2>2. code' \in [Codes -> CodeRow]
    BY <1>0, <1>3, <2>1 DEF CodeConsume, CodeRow
  <2>3. PICK r \in Request : Goto(w, r) /\ r.pc = "issue"
    BY <1>3, <2>1, IssueNext DEF CodeConsume
  <2> QED
    BY <1>0, <1>3, <2>2, <2>3, Moves DEF CodeConsume, TypeOK, OnFileOnly, History, Exists
<1>4. ASSUME NEW w \in Workers, Issue(w) PROVE Typed'
  <2>1. req[w].user \in Users /\ req[w].password \in Nat
    BY <1>4, RequestFields DEF Issue
  <2>2. PICK t \in Tokens :
          token' = [token EXCEPT ![t] =
                      [state |-> "LIVE", user |-> req[w].user, password |-> req[w].password]]
    BY <1>4 DEF Issue
  <2>3. token' \in [Tokens -> TokenRow]
    BY <1>0, <2>1, <2>2 DEF TokenRow
  <2>4. bought' \in [Proofs -> Nat]
    BY <1>0, <1>4 DEF Issue
  <2>5. \A s \in Tokens : token'[s].state = "LIVE" => token'[s].user \in Users
    BY <1>0, <2>1, <2>2 DEF OnFileOnly
  <2> QED
    BY <1>0, <1>4, <2>3, <2>4, <2>5, Moves DEF Issue, Finish, TypeOK, OnFileOnly, Exists, Idle
<1>5. ASSUME NEW w \in Workers, RotateRevoke(w) PROVE Typed'
  <2>1. req[w] \in [pc : {"rotate_revoke"}, user : Users, proof : Tokens, password : Nat]
    BY <1>5, RequestFields DEF RotateRevoke
  <2>2. token' \in [Tokens -> TokenRow]
    BY <1>0, <1>5, <2>1 DEF RotateRevoke, TokenRow
  <2>3. PICK r \in Request : Goto(w, r) /\ r.pc = "issue"
    BY <1>5, <2>1, IssueNext DEF RotateRevoke
  <2>4. \A s \in Tokens : token'[s].state = "LIVE" => token'[s].user \in Users
    BY <1>0, <1>5, <2>1 DEF RotateRevoke, OnFileOnly, TokenRow
  <2> QED
    BY <1>0, <1>5, <2>2, <2>3, <2>4, Moves DEF RotateRevoke, TypeOK, OnFileOnly, History, Exists
<1>6. ASSUME NEW w \in Workers, ChangeWrite(w) PROVE Typed'
  <2>1. req[w].user \in Users
    BY <1>6, RequestFields DEF ChangeWrite
  <2>2. /\ user' \in [Users -> UserRow]
        /\ \A u \in Users : user'[u].role = user[u].role
    BY <1>0, <1>6, <2>1 DEF ChangeWrite, UserRow
  <2>3. [pc |-> "change_revoke", user |-> req[w].user] \in Request
    BY <2>1 DEF Request, DoorRequest
  <2>4. Exists(req[w].user)
    BY <1>6 DEF ChangeWrite, OnFileOnly, At
  <2> QED
    BY <1>0, <1>6, <2>1, <2>2, <2>3, <2>4, Moves DEF ChangeWrite, TypeOK, OnFileOnly, History, Exists
<1>7. ASSUME NEW w \in Workers, ChangeRevoke(w) PROVE Typed'
  <2>1. req[w].user \in Users /\ Exists(req[w].user)
    BY <1>7, RequestFields DEF ChangeRevoke, OnFileOnly, At
  <2>2. user[req[w].user].password \in Nat
    BY <1>0, <2>1 DEF UserRow
  <2>3. settled' \in [Users -> Nat] /\ stray' \subseteq Users
    BY <1>0, <1>7, <2>1, <2>2 DEF ChangeRevoke, EndSessions
  <2>4. [pc |-> "issue", user |-> req[w].user, proof |-> None,
         password |-> user[req[w].user].password] \in Request
    BY <2>1, <2>2 DEF Request, DoorRequest
  <2>5. /\ token' \in [Tokens -> TokenRow]
        /\ \A t \in Tokens : token'[t].state = "LIVE" => token'[t].user \in Users
    BY <1>7, <2>1, EndedTypes DEF ChangeRevoke, EndSessions, OnFileOnly
  <2>6. TypeOK'
    BY <1>0, <1>7, <2>3, <2>4, <2>5, Moves DEF ChangeRevoke, TypeOK
  <2>7. \A u \in Users : ~Exists(u)' => settled'[u] = 0 /\ u \notin withdrawn'
    BY <1>0, <1>7, <2>1 DEF ChangeRevoke, OnFileOnly, Exists
  <2> QED
    BY <1>7, <2>4, <2>5, <2>6, <2>7, Moves DEF ChangeRevoke, OnFileOnly, Exists
<1>8. ASSUME NEW w \in Workers, NEW u \in Visitors, OtpRead(w, u) PROVE Typed'
  <2>1. [pc |-> "otp_insert", user |-> u] \in Request
    BY <1>0 DEF Request, DoorRequest
  <2> QED
    BY <1>0, <1>8, <2>1, Moves DEF OtpRead, TypeOK, OnFileOnly, Tables, History, Exists
<1>9. ASSUME NEW w \in Workers, NEW u \in Visitors, VerifyRead(w, u) PROVE Typed'
  <2>1. PICK k \in Challenge(u) :
          /\ code[k].state # "EXPIRED"
          /\ \/ Goto(w, [pc |-> "code_consume", user |-> u, proof |-> k, password |-> user[u].password])
             \/ Goto(w, [pc |-> "code_count", user |-> u, proof |-> k, attempts |-> code[k].attempts])
          /\ NoteHeld(w, k)
    BY <1>9 DEF VerifyRead
  <2>2. k \in Codes /\ k \in Proofs /\ code[k].attempts \in Nat
    BY <1>0, <2>1, ChallengeTypes
  <2>3. /\ [pc |-> "code_consume", user |-> u, proof |-> k, password |-> user[u].password] \in Request
        /\ [pc |-> "code_count", user |-> u, proof |-> k, attempts |-> code[k].attempts] \in Request
    BY <1>0, <2>2 DEF Request, DoorRequest, UserRow
  <2> QED
    BY <1>0, <1>9, <2>1, <2>2, <2>3, Moves, NoteTypes
    DEF VerifyRead, TypeOK, OnFileOnly, Tables, Exists
<1>10. ASSUME NEW w \in Workers, NEW u \in Visitors, PasswordRead(w, u) PROVE Typed'
  <2>1. [pc |-> "issue", user |-> u, proof |-> None, password |-> user[u].password] \in Request
    BY <1>0 DEF Request, DoorRequest, UserRow
  <2> QED
    BY <1>0, <1>10, <2>1, Moves DEF PasswordRead, TypeOK, OnFileOnly, Tables, History, Exists
<1>11. ASSUME NEW w \in Workers, NEW u \in Visitors, ChangeRead(w, u) PROVE Typed'
  <2>1. [pc |-> "change_write", user |-> u] \in Request
    BY <1>0 DEF Request, DoorRequest
  <2> QED
    BY <1>0, <1>11, <2>1, Moves DEF ChangeRead, TypeOK, OnFileOnly, Tables, History, Exists
<1>12. ASSUME NEW w \in Workers, NEW t \in Tokens, RotateRead(w, t) PROVE Typed'
  <2>1. token[t].user \in Users /\ token[t].password \in Nat /\ t \in Proofs
    BY <1>0, <1>12 DEF RotateRead, Renewable, OnFileOnly, TokenRow, Proofs
  <2>2. [pc |-> "rotate_revoke", user |-> token[t].user, proof |-> t, password |-> token[t].password]
          \in Request
    BY <2>1 DEF Request, DoorRequest
  <2> QED
    BY <1>0, <1>12, <2>1, <2>2, Moves, NoteTypes DEF RotateRead, TypeOK, OnFileOnly, Tables, Exists
<1>13. ASSUME NEW k \in Codes, CodeExpires(k) PROVE Typed'
  <2>1. code' \in [Codes -> CodeRow]
    BY <1>0, <1>13 DEF CodeExpires, CodeRow
  <2> QED
    BY <1>13, <2>1 DEF CodeExpires, TypeOK, OnFileOnly, History, Exists
<1>14. ASSUME NEW t \in Tokens, SignOut(t) \/ TokenExpires(t) PROVE Typed'
  <2>1. /\ token' \in [Tokens -> TokenRow]
        /\ \A s \in Tokens : token'[s].state = "LIVE" => token'[s].user \in Users
    BY <1>0, <1>14, SMTT(40) DEF SignOut, TokenExpires, TokenRow, OnFileOnly
  <2> QED
    BY <1>14, <2>1 DEF SignOut, TokenExpires, TypeOK, OnFileOnly, History, Exists
<1> QED
  BY <1>1, <1>2, <1>3, <1>4, <1>5, <1>6, <1>7, <1>8, <1>9, <1>10, <1>11, <1>12, <1>13, <1>14
  DEF DoorsNext

\* A request of the team screen that passed the count goes on to its write, and one that wrote
\* a person off to their sessions.
LEMMA TeamNext ==
  /\ \A r \in [pc : {"edit_count", "edit_write"}, user : Users, role : Roles] :
       /\ [r EXCEPT !.pc = "edit_write"] = [pc |-> "edit_write", user |-> r.user, role |-> r.role]
       /\ [pc |-> "edit_write", user |-> r.user, role |-> r.role] \in Request
  /\ \A r \in [pc : {"switch_count", "switch_write", "switch_revoke"}, user : Users, active : BOOLEAN] :
       /\ [r EXCEPT !.pc = "switch_write"] = [pc |-> "switch_write", user |-> r.user, active |-> r.active]
       /\ [r EXCEPT !.pc = "switch_revoke"] = [pc |-> "switch_revoke", user |-> r.user, active |-> r.active]
       /\ [pc |-> "switch_write", user |-> r.user, active |-> r.active] \in Request
       /\ [pc |-> "switch_revoke", user |-> r.user, active |-> r.active] \in Request
<1>1. ASSUME NEW r \in [pc : {"edit_count", "edit_write"}, user : Users, role : Roles]
      PROVE  /\ [r EXCEPT !.pc = "edit_write"] = [pc |-> "edit_write", user |-> r.user, role |-> r.role]
             /\ [pc |-> "edit_write", user |-> r.user, role |-> r.role] \in Request
  <2>1. r = [pc |-> r.pc, user |-> r.user, role |-> r.role]
    OBVIOUS
  <2>2. r.user \in Users /\ r.role \in Roles
    OBVIOUS
  <2> QED
    BY <2>1, <2>2 DEF Request, TeamRequest
<1>2. ASSUME NEW r \in [pc : {"switch_count", "switch_write", "switch_revoke"}, user : Users, active : BOOLEAN]
      PROVE  /\ [r EXCEPT !.pc = "switch_write"] = [pc |-> "switch_write", user |-> r.user, active |-> r.active]
             /\ [r EXCEPT !.pc = "switch_revoke"] = [pc |-> "switch_revoke", user |-> r.user, active |-> r.active]
             /\ [pc |-> "switch_write", user |-> r.user, active |-> r.active] \in Request
             /\ [pc |-> "switch_revoke", user |-> r.user, active |-> r.active] \in Request
  <2>1. r = [pc |-> r.pc, user |-> r.user, active |-> r.active]
    OBVIOUS
  <2>2. r.user \in Users /\ r.active \in BOOLEAN
    OBVIOUS
  <2> QED
    BY <2>1, <2>2 DEF Request, TeamRequest
<1> QED
  BY <1>1, <1>2

\* Every statement of the team screen keeps the types, and every crash.
LEMMA TeamTypes ==
  ASSUME Typed,
         \/ AddPerson
         \/ \E w \in Workers :
              \/ EditCount(w) \/ EditWrite(w)
              \/ SwitchCount(w) \/ SwitchWrite(w) \/ SwitchRevoke(w)
              \/ Crash(w)
         \/ \E w \in Managers, u \in Users :
              \/ \E r \in Roles \cup {None} : EditRead(w, u, r)
              \/ \E on \in BOOLEAN : SwitchRead(w, u, on)
  PROVE  Typed'
<1> USE DEF Typed
<1>0. /\ user \in [Users -> UserRow] /\ token \in [Tokens -> TokenRow]
      /\ req \in [Workers -> Request] /\ withdrawn \subseteq Users /\ stray \subseteq Users
      /\ Managers \subseteq Workers /\ Idle \in Request
  BY ManagersServe DEF TypeOK, Request
<1>1. CASE AddPerson
  <2>1. PICK u \in Users, r \in Roles :
          ~Exists(u) /\ user' = [user EXCEPT ![u] = [role |-> r, active |-> TRUE, password |-> 0]]
    BY <1>1 DEF AddPerson
  <2>2. user' \in [Users -> UserRow] /\ \A v \in Users : Exists(v) => user'[v] = user[v]
    BY <1>0, <2>1 DEF UserRow
  <2> QED
    BY <1>1, <2>2, RequestFields DEF AddPerson, TypeOK, OnFileOnly, History, Exists, At
<1>2. ASSUME NEW w \in Workers, EditCount(w) PROVE Typed'
  <2>1. req[w] \in [pc : {"edit_count", "edit_write"}, user : Users, role : Roles] /\ Exists(req[w].user)
    BY <1>2, RequestFields DEF EditCount, OnFileOnly, At
  <2>2. CASE Goto(w, [req[w] EXCEPT !.pc = "edit_write"])
    <3>1. PICK r \in Request : Goto(w, r) /\ r.user = req[w].user
      BY <2>1, <2>2, TeamNext
    <3> QED
      BY <1>2, <2>1, <3>1, Moves DEF EditCount, TypeOK, OnFileOnly, Tables, History, Exists
  <2>3. CASE Finish(w)
    BY <1>0, <1>2, <2>3, Moves DEF EditCount, Finish, TypeOK, OnFileOnly, Tables, History, Exists, Idle
  <2> QED
    BY <1>2, <2>2, <2>3 DEF EditCount
<1>3. ASSUME NEW w \in Workers, EditWrite(w) PROVE Typed'
  <2>1. req[w].user \in Users /\ req[w].role \in Roles /\ Exists(req[w].user)
    BY <1>3, RequestFields DEF EditWrite, OnFileOnly, At
  <2>2. /\ user' \in [Users -> UserRow]
        /\ \A v \in Users : Exists(v)' <=> Exists(v)
    BY <1>0, <1>3, <2>1, NullIsNoRole DEF EditWrite, UserRow, Exists
  <2> QED
    BY <1>0, <1>3, <2>2, Moves, RequestFields DEF EditWrite, Finish, TypeOK, OnFileOnly, History, Idle, At
<1>4. ASSUME NEW w \in Workers, SwitchCount(w) PROVE Typed'
  <2>1. /\ req[w] \in [pc : {"switch_count", "switch_write", "switch_revoke"}, user : Users, active : BOOLEAN]
        /\ Exists(req[w].user)
    BY <1>4, RequestFields DEF SwitchCount, OnFileOnly, At
  <2>2. CASE Goto(w, [req[w] EXCEPT !.pc = "switch_write"])
    <3>0. [req[w] EXCEPT !.pc = "switch_write"] =
            [pc |-> "switch_write", user |-> req[w].user, active |-> req[w].active]
          /\ [pc |-> "switch_write", user |-> req[w].user, active |-> req[w].active] \in Request
      BY <2>1, TeamNext, Zenon
    <3>1. PICK r \in Request : Goto(w, r) /\ r.user = req[w].user
      BY <2>2, <3>0
    <3> QED
      BY <1>4, <2>1, <3>1, Moves DEF SwitchCount, TypeOK, OnFileOnly, Tables, History, Exists
  <2>3. CASE Finish(w)
    BY <1>0, <1>4, <2>3, Moves DEF SwitchCount, Finish, TypeOK, OnFileOnly, Tables, History, Exists, Idle
  <2> QED
    BY <1>4, <2>2, <2>3 DEF SwitchCount
<1>5. ASSUME NEW w \in Workers, SwitchWrite(w) PROVE Typed'
  <2>1. /\ req[w] \in [pc : {"switch_count", "switch_write", "switch_revoke"}, user : Users, active : BOOLEAN]
        /\ Exists(req[w].user)
    BY <1>5, RequestFields DEF SwitchWrite, OnFileOnly, At
  <2>2. /\ user' \in [Users -> UserRow]
        /\ \A v \in Users : user'[v].role = user[v].role
    BY <1>0, <1>5, <2>1 DEF SwitchWrite, UserRow
  <2>3. PICK r \in Request : Goto(w, r) /\ (r = Idle \/ r.user = req[w].user)
    <3>1. Goto(w, Idle) \/ Goto(w, [req[w] EXCEPT !.pc = "switch_revoke"])
      BY <1>5 DEF SwitchWrite, Finish
    <3>2. [req[w] EXCEPT !.pc = "switch_revoke"] =
            [pc |-> "switch_revoke", user |-> req[w].user, active |-> req[w].active]
          /\ [pc |-> "switch_revoke", user |-> req[w].user, active |-> req[w].active] \in Request
      BY <2>1, TeamNext, Zenon
    <3> QED
      BY <1>0, <3>1, <3>2
  <2>4. withdrawn' \subseteq withdrawn
    BY <1>5 DEF SwitchWrite
  <2> QED
    BY <1>0, <1>5, <2>1, <2>2, <2>3, <2>4, Moves DEF SwitchWrite, TypeOK, OnFileOnly, History, Exists, Idle
<1>6. ASSUME NEW w \in Workers, SwitchRevoke(w) PROVE Typed'
  <2>1. req[w].user \in Users /\ Exists(req[w].user)
    BY <1>6, RequestFields DEF SwitchRevoke, OnFileOnly, At
  <2>2. /\ token' \in [Tokens -> TokenRow]
        /\ \A t \in Tokens : token'[t].state = "LIVE" => token'[t].user \in Users
    BY <1>6, <2>1, EndedTypes DEF SwitchRevoke, EndSessions, OnFileOnly
  <2>3. stray' \subseteq Users /\ withdrawn' \subseteq withdrawn \cup {req[w].user}
    BY <1>0, <1>6, <2>1 DEF SwitchRevoke, EndSessions
  <2> QED
    BY <1>0, <1>6, <2>1, <2>2, <2>3, Moves DEF SwitchRevoke, Finish, TypeOK, OnFileOnly, Exists, Idle
<1>7. ASSUME NEW w \in Workers, Crash(w) PROVE Typed'
  BY <1>0, <1>7, Moves DEF Crash, Finish, TypeOK, OnFileOnly, Tables, History, Exists, Idle
<1>8. ASSUME NEW w \in Workers, NEW u \in Users, NEW r \in Roles \cup {None}, EditRead(w, u, r)
      PROVE  Typed'
  <2>1. Exists(u) /\ Written(u, r) \in Roles
    BY <1>0, <1>8 DEF EditRead, Written, Exists, UserRow
  <2>2. PICK q \in Request : Goto(w, q) /\ q.user = u
    BY <1>8, <2>1 DEF EditRead, Request, TeamRequest
  <2> QED
    BY <1>8, <2>1, <2>2, Moves DEF EditRead, TypeOK, OnFileOnly, Tables, History, Exists
<1>9. ASSUME NEW w \in Workers, NEW u \in Users, NEW on \in BOOLEAN, SwitchRead(w, u, on)
      PROVE  Typed'
  <2>1. PICK q \in Request : Goto(w, q) /\ q.user = u
    BY <1>9 DEF SwitchRead, Request, TeamRequest
  <2> QED
    BY <1>9, <2>1, Moves DEF SwitchRead, TypeOK, OnFileOnly, Tables, History, Exists
<1> QED
  BY <1>0, <1>1, <1>2, <1>3, <1>4, <1>5, <1>6, <1>7, <1>8, <1>9

\* Every row and every request keeps its type, and works on rows that are on file.
THEOREM TypeCorrect == Spec => []Typed
<1>1. Init => Typed
  <2> SUFFICES ASSUME Init PROVE Typed
    OBVIOUS
  <2>1. TypeOK
    BY SignInConstants DEF Init, DoorsInit, TypeOK, UserRow, CodeRow, TokenRow, Request, Roles
  <2>2. OnFileOnly
    BY DEF Init, DoorsInit, OnFileOnly, Idle
  <2> QED
    BY <2>1, <2>2 DEF Typed
<1>2. Typed /\ [Next]_vars => Typed'
  <2> SUFFICES ASSUME Typed, [Next]_vars PROVE Typed'
    OBVIOUS
  <2>1. CASE UNCHANGED vars
    BY <2>1 DEF vars, Typed, TypeOK, OnFileOnly, Exists
  <2> QED
    BY <2>1, DoorTypes, TeamTypes DEF Next
<1> QED
  BY <1>1, <1>2, PTL DEF Spec
-----------------------------------------------------------------------------
(***************************************************************************)
(* What is spent.                                                           *)
(***************************************************************************)

\* The requests of somebody on their way in.
AtDoor == {"otp_insert", "code_count", "code_consume", "rotate_revoke", "issue",
           "change_write", "change_revoke"}

\* A request that ends, or that the team screen makes, goes nowhere near the doors.
LEMMA TeamMoves ==
  ASSUME Typed, NEW w \in Workers,
         \/ OtpInsert(w) \/ CodeCount(w) \/ EditCount(w) \/ EditWrite(w)
         \/ SwitchCount(w) \/ SwitchWrite(w) \/ SwitchRevoke(w) \/ Crash(w)
         \/ \E u \in Users, r \in Roles \cup {None} : EditRead(w, u, r)
         \/ \E u \in Users, on \in BOOLEAN : SwitchRead(w, u, on)
  PROVE  \E r \in Request : Goto(w, r) /\ r.pc \notin AtDoor
<1>0. Idle \in Request /\ Idle.pc \notin AtDoor
  BY DEF Request, Idle, AtDoor
<1>1. CASE Goto(w, Idle)
  BY <1>0, <1>1
<1>2. ASSUME At(w, "edit_count"), Goto(w, [req[w] EXCEPT !.pc = "edit_write"])
      PROVE  \E r \in Request : Goto(w, r) /\ r.pc \notin AtDoor
  BY <1>2, RequestFields, TeamNext DEF Typed, AtDoor
<1>3. ASSUME At(w, "switch_count") \/ At(w, "switch_write"),
             NEW pc \in {"switch_write", "switch_revoke"}, Goto(w, [req[w] EXCEPT !.pc = pc])
      PROVE  \E r \in Request : Goto(w, r) /\ r.pc \notin AtDoor
  <2>1. /\ [req[w] EXCEPT !.pc = pc] = [pc |-> pc, user |-> req[w].user, active |-> req[w].active]
        /\ [pc |-> pc, user |-> req[w].user, active |-> req[w].active] \in Request
    BY <1>3, RequestFields, TeamNext, Zenon DEF Typed
  <2> QED
    BY <1>3, <2>1 DEF AtDoor
<1>4. ASSUME NEW u \in Users, NEW r \in Roles \cup {None}, EditRead(w, u, r)
      PROVE  \E q \in Request : Goto(w, q) /\ q.pc \notin AtDoor
  <2>1. Written(u, r) \in Roles
    BY <1>4 DEF EditRead, Written, Exists, UserRow, Typed, TypeOK
  <2> QED
    BY <1>4, <2>1 DEF EditRead, Request, TeamRequest, AtDoor
<1>5. ASSUME NEW u \in Users, NEW on \in BOOLEAN, SwitchRead(w, u, on)
      PROVE  \E q \in Request : Goto(w, q) /\ q.pc \notin AtDoor
  BY <1>5 DEF SwitchRead, Request, TeamRequest, AtDoor
<1> QED
  BY <1>1, <1>2, <1>3, <1>4, <1>5
  DEF OtpInsert, CodeCount, EditCount, EditWrite, SwitchCount, SwitchWrite, SwitchRevoke, Crash, Finish

\* The requests that hold a code or a token.
Holders == {"code_count", "code_consume", "rotate_revoke", "issue"}

\* A code or a token that buys nothing any more.
Spent(p) == IF p \in Tokens THEN token[p].state = "DEAD" ELSE code[p].state = "CONSUMED"

\* What no two requests held is held by one at most, and by none once it has bought its
\* session, which is after it was spent.
Spending ==
    /\ \A p \in Proofs \ shared :
        /\ \A v, w \in Workers : Holds(v, p) /\ Holds(w, p) => v = w
        /\ bought[p] = 0 \/ (bought[p] = 1 /\ Spent(p) /\ \A w \in Workers : ~Holds(w, p))
    /\ \A w \in Workers, p \in Proofs : At(w, "issue") /\ req[w].proof = p => Spent(p)

\* Only those four kinds of request name a code or a token.
LEMMA HoldingShape ==
  ASSUME NEW r \in Request, NEW p
  PROVE  ("proof" \in DOMAIN r /\ r.proof = p) <=> (r.pc \in Holders /\ r.proof = p)
  BY DEF Request, DoorRequest, TeamRequest, Idle, Holders

\* A token is not a code.
LEMMA ProofKinds ==
  ASSUME NEW p \in Proofs
  PROVE  p \notin Tokens => p \in Codes
  BY DEF Proofs

\* A code is sent once, and found good while it is live; a token is issued once, and dies once.
LEMMA SpentStays ==
  ASSUME Typed, [Next]_vars, NEW p \in Proofs, Spent(p)
  PROVE  Spent(p)'
<1>0. code \in [Codes -> CodeRow] /\ token \in [Tokens -> TokenRow]
  BY DEF Typed, TypeOK
<1>1. CASE p \in Tokens
  <2>1. token[p].state = "DEAD"
    BY <1>1 DEF Spent
  <2>2. ASSUME NEW w \in Workers, RotateRevoke(w) \/ Issue(w) PROVE token'[p].state = "DEAD"
    <3>1. CASE RotateRevoke(w)
      <4>1. req[w].proof \in Tokens
        BY <3>1, RequestFields DEF RotateRevoke, Typed
      <4> QED
        BY <1>0, <1>1, <2>1, <3>1, <4>1 DEF RotateRevoke, TokenRow
    <3>2. CASE Issue(w)
      BY <1>0, <1>1, <2>1, <3>2 DEF Issue
    <3> QED
      BY <2>2, <3>1, <3>2
  <2>3. ASSUME NEW u \in Users, token' = Ended(u) PROVE token'[p].state = "DEAD"
    BY <1>1, <2>1, <2>3, EndedTypes DEF Typed
  <2>4. ASSUME NEW w \in Workers, ChangeRevoke(w) \/ SwitchRevoke(w) PROVE token'[p].state = "DEAD"
    <3>1. req[w].user \in Users /\ token' = Ended(req[w].user)
      BY <2>4, RequestFields DEF ChangeRevoke, SwitchRevoke, EndSessions, Typed
    <3> QED
      BY <2>3, <3>1
  <2>5. ASSUME NEW t \in Tokens, SignOut(t) \/ TokenExpires(t) PROVE token'[p].state = "DEAD"
    BY <1>0, <1>1, <2>1, <2>5 DEF SignOut, TokenExpires, TokenRow
  <2>6. ASSUME UNCHANGED token PROVE token'[p].state = "DEAD"
    BY <1>1, <2>1, <2>6, SMTT(40)
  <2>7. token'[p].state = "DEAD"
    BY <2>2, <2>4, <2>5, <2>6
    DEF Next, DoorsNext, vars, OtpInsert, CodeCount, CodeConsume, ChangeWrite, OtpRead, VerifyRead,
        PasswordRead, ChangeRead, RotateRead, CodeExpires, AddPerson, EditCount, EditWrite,
        SwitchCount, SwitchWrite, Crash, EditRead, SwitchRead, Tables
  <2> QED
    BY <1>1, <2>7 DEF Spent
<1>2. CASE p \notin Tokens
  <2>1. p \in Codes /\ code[p].state = "CONSUMED"
    BY <1>2, ProofKinds DEF Spent
  <2>2. ASSUME NEW w \in Workers, OtpInsert(w) PROVE code'[p].state = "CONSUMED"
    <3>1. PICK k \in Codes :
            /\ \A c \in Codes : code[c].state = "ABSENT" <=> c >= k
            /\ code' = [c \in Codes |->
                  IF c = k THEN [state |-> "LIVE", user |-> req[w].user, attempts |-> 0]
                  ELSE IF code[c].state = "EXPIRED" THEN [code[c] EXCEPT !.state = "DELETED"]
                  ELSE code[c]]
      BY <2>2 DEF OtpInsert
    <3>2. p # k
      BY <2>1, <3>1 DEF Codes
    <3> QED
      BY <2>1, <3>1, <3>2
  <2>3. ASSUME NEW w \in Workers, CodeCount(w) \/ CodeConsume(w) PROVE code'[p].state = "CONSUMED"
    <3>1. req[w].proof \in Codes
      BY <2>3, RequestFields DEF CodeCount, CodeConsume, Typed
    <3> QED
      BY <1>0, <2>1, <2>3, <3>1 DEF CodeCount, CodeConsume, CodeRow
  <2>4. ASSUME NEW k \in Codes, CodeExpires(k) PROVE code'[p].state = "CONSUMED"
    BY <1>0, <2>1, <2>4 DEF CodeExpires, CodeRow
  <2>5. ASSUME UNCHANGED code PROVE code'[p].state = "CONSUMED"
    BY <2>1, <2>5, SMTT(40)
  <2>6. code'[p].state = "CONSUMED"
    BY <2>2, <2>3, <2>4, <2>5
    DEF Next, DoorsNext, vars, Issue, RotateRevoke, ChangeWrite, ChangeRevoke, OtpRead, VerifyRead,
        PasswordRead, ChangeRead, RotateRead, SignOut, TokenExpires, AddPerson, EditCount, EditWrite,
        SwitchCount, SwitchWrite, SwitchRevoke, Crash, EditRead, SwitchRead, Tables
  <2> QED
    BY <1>2, <2>6 DEF Spent
<1> QED
  BY <1>1, <1>2

\* A step after which nobody holds more than before, and nothing more was bought.
LEMMA NobodyTakes ==
  ASSUME Typed, Spending, NEW w \in Workers, NEW r \in Request, Goto(w, r),
         UNCHANGED <<bought, shared>>,
         \A p \in Proofs : Spent(p) => Spent(p)',
         \/ r.pc \notin Holders
         \/ r.pc = "issue" /\ r.proof = None
         \/ /\ r.pc = "issue" /\ req[w].pc \in {"code_consume", "rotate_revoke"}
            /\ r.proof = req[w].proof /\ \A p \in Proofs : p = r.proof => Spent(p)'
  PROVE  Spending'
<1>0. /\ \A v \in Workers : req[v] \in Request
      /\ req'[w] = r /\ \A v \in Workers \ {w} : req'[v] = req[v]
      /\ None \notin Proofs
  BY Moves, SignInConstants DEF Typed, TypeOK, Proofs, Codes
<1>1. \A v \in Workers, p \in Proofs : Holds(v, p)' => Holds(v, p)
  <2>1. \A p \in Proofs : Holds(w, p)' => r.pc \in Holders /\ r.proof = p
    BY <1>0, HoldingShape DEF Holds
  <2>2. \A p \in Proofs : req[w].pc \in Holders /\ req[w].proof = p => Holds(w, p)
    BY <1>0, HoldingShape DEF Holds
  <2>3. \A p \in Proofs : Holds(w, p)' => Holds(w, p)
    BY <1>0, <2>1, <2>2 DEF Holders
  <2> QED
    BY <1>0, <2>3 DEF Holds
<1>2. \A v \in Workers, p \in Proofs : At(v, "issue")' /\ req'[v].proof = p => Spent(p)'
  <2>1. ASSUME NEW v \in Workers, NEW p \in Proofs, At(v, "issue")', req'[v].proof = p PROVE Spent(p)'
    <3>1. CASE v = w
      BY <1>0, <2>1, <3>1 DEF At, Holders
    <3>2. CASE v # w
      BY <1>0, <2>1, <3>2 DEF At, Spending
    <3> QED
      BY <3>1, <3>2
  <2> QED
    BY <2>1
<1> QED
  BY <1>1, <1>2 DEF Spending

\* A request reads a code or a token that still buys a session: it is the only one to hold it,
\* or it is noted.
LEMMA SomebodyTakes ==
  ASSUME Typed, Spending, NEW w \in Workers, NEW r \in Request, Goto(w, r),
         req[w] = Idle, r.pc # "issue", NEW p \in Proofs, r.proof = p,
         ~Spent(p), NoteHeld(w, p),
         \A q \in Proofs : Spent(q) => Spent(q)'
  PROVE  Spending'
<1>0. /\ \A v \in Workers : req[v] \in Request
      /\ req'[w] = r /\ \A v \in Workers \ {w} : req'[v] = req[v]
      /\ bought \in [Proofs -> Nat]
  BY Moves DEF Typed, TypeOK
<1>1. \A v \in Workers \ {w}, q \in Proofs : Holds(v, q)' <=> Holds(v, q)
  BY <1>0 DEF Holds
<1>2. \A q \in Proofs : ~Holds(w, q) /\ (Holds(w, q)' => q = p)
  BY <1>0, HoldingShape DEF Holds, Idle, Holders
<1>3. \A v \in Workers, q \in Proofs : At(v, "issue")' /\ req'[v].proof = q => Spent(q)'
  BY <1>0 DEF At, Spending
<1>4. CASE \E v \in Workers \ {w} : Holds(v, p)
  <2>1. shared' = shared \cup {p} /\ \A q \in Proofs \ {p} : bought'[q] = bought[q]
    BY <1>0, <1>4 DEF NoteHeld
  <2>2. ASSUME NEW q \in Proofs \ shared'
        PROVE  /\ \A u, v \in Workers : Holds(u, q)' /\ Holds(v, q)' => u = v
               /\ bought'[q] = 0 \/ (bought'[q] = 1 /\ Spent(q)' /\ \A v \in Workers : ~Holds(v, q)')
    <3>1. q # p /\ q \notin shared /\ bought'[q] = bought[q]
      BY <2>1
    <3>2. \A v \in Workers : Holds(v, q)' => Holds(v, q)
      BY <1>1, <1>2, <3>1
    <3> QED
      BY <3>1, <3>2 DEF Spending
  <2> QED
    BY <1>3, <2>2 DEF Spending
<1>5. CASE ~\E v \in Workers \ {w} : Holds(v, p)
  <2>1. UNCHANGED <<shared, bought>>
    BY <1>5 DEF NoteHeld
  <2>2. ASSUME NEW q \in Proofs \ shared
        PROVE  /\ \A u, v \in Workers : Holds(u, q)' /\ Holds(v, q)' => u = v
               /\ bought'[q] = 0 \/ (bought'[q] = 1 /\ Spent(q)' /\ \A v \in Workers : ~Holds(v, q)')
    <3>1. CASE q = p
      BY <1>1, <1>2, <1>5, <2>1, <3>1 DEF Spending
    <3>2. CASE q # p
      <4>1. \A v \in Workers : Holds(v, q)' => Holds(v, q)
        BY <1>1, <1>2, <3>2
      <4> QED
        BY <2>1, <4>1 DEF Spending
    <3> QED
      BY <3>1, <3>2
  <2> QED
    BY <1>3, <2>1, <2>2 DEF Spending
<1> QED
  BY <1>4, <1>5

\* The session is opened, and the request lets go of what it was opened with.
LEMMA IssueSpends ==
  ASSUME Typed, Spending, NEW w \in Workers, Issue(w),
         \A q \in Proofs : Spent(q) => Spent(q)'
  PROVE  Spending'
<1>0. /\ \A v \in Workers : req[v] \in Request
      /\ req'[w] = Idle /\ \A v \in Workers \ {w} : req'[v] = req[v]
      /\ bought \in [Proofs -> Nat] /\ At(w, "issue") /\ UNCHANGED shared
  BY Moves DEF Typed, TypeOK, Issue, Finish, Request
<1>1. /\ \A v \in Workers \ {w}, q \in Proofs : Holds(v, q)' <=> Holds(v, q)
      /\ \A q \in Proofs : ~Holds(w, q)'
  BY <1>0 DEF Holds, Idle
<1>2. \A q \in Proofs : req[w].proof = q => Holds(w, q) /\ Spent(q)
  BY <1>0, HoldingShape DEF Holds, At, Holders, Spending
<1>3. \A v \in Workers, q \in Proofs : At(v, "issue")' /\ req'[v].proof = q => Spent(q)'
  BY <1>0 DEF At, Spending, Idle
<1>4. ASSUME NEW q \in Proofs \ shared
      PROVE  /\ \A u, v \in Workers : Holds(u, q)' /\ Holds(v, q)' => u = v
             /\ bought'[q] = 0 \/ (bought'[q] = 1 /\ Spent(q)' /\ \A v \in Workers : ~Holds(v, q)')
  <2>1. \A v \in Workers : Holds(v, q)' => Holds(v, q) /\ v # w
    BY <1>1
  <2>2. CASE req[w].proof = q
    <3>1. bought[q] = 0 /\ \A v \in Workers : Holds(v, q) => v = w
      BY <1>2, <2>2 DEF Spending
    <3>2. bought'[q] = 1
      BY <1>0, <2>2, <3>1 DEF Issue
    <3> QED
      BY <1>2, <2>1, <2>2, <3>1, <3>2
  <2>3. CASE req[w].proof # q
    <3>1. bought'[q] = bought[q]
      BY <1>0, <2>3 DEF Issue
    <3> QED
      BY <2>1, <3>1 DEF Spending
  <2> QED
    BY <2>2, <2>3
<1> QED
  BY <1>0, <1>3, <1>4 DEF Spending

\* Every step keeps what is spent apart from what is held.
LEMMA NextSpending == Typed /\ Spending /\ [Next]_vars => Spending'
<1> SUFFICES ASSUME Typed, Spending, [Next]_vars PROVE Spending'
  OBVIOUS
<1>0. /\ \A p \in Proofs : Spent(p) => Spent(p)'
      /\ Idle \in Request /\ Idle.pc \notin Holders /\ Visitors \subseteq Users
  BY SpentStays, SignInConstants DEF Request, Idle, Holders
<1>1. ASSUME NEW w \in Workers, NEW r \in Request, Goto(w, r), r.pc \notin Holders,
             UNCHANGED <<bought, shared>>
      PROVE  Spending'
  BY <1>0, <1>1, NobodyTakes
<1>2. ASSUME NEW w \in Workers, NEW u \in Visitors, VerifyRead(w, u) PROVE Spending'
  <2>1. PICK k \in Challenge(u) :
          /\ code[k].state # "EXPIRED"
          /\ \/ Goto(w, [pc |-> "code_consume", user |-> u, proof |-> k, password |-> user[u].password])
             \/ Goto(w, [pc |-> "code_count", user |-> u, proof |-> k, attempts |-> code[k].attempts])
          /\ NoteHeld(w, k)
    BY <1>2 DEF VerifyRead
  <2>2. k \in Codes /\ k \in Proofs /\ code[k].attempts \in Nat /\ code[k].state = "LIVE"
    BY <1>0, <2>1, ChallengeTypes DEF Typed
  <2>3. ~Spent(k)
    BY <2>2, SignInConstants DEF Spent, Codes
  <2>4. PICK r \in Request : Goto(w, r) /\ r.pc # "issue" /\ r.proof = k
    BY <1>0, <2>1, <2>2 DEF Request, DoorRequest, UserRow, Typed, TypeOK
  <2> QED
    BY <1>0, <1>2, <2>1, <2>2, <2>3, <2>4, SomebodyTakes DEF VerifyRead
<1>3. ASSUME NEW w \in Workers, NEW t \in Tokens, RotateRead(w, t) PROVE Spending'
  <2>1. /\ token[t].user \in Users /\ token[t].password \in Nat /\ t \in Proofs
        /\ token[t].state = "LIVE"
    BY <1>3 DEF RotateRead, Renewable, Typed, TypeOK, OnFileOnly, TokenRow, Proofs
  <2>2. PICK r \in Request : Goto(w, r) /\ r.pc # "issue" /\ r.proof = t
    BY <1>3, <2>1 DEF RotateRead, Request, DoorRequest
  <2> QED
    BY <1>0, <1>3, <2>1, <2>2, SomebodyTakes DEF RotateRead, Spent
<1>4. ASSUME NEW w \in Workers, Issue(w) PROVE Spending'
  BY <1>0, <1>4, IssueSpends
<1>5. ASSUME NEW w \in Workers, CodeConsume(w) \/ RotateRevoke(w) PROVE Spending'
  <2>1. /\ req[w] \in [pc : {"code_consume"}, user : Users, proof : Codes, password : Nat]
                      \cup [pc : {"rotate_revoke"}, user : Users, proof : Tokens, password : Nat]
        /\ Goto(w, [req[w] EXCEPT !.pc = "issue"]) /\ UNCHANGED <<bought, shared>>
    BY <1>5, RequestFields DEF CodeConsume, RotateRevoke, Typed, History
  <2>2. PICK r \in Request : Goto(w, r) /\ r.pc = "issue" /\ r.proof = req[w].proof
    BY <2>1, IssueNext
  <2>3. \A p \in Proofs : p = r.proof => Spent(p)'
    <3>1. CASE CodeConsume(w)
      <4>1. req[w].proof \in Codes /\ req[w].proof \notin Tokens
        BY <3>1, RequestFields, SignInConstants DEF CodeConsume, Typed, Codes
      <4>2. code'[req[w].proof].state = "CONSUMED"
        BY <3>1, <4>1 DEF CodeConsume, Typed, TypeOK, CodeRow
      <4> QED
        BY <2>2, <4>1, <4>2 DEF Spent
    <3>2. CASE RotateRevoke(w)
      <4>1. req[w].proof \in Tokens
        BY <3>2, RequestFields DEF RotateRevoke, Typed
      <4>2. token'[req[w].proof].state = "DEAD"
        BY <3>2, <4>1 DEF RotateRevoke, Typed, TypeOK, TokenRow
      <4> QED
        BY <2>2, <4>1, <4>2 DEF Spent
    <3> QED
      BY <1>5, <3>1, <3>2
  <2> QED
    BY <1>0, <2>1, <2>2, <2>3, NobodyTakes
<1>6. ASSUME NEW w \in Workers, NEW u \in Visitors, PasswordRead(w, u) PROVE Spending'
  <2>1. PICK r \in Request : Goto(w, r) /\ r.pc = "issue" /\ r.proof = None
    BY <1>0, <1>6 DEF PasswordRead, Request, DoorRequest, UserRow, Typed, TypeOK
  <2> QED
    BY <1>0, <1>6, <2>1, NobodyTakes DEF PasswordRead, History
<1>7. ASSUME NEW w \in Workers, ChangeRevoke(w) PROVE Spending'
  <2>1. req[w].user \in Users
    BY <1>7, RequestFields DEF ChangeRevoke, Typed
  <2>2. PICK r \in Request : Goto(w, r) /\ r.pc = "issue" /\ r.proof = None
    BY <1>7, <2>1 DEF ChangeRevoke, Request, DoorRequest, UserRow, Typed, TypeOK
  <2> QED
    BY <1>0, <1>7, <2>2, NobodyTakes DEF ChangeRevoke
<1>8. ASSUME NEW w \in Workers,
             \/ OtpInsert(w) \/ CodeCount(w) \/ EditCount(w) \/ EditWrite(w)
             \/ SwitchCount(w) \/ SwitchWrite(w) \/ SwitchRevoke(w) \/ Crash(w)
             \/ \E u \in Users, r \in Roles \cup {None} : EditRead(w, u, r)
             \/ \E u \in Users, on \in BOOLEAN : SwitchRead(w, u, on)
      PROVE  Spending'
  <2>1. PICK r \in Request : Goto(w, r) /\ r.pc \notin Holders
    BY <1>8, TeamMoves DEF AtDoor, Holders
  <2>2. UNCHANGED <<bought, shared>>
    BY <1>8 DEF OtpInsert, CodeCount, EditCount, EditWrite, SwitchCount, SwitchWrite, SwitchRevoke,
       Crash, EditRead, SwitchRead, History
  <2> QED
    BY <1>1, <2>1, <2>2
<1>9. ASSUME NEW w \in Workers, NEW u \in Visitors, OtpRead(w, u) \/ ChangeRead(w, u) PROVE Spending'
  <2>1. PICK r \in Request : Goto(w, r) /\ r.pc \notin Holders
    BY <1>0, <1>9 DEF OtpRead, ChangeRead, Request, DoorRequest, Holders
  <2> QED
    BY <1>1, <1>9, <2>1 DEF OtpRead, ChangeRead, History
<1>10. ASSUME NEW w \in Workers, ChangeWrite(w) PROVE Spending'
  <2>1. req[w].user \in Users
    BY <1>10, RequestFields DEF ChangeWrite, Typed
  <2>2. PICK r \in Request : Goto(w, r) /\ r.pc \notin Holders
    BY <1>10, <2>1 DEF ChangeWrite, Request, DoorRequest, Holders
  <2> QED
    BY <1>1, <1>10, <2>2 DEF ChangeWrite, History
<1>11. CASE UNCHANGED <<bought, shared, req>>
  BY <1>0, <1>11 DEF Spending, Holds, At
<1> QED
  BY <1>2, <1>3, <1>4, <1>5, <1>6, <1>7, <1>8, <1>9, <1>10, <1>11, ManagersServe
  DEF Next, DoorsNext, AddPerson, CodeExpires, SignOut, TokenExpires, vars, History

\* A code or a refresh token buys one session, unless two requests held it at once.
THEOREM AlwaysSpentOnce == Spec => []SpentOnce
<1>1. Init => Spending
  BY DEF Init, DoorsInit, Spending, Holds, At, Idle
<1>2. Spending => SpentOnce
  BY DEF Spending, SpentOnce
<1> QED
  BY <1>1, <1>2, NextSpending, TypeCorrect, PTL DEF Spec
-----------------------------------------------------------------------------
(***************************************************************************)
(* Who is out.                                                              *)
(***************************************************************************)

\* The requests that will open a session under the password they carry.
Bearers == {"code_consume", "rotate_revoke", "issue"}

\* A person who is off, has nothing live, and is at no door.
Outside(u) ==
    /\ ~user[u].active
    /\ \A t \in Tokens : ~(token[t].state = "LIVE" /\ token[t].user = u)
    /\ \A k \in Codes : ~(code[k].state = "LIVE" /\ code[k].user = u)
    /\ \A w \in Workers : ~(req[w].pc \in AtDoor /\ req[w].user = u)

StayOut == \A u \in withdrawn \ stray : Outside(u)

\* Whatever opens or renews a session of somebody carries the password their sessions were
\* last ended under, or a later one.
Current ==
    /\ \A u \in Users : user[u].password >= settled[u]
    /\ \A u \in Users \ stray, t \in Tokens :
        token[t].state = "LIVE" /\ token[t].user = u => token[t].password >= settled[u]
    /\ \A u \in Users \ stray, w \in Workers :
        req[w].pc \in Bearers /\ req[w].user = u => req[w].password >= settled[u]

\* A step that opens nothing: rows only expire or die, passwords only get newer, nobody is
\* switched on, and the request leaves the doors or goes on inside with what it carried.
LEMMA NobodyEnters ==
  ASSUME Typed, Typed', StayOut, Current,
         UNCHANGED <<withdrawn, settled, stray>>,
         \A t \in Tokens : token'[t].state = "LIVE" => token'[t] = token[t],
         \A k \in Codes : code'[k].state = "LIVE" => code[k].state = "LIVE" /\ code'[k].user = code[k].user,
         \A u \in Users : user'[u].password >= user[u].password /\ (user'[u].active => user[u].active),
         \A w \in Workers :
            \/ req'[w] = req[w]
            \/ req'[w].pc \notin AtDoor
            \/ /\ req[w].pc \in AtDoor /\ req'[w].user = req[w].user
               /\ req'[w].pc \in Bearers => req[w].pc \in Bearers /\ req'[w].password = req[w].password
  PROVE  StayOut' /\ Current'
<1>0. /\ withdrawn \subseteq Users /\ settled \in [Users -> Nat]
      /\ \A u \in Users : user[u].password \in Nat
      /\ Bearers \subseteq AtDoor
  BY DEF Typed, TypeOK, UserRow, Bearers, AtDoor
<1>1. StayOut'
  <2>1. ASSUME NEW u \in withdrawn \ stray PROVE Outside(u)'
    <3>1. Outside(u) /\ u \in Users
      BY <1>0, <2>1 DEF StayOut
    <3>2. ~user'[u].active /\ \A t \in Tokens : ~(token'[t].state = "LIVE" /\ token'[t].user = u)
      BY <3>1 DEF Outside
    <3>3. \A k \in Codes : ~(code'[k].state = "LIVE" /\ code'[k].user = u)
      BY <3>1 DEF Outside
    <3>4. \A w \in Workers : ~(req'[w].pc \in AtDoor /\ req'[w].user = u)
      BY <3>1 DEF Outside
    <3> QED
      BY <3>2, <3>3, <3>4 DEF Outside
  <2> QED
    BY <2>1 DEF StayOut
<1>2. Current'
  <2>1. \A u \in Users : user'[u].password >= settled'[u]
    <3>1. \A u \in Users : user'[u].password \in Nat /\ settled[u] \in Nat
      BY DEF Typed, TypeOK, UserRow
    <3>2. \A u \in Users : user[u].password >= settled[u]
      BY DEF Current
    <3> QED
      BY <1>0, <3>1, <3>2
  <2>2. \A u \in Users \ stray, w \in Workers :
          req'[w].pc \in Bearers /\ req'[w].user = u => req'[w].password >= settled[u]
    BY <1>0 DEF Current
  <2> QED
    BY <2>1, <2>2 DEF Current
<1> QED
  BY <1>1, <1>2

\* Somebody comes to a door with something that is still good.
LEMMA SomebodyEnters ==
  ASSUME Typed, StayOut, Current, NEW w \in Workers, NEW r \in Request, Goto(w, r),
         UNCHANGED <<Tables, withdrawn, settled, stray>>,
         NEW u \in Users, r.user = u, ~Outside(u),
         r.pc \in Bearers /\ u \notin stray => r.password >= settled[u]
  PROVE  StayOut' /\ Current'
<1>0. req'[w] = r /\ (\A v \in Workers \ {w} : req'[v] = req[v]) /\ UNCHANGED <<user, code, token>>
  BY Moves DEF Typed, Tables
<1>1. \A x \in withdrawn \ stray : Outside(x) /\ x # u
  BY DEF StayOut
<1> QED
  BY <1>0, <1>1 DEF StayOut, Current, Outside

\* Ending somebody's sessions leaves none, and none at the doors unless they are noted.
LEMMA EndingPutsOut ==
  ASSUME Typed, NEW w \in Workers, NEW u \in Users, EndSessions(w, u)
  PROVE  /\ \A t \in Tokens :
              /\ token'[t].state = "LIVE" => token'[t] = token[t]
              /\ ~(token'[t].state = "LIVE" /\ token'[t].user = u)
         /\ stray \subseteq stray' /\ stray' \subseteq stray \cup {u}
         /\ u \notin stray' =>
              /\ \A k \in Codes : ~(code[k].state = "LIVE" /\ code[k].user = u)
              /\ \A v \in Workers \ {w} : ~(req[v].pc \in AtDoor /\ req[v].user = u)
<1>1. \A t \in Tokens :
        /\ token'[t].state = "LIVE" => token'[t] = token[t]
        /\ ~(token'[t].state = "LIVE" /\ token'[t].user = u)
  BY EndedTypes DEF Typed, EndSessions, Ended, LiveTokens
<1>2. /\ \A k \in Codes : code[k].state = "LIVE" /\ code[k].user = u => u \in SigningIn(w)
      /\ \A v \in Workers \ {w} : req[v].pc \in AtDoor /\ req[v].user = u => u \in SigningIn(w)
  BY DEF SigningIn, AtDoor
<1> QED
  BY <1>1, <1>2 DEF EndSessions

\* Every statement of the doors keeps those who are out out, and what is current current.
LEMMA DoorsKeepOut ==
  ASSUME Typed, Typed', StayOut, Current, DoorsNext, UNCHANGED withdrawn
  PROVE  StayOut' /\ Current'
<1>0. /\ user \in [Users -> UserRow] /\ code \in [Codes -> CodeRow] /\ token \in [Tokens -> TokenRow]
      /\ settled \in [Users -> Nat] /\ req \in [Workers -> Request]
      /\ \A u \in Users : user[u].password \in Nat
      /\ Visitors \subseteq Users /\ Idle \in Request /\ Bearers \subseteq AtDoor /\ Idle.pc \notin AtDoor
  BY SignInConstants DEF Typed, TypeOK, UserRow, Request, Idle, Bearers, AtDoor
<1>1. ASSUME NEW w \in Workers, OtpInsert(w) PROVE StayOut' /\ Current'
  <2>1. PICK k \in Codes :
          code' = [c \in Codes |->
                IF c = k THEN [state |-> "LIVE", user |-> req[w].user, attempts |-> 0]
                ELSE IF code[c].state = "EXPIRED" THEN [code[c] EXCEPT !.state = "DELETED"]
                ELSE code[c]]
    BY <1>1 DEF OtpInsert
  <2>2. \A c \in Codes : code'[c].state = "LIVE" =>
          \/ code[c].state = "LIVE" /\ code'[c].user = code[c].user
          \/ code'[c].user = req[w].user
    BY <1>0, <2>1 DEF CodeRow
  <2>3. /\ req[w].pc \in AtDoor /\ UNCHANGED <<user, token, settled, stray>>
        /\ req'[w] = Idle /\ \A v \in Workers \ {w} : req'[v] = req[v]
    BY <1>0, <1>1, Moves DEF OtpInsert, Finish, At, AtDoor, History, Typed
  <2>4. StayOut'
    BY <1>0, <2>2, <2>3 DEF StayOut, Outside
  <2>5. Current'
    BY <1>0, <2>3 DEF Current
  <2> QED
    BY <2>4, <2>5
<1>2. ASSUME NEW w \in Workers, CodeCount(w) PROVE StayOut' /\ Current'
  <2>1. req[w].proof \in Codes
    BY <1>2, RequestFields DEF CodeCount, Typed
  <2>2. \A k \in Codes : code'[k].state = code[k].state /\ code'[k].user = code[k].user
    BY <1>0, <1>2, <2>1 DEF CodeCount, CodeRow
  <2>3. /\ req'[w] = Idle /\ \A v \in Workers \ {w} : req'[v] = req[v]
        /\ UNCHANGED <<user, token, settled, stray>>
    BY <1>0, <1>2, Moves DEF CodeCount, Finish, Typed, History
  <2> QED
    BY <1>0, <2>2, <2>3, NobodyEnters
<1>3. ASSUME NEW w \in Workers, CodeConsume(w) \/ RotateRevoke(w) PROVE StayOut' /\ Current'
  <2>1. /\ req[w] \in [pc : {"code_consume"}, user : Users, proof : Codes, password : Nat]
                      \cup [pc : {"rotate_revoke"}, user : Users, proof : Tokens, password : Nat]
        /\ Goto(w, [req[w] EXCEPT !.pc = "issue"]) /\ UNCHANGED <<user, settled, stray>>
        /\ req[w].pc \in Bearers
    BY <1>3, RequestFields DEF CodeConsume, RotateRevoke, Typed, History, At, Bearers
  <2>2. PICK r \in Request : /\ Goto(w, r) /\ r.pc = "issue"
                             /\ r.user = req[w].user /\ r.password = req[w].password
    BY <2>1, IssueNext
  <2>3. /\ req'[w] = r /\ \A v \in Workers \ {w} : req'[v] = req[v]
    BY <2>2, Moves DEF Typed
  <2>4. \A t \in Tokens : token'[t].state = "LIVE" => token'[t] = token[t]
    BY <1>0, <1>3, <2>1 DEF CodeConsume, RotateRevoke, At, TokenRow
  <2>5. \A k \in Codes : code'[k].state = "LIVE" => code[k].state = "LIVE" /\ code'[k].user = code[k].user
    BY <1>0, <1>3, <2>1 DEF CodeConsume, RotateRevoke, At, CodeRow
  <2> QED
    BY <1>0, <2>1, <2>2, <2>3, <2>4, <2>5, NobodyEnters
<1>4. ASSUME NEW w \in Workers, Issue(w) PROVE StayOut' /\ Current'
  <2>1. /\ req[w].user \in Users /\ req[w].password \in Nat
        /\ req[w].pc \in Bearers /\ req[w].pc \in AtDoor
        /\ UNCHANGED <<user, code, settled, stray>>
        /\ req'[w] = Idle /\ \A v \in Workers \ {w} : req'[v] = req[v]
    BY <1>0, <1>4, RequestFields, Moves DEF Issue, Typed, At, Bearers, AtDoor, Finish
  <2>2. PICK t \in Tokens :
          token' = [token EXCEPT ![t] =
                      [state |-> "LIVE", user |-> req[w].user, password |-> req[w].password]]
    BY <1>4 DEF Issue
  <2>3. \A s \in Tokens :
          \/ token'[s] = token[s]
          \/ token'[s].user = req[w].user /\ token'[s].password = req[w].password
    BY <1>0, <2>2
  <2>4. StayOut'
    BY <1>0, <2>1, <2>3 DEF StayOut, Outside, Typed, TypeOK
  <2>5. Current'
    BY <1>0, <2>1, <2>3 DEF Current
  <2> QED
    BY <2>4, <2>5
<1>5. ASSUME NEW w \in Workers, ChangeWrite(w) PROVE StayOut' /\ Current'
  <2>1. req[w].user \in Users /\ req[w].pc \in AtDoor
    BY <1>5, RequestFields DEF ChangeWrite, Typed, At, AtDoor
  <2>2. \A u \in Users : user'[u].password >= user[u].password /\ user'[u].active = user[u].active
    BY <1>0, <1>5, <2>1 DEF ChangeWrite, UserRow
  <2>3. PICK r \in Request : Goto(w, r) /\ r = [pc |-> "change_revoke", user |-> req[w].user]
    BY <1>5, <2>1 DEF ChangeWrite, Request, DoorRequest
  <2>4. /\ req'[w] = r /\ (\A v \in Workers \ {w} : req'[v] = req[v])
        /\ UNCHANGED <<code, token, settled, stray>>
    BY <1>5, <2>3, Moves DEF Typed, ChangeWrite, History
  <2> QED
    BY <1>0, <2>1, <2>2, <2>3, <2>4, NobodyEnters DEF Bearers
<1>6. ASSUME NEW w \in Workers, NEW u \in Visitors,
             OtpRead(w, u) \/ PasswordRead(w, u) \/ ChangeRead(w, u)
      PROVE  StayOut' /\ Current'
  <2>1. ~Outside(u) /\ UNCHANGED <<Tables, settled, stray>>
    BY <1>6 DEF OtpRead, MayBeSent, PasswordRead, ChangeRead, Outside, History
  <2>2. PICK r \in Request : Goto(w, r) /\ r.user = u /\ (r.pc \in Bearers => r.password = user[u].password)
    BY <1>0, <1>6 DEF OtpRead, PasswordRead, ChangeRead, Request, DoorRequest, Bearers
  <2>3. user[u].password >= settled[u]
    BY <1>0 DEF Current
  <2> QED
    BY <1>0, <2>1, <2>2, <2>3, SomebodyEnters
<1>7. ASSUME NEW w \in Workers, NEW u \in Visitors, VerifyRead(w, u) PROVE StayOut' /\ Current'
  <2>1. PICK k \in Challenge(u) :
          /\ code[k].state # "EXPIRED"
          /\ \/ Goto(w, [pc |-> "code_consume", user |-> u, proof |-> k, password |-> user[u].password])
             \/ Goto(w, [pc |-> "code_count", user |-> u, proof |-> k, attempts |-> code[k].attempts])
    BY <1>7 DEF VerifyRead
  <2>2. k \in Codes /\ code[k].attempts \in Nat /\ code[k].state = "LIVE" /\ code[k].user = u
    BY <1>0, <2>1, ChallengeTypes DEF Typed
  <2>3. ~Outside(u) /\ UNCHANGED <<Tables, settled, stray>>
    BY <1>7, <2>2 DEF VerifyRead, Outside
  <2>4. PICK r \in Request : Goto(w, r) /\ r.user = u /\ (r.pc \in Bearers => r.password = user[u].password)
    BY <1>0, <2>1, <2>2 DEF Request, DoorRequest, Bearers
  <2>5. user[u].password >= settled[u]
    BY <1>0 DEF Current
  <2> QED
    BY <1>0, <2>3, <2>4, <2>5, SomebodyEnters
<1>8. ASSUME NEW w \in Workers, NEW t \in Tokens, RotateRead(w, t) PROVE StayOut' /\ Current'
  <2>1. PICK u \in Users : u = token[t].user
    BY <1>8 DEF RotateRead, Renewable, Typed, OnFileOnly
  <2>2. token[t].state = "LIVE" /\ token[t].password \in Nat
    BY <1>0, <1>8 DEF RotateRead, Renewable, TokenRow
  <2>3. ~Outside(u) /\ UNCHANGED <<Tables, settled, stray>>
    BY <1>8, <2>1, <2>2 DEF RotateRead, Outside
  <2>4. PICK r \in Request : Goto(w, r) /\ r.user = u /\ r.password = token[t].password
    BY <1>8, <2>1, <2>2 DEF RotateRead, Request, DoorRequest
  <2>5. u \notin stray => token[t].password >= settled[u]
    BY <2>1, <2>2 DEF Current
  <2> QED
    BY <2>3, <2>4, <2>5, SomebodyEnters
<1>9. ASSUME NEW k \in Codes, CodeExpires(k) PROVE StayOut' /\ Current'
  <2>1. \A c \in Codes : code'[c].state = "LIVE" => code'[c] = code[c]
    BY <1>0, <1>9 DEF CodeExpires, CodeRow
  <2> QED
    BY <1>0, <1>9, <2>1, NobodyEnters DEF CodeExpires, History
<1>10. ASSUME NEW t \in Tokens, SignOut(t) \/ TokenExpires(t) PROVE StayOut' /\ Current'
  <2>1. \A s \in Tokens : token'[s].state = "LIVE" => token'[s] = token[s]
    BY <1>0, <1>10 DEF SignOut, TokenExpires, TokenRow
  <2> QED
    BY <1>0, <1>10, <2>1, NobodyEnters DEF SignOut, TokenExpires, History
<1>11. ASSUME NEW w \in Workers, ChangeRevoke(w) PROVE StayOut' /\ Current'
  <2>1. PICK u \in Users : u = req[w].user
    BY <1>11, RequestFields DEF ChangeRevoke, Typed
  <2>2. PICK r \in Request : /\ Goto(w, r) /\ r.user = u /\ r.password = user[u].password
    BY <1>0, <1>11, <2>1 DEF ChangeRevoke, Request, DoorRequest
  <2>3. /\ req'[w] = r /\ (\A v \in Workers \ {w} : req'[v] = req[v])
        /\ UNCHANGED <<user, code>> /\ EndSessions(w, u) /\ req[w].pc \in AtDoor
        /\ settled' = [settled EXCEPT ![u] = user[u].password]
    BY <1>11, <2>1, <2>2, Moves DEF Typed, ChangeRevoke, At, AtDoor
  <2>4. StayOut'
    <3>1. \A x \in withdrawn \ stray' : Outside(x) /\ x # u
      BY <2>1, <2>3, EndingPutsOut DEF StayOut, Outside
    <3> QED
      BY <2>2, <2>3, <3>1, EndingPutsOut DEF StayOut, Outside
  <2>5. Current'
    <3>1. \A x \in Users : user'[x].password >= settled'[x]
      BY <1>0, <2>3 DEF Current
    <3>2. \A x \in Users \ stray', t \in Tokens :
            token'[t].state = "LIVE" /\ token'[t].user = x => token'[t].password >= settled'[x]
      BY <1>0, <2>3, EndingPutsOut DEF Current
    <3>3. \A x \in Users \ stray', v \in Workers :
            req'[v].pc \in Bearers /\ req'[v].user = x => req'[v].password >= settled'[x]
      <4>1. ASSUME NEW x \in Users \ stray', NEW v \in Workers, req'[v].pc \in Bearers, req'[v].user = x
            PROVE  req'[v].password >= settled'[x]
        <5>1. CASE v = w
          BY <1>0, <2>2, <2>3, <4>1, <5>1
        <5>2. CASE v # w
          <6>1. req'[v] = req[v] /\ x # u /\ x \notin stray
            BY <1>0, <2>3, <4>1, <5>2, EndingPutsOut
          <6> QED
            BY <1>0, <2>3, <4>1, <6>1 DEF Current
        <5> QED
          BY <5>1, <5>2
      <4> QED
        BY <4>1
    <3> QED
      BY <3>1, <3>2, <3>3 DEF Current
  <2> QED
    BY <2>4, <2>5
<1> QED
  BY <1>1, <1>2, <1>3, <1>4, <1>5, <1>6, <1>7, <1>8, <1>9, <1>10, <1>11 DEF DoorsNext

\* Every statement of the team screen does, and every crash.
LEMMA TeamKeepsOut ==
  ASSUME Typed, Typed', StayOut, Current,
         \/ AddPerson
         \/ \E w \in Workers :
              \/ EditCount(w) \/ EditWrite(w)
              \/ SwitchCount(w) \/ SwitchWrite(w) \/ SwitchRevoke(w)
              \/ Crash(w)
         \/ \E w \in Managers, u \in Users :
              \/ \E r \in Roles \cup {None} : EditRead(w, u, r)
              \/ \E on \in BOOLEAN : SwitchRead(w, u, on)
  PROVE  StayOut' /\ Current'
<1>0. /\ user \in [Users -> UserRow] /\ settled \in [Users -> Nat] /\ req \in [Workers -> Request]
      /\ \A u \in Users : user[u].password \in Nat /\ user[u].active \in BOOLEAN
      /\ withdrawn \subseteq Users /\ Managers \subseteq Workers /\ Bearers \subseteq AtDoor
  BY ManagersServe DEF Typed, TypeOK, UserRow, Bearers, AtDoor
<1>1. ASSUME NEW w \in Workers,
             \/ EditCount(w) \/ EditWrite(w) \/ SwitchCount(w) \/ SwitchWrite(w) \/ SwitchRevoke(w)
             \/ Crash(w)
             \/ \E u \in Users, r \in Roles \cup {None} : EditRead(w, u, r)
             \/ \E u \in Users, on \in BOOLEAN : SwitchRead(w, u, on)
      PROVE  req'[w].pc \notin AtDoor /\ \A v \in Workers \ {w} : req'[v] = req[v]
  <2>1. PICK r \in Request : Goto(w, r) /\ r.pc \notin AtDoor
    BY <1>1, TeamMoves
  <2> QED
    BY <2>1, Moves DEF Typed
<1>2. CASE AddPerson
  <2>1. PICK u \in Users : /\ ~Exists(u)
                           /\ \A x \in Users \ {u} : user'[x] = user[x]
                           /\ user'[u].password = 0
    BY <1>0, <1>2 DEF AddPerson
  <2>2. u \notin withdrawn /\ settled[u] = 0
    BY <2>1 DEF Typed, OnFileOnly
  <2>3. UNCHANGED <<code, token, req, settled, stray, withdrawn>>
    BY <1>2 DEF AddPerson, History
  <2> QED
    BY <1>0, <2>1, <2>2, <2>3 DEF StayOut, Outside, Current
<1>3. ASSUME NEW w \in Workers, EditWrite(w) PROVE StayOut' /\ Current'
  <2>1. req[w].user \in Users
    BY <1>3, RequestFields DEF EditWrite, Typed
  <2>2. \A u \in Users : user'[u].password = user[u].password /\ user'[u].active = user[u].active
    BY <1>0, <1>3, <2>1 DEF EditWrite, UserRow
  <2>3. /\ UNCHANGED <<code, token, settled, stray, withdrawn>>
        /\ req'[w].pc \notin AtDoor /\ \A v \in Workers \ {w} : req'[v] = req[v]
    BY <1>1, <1>3 DEF EditWrite, History
  <2> QED
    BY <1>0, <2>2, <2>3, NobodyEnters
<1>4. ASSUME NEW w \in Workers,
             \/ EditCount(w) \/ SwitchCount(w) \/ Crash(w)
             \/ \E u \in Users, r \in Roles \cup {None} : EditRead(w, u, r)
             \/ \E u \in Users, on \in BOOLEAN : SwitchRead(w, u, on)
      PROVE  StayOut' /\ Current'
  <2>1. UNCHANGED <<user, code, token, settled, stray, withdrawn>>
    BY <1>4 DEF EditCount, SwitchCount, Crash, EditRead, SwitchRead, Tables, History
  <2> QED
    BY <1>0, <1>1, <1>4, <2>1, NobodyEnters
<1>5. ASSUME NEW w \in Workers, SwitchWrite(w) PROVE StayOut' /\ Current'
  <2>1. PICK u \in Users : u = req[w].user
    BY <1>5, RequestFields DEF SwitchWrite, Typed
  <2>2. /\ \A x \in Users : user'[x].password = user[x].password
        /\ \A x \in Users \ {u} : user'[x] = user[x]
        /\ user'[u].active = req[w].active
        /\ UNCHANGED <<code, token, settled, stray>>
    BY <1>0, <1>5, <2>1 DEF SwitchWrite, UserRow, History
  <2>3. /\ withdrawn' \subseteq withdrawn
        /\ u \in withdrawn' => ~req[w].active
    BY <1>5, <2>1 DEF SwitchWrite
  <2>4. StayOut'
    BY <1>0, <1>1, <1>5, <2>2, <2>3 DEF StayOut, Outside
  <2>5. Current'
    BY <1>0, <1>1, <1>5, <2>2 DEF Current
  <2> QED
    BY <2>4, <2>5
<1>6. ASSUME NEW w \in Workers, SwitchRevoke(w) PROVE StayOut' /\ Current'
  <2>1. PICK u \in Users : u = req[w].user
    BY <1>6, RequestFields DEF SwitchRevoke, Typed
  <2>2. /\ EndSessions(w, u) /\ UNCHANGED <<user, code, settled>>
        /\ withdrawn' = IF user[u].active THEN withdrawn ELSE withdrawn \cup {u}
    BY <1>6, <2>1 DEF SwitchRevoke
  <2>3. StayOut'
    <3>1. ASSUME NEW x \in withdrawn' \ stray' PROVE Outside(x)'
      <4>1. CASE x = u /\ ~user[u].active
        BY <1>1, <1>6, <2>2, <3>1, <4>1, EndingPutsOut DEF Outside
      <4>2. CASE x # u \/ user[u].active
        <5>1. Outside(x)
          BY <2>2, <3>1, <4>2, EndingPutsOut DEF StayOut
        <5> QED
          BY <1>1, <1>6, <2>2, <5>1, EndingPutsOut DEF Outside
      <4> QED
        BY <4>1, <4>2
    <3> QED
      BY <3>1 DEF StayOut
  <2>4. Current'
    BY <1>0, <1>1, <1>6, <2>2, EndingPutsOut DEF Current
  <2> QED
    BY <2>3, <2>4
<1> QED
  BY <1>0, <1>2, <1>3, <1>4, <1>5, <1>6

\* Every step keeps both.
LEMMA NextKeepsOut ==
  Typed /\ Typed' /\ StayOut /\ Current /\ [Next]_vars => StayOut' /\ Current'
<1>1. Typed /\ StayOut /\ Current /\ UNCHANGED vars => StayOut' /\ Current'
  BY DEF vars, StayOut, Current, Outside, History
<1> QED
  BY <1>1, DoorsKeepOut, TeamKeepsOut DEF Next

\* Once it was answered that a person is off, nothing renews their sessions, and nobody is on
\* their way in, until they are on again: whoever is let in was active when it was looked at.
THEOREM WithdrawnStayOut == Spec => []WithdrawnIsOut
<1>1. Init => StayOut /\ Current
  BY DEF Init, DoorsInit, StayOut, Current, Idle, Bearers
<1>2. StayOut => WithdrawnIsOut
  BY DEF StayOut, Outside, WithdrawnIsOut, LiveTokens
<1> QED
  BY <1>1, <1>2, NextKeepsOut, TypeCorrect, PTL DEF Spec

\* A new password ends what was opened under the old one: whatever is live, and whatever is on
\* its way in, was proven under the password last chosen or a later one.
THEOREM ChangesAlwaysEndOthers == Spec => []ChangeEndsOthers
<1>1. Init => StayOut /\ Current
  BY DEF Init, DoorsInit, StayOut, Current, Idle, Bearers
<1>2. Current => ChangeEndsOthers
  BY DEF Current, ChangeEndsOthers, LiveTokens
<1> QED
  BY <1>1, <1>2, NextKeepsOut, TypeCorrect, PTL DEF Spec
=============================================================================
