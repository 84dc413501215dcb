------------------------------ MODULE Accounts ------------------------------
(***************************************************************************)
(* The team screen, over the rows the doors of SignIn read: adding a        *)
(* person, editing one, switching one on and off.                           *)
(*                                                                         *)
(* The caller's role is a claim of a token up to fifteen minutes old, so    *)
(* whoever was an owner may call; the caller matters to one check only,     *)
(* that nobody switches themselves off.  Name, email, phone, level, skills  *)
(* and localities are columns no handler here decides on.                   *)
(***************************************************************************)
EXTENDS SignIn

CONSTANT Managers     \* the workers that serve the team screen

ASSUME ManagersServe == Managers \subseteq Workers

VARIABLE withdrawn    \* history: people whose switching-off was answered

vars == <<user, code, token, req, bought, shared, settled, stray, withdrawn>>

TeamRequest ==
    [pc : {"edit_count", "edit_write"}, user : Users, role : Roles]
    \cup [pc : {"switch_count", "switch_write", "switch_revoke"}, user : Users, active : BOOLEAN]

Request == {Idle} \cup DoorRequest \cup TeamRequest

ActiveOwners == {u \in Users : user[u].role = "owner" /\ user[u].active}

-----------------------------------------------------------------------------
(* POST /people                                                             *)

AddPerson ==
    /\ \E u \in Users, r \in Roles :
        /\ ~Exists(u)
        /\ user' = [user EXCEPT ![u] = [role |-> r, active |-> TRUE, password |-> 0]]
    /\ UNCHANGED <<code, token, req, History, withdrawn>>
-----------------------------------------------------------------------------
(* PATCH /people/:id                                                        *)

\* A patch that does not name the role writes back the one it read.
Written(u, r) == IF r = None THEN user[u].role ELSE r

Demotes(u, r) == r # None /\ r # "owner" /\ user[u].role = "owner"

EditRead(w, u, r) ==
    /\ req[w] = Idle
    /\ Exists(u)
    /\ Goto(w, [pc |-> IF Demotes(u, r) THEN "edit_count" ELSE "edit_write",
                user |-> u, role |-> Written(u, r)])
    /\ UNCHANGED <<Tables, History, withdrawn>>

\* The count of the other active owners.
OthersOwn(u) == ActiveOwners \ {u} # {}

EditCount(w) ==
    /\ At(w, "edit_count")
    /\ IF OthersOwn(req[w].user) THEN Goto(w, [req[w] EXCEPT !.pc = "edit_write"]) ELSE Finish(w)
    /\ UNCHANGED <<Tables, History, withdrawn>>

EditWrite(w) ==
    /\ At(w, "edit_write")
    /\ user' = [user EXCEPT ![req[w].user].role = req[w].role]
    /\ Finish(w)
    /\ UNCHANGED <<code, token, History, withdrawn>>
-----------------------------------------------------------------------------
(* POST /people/:id/active                                                  *)

SwitchRead(w, u, on) ==
    /\ req[w] = Idle
    /\ Exists(u)
    /\ on \/ Users \ {u} # {}           \* nobody switches themselves off
    /\ Goto(w, [pc |-> IF ~on /\ user[u].role = "owner" THEN "switch_count" ELSE "switch_write",
                user |-> u, active |-> on])
    /\ UNCHANGED <<Tables, History, withdrawn>>

SwitchCount(w) ==
    /\ At(w, "switch_count")
    /\ IF OthersOwn(req[w].user) THEN Goto(w, [req[w] EXCEPT !.pc = "switch_write"]) ELSE Finish(w)
    /\ UNCHANGED <<Tables, History, withdrawn>>

SwitchWrite(w) ==
    /\ At(w, "switch_write")
    /\ user' = [user EXCEPT ![req[w].user].active = req[w].active]
    /\ IF req[w].active
       THEN Finish(w) /\ withdrawn' = withdrawn \ {req[w].user}
       ELSE Goto(w, [req[w] EXCEPT !.pc = "switch_revoke"]) /\ UNCHANGED withdrawn
    /\ UNCHANGED <<code, token, History>>

SwitchRevoke(w) ==
    LET u == req[w].user IN
    /\ At(w, "switch_revoke")
    /\ EndSessions(w, u)
    /\ withdrawn' = IF user[u].active THEN withdrawn ELSE withdrawn \cup {u}
    /\ Finish(w)
    /\ UNCHANGED <<user, code, bought, shared, settled>>
-----------------------------------------------------------------------------
Crash(w) ==
    /\ req[w] # Idle
    /\ Finish(w)
    /\ UNCHANGED <<Tables, History, withdrawn>>

Init ==
    /\ DoorsInit
    /\ withdrawn = {}

Next ==
    \/ DoorsNext /\ UNCHANGED withdrawn
    \/ AddPerson
    \/ \E w \in Workers :
        \/ EditCount(w) \/ EditWrite(w)
        \/ SwitchCount(w) \/ SwitchWrite(w) \/ SwitchRevoke(w)
        \/ Crash(w)
    \/ \E w \in Managers, u \in Users :
        \/ \E r \in Roles \cup {None} : EditRead(w, u, r)
        \/ \E on \in BOOLEAN : SwitchRead(w, u, on)

Spec == Init /\ [][Next]_vars
-----------------------------------------------------------------------------
(* Types of the tables and of the requests in flight.                       *)
TypeOK ==
    /\ user \in [Users -> UserRow]
    /\ code \in [Codes -> CodeRow]
    /\ token \in [Tokens -> TokenRow]
    /\ req \in [Workers -> Request]
    /\ bought \in [Proofs -> Nat]
    /\ shared \subseteq Proofs
    /\ settled \in [Users -> Nat]
    /\ stray \subseteq Users
    /\ withdrawn \subseteq Users

\* A code or a refresh token is exchanged for one session, whatever crashes and whatever is
\* sent, expires or is revoked in between, unless two requests held it at the same time
\* (verifyOtp and rotateRefresh spend it by id, in a statement after the one that read it).
SpentOnce == \A p \in Proofs \ shared : bought[p] <= 1

\* Once the switching-off of a person has been answered, nothing is left that renews a session
\* of theirs until they are switched on again, unless they were on their way in, with a code or
\* a request under way, as their sessions were ended (/:id/active, requestOtp, rotateRefresh).
WithdrawnIsOut == \A u \in withdrawn \ stray : LiveTokens(u) = {}

\* Once a person's new password has ended their other sessions, every live token was proven
\* under that password or a later one, with the same exception (changeOwnPassword).
ChangeEndsOthers ==
    \A u \in Users \ stray : \A t \in LiveTokens(u) : token[t].password >= settled[u]

\* The firm has an owner who can sign in, however edits, switches and crashes follow each
\* other (PATCH /:id, POST /:id/active).  It is kept by one manager at a time and not by two:
\* each count still sees the owner the other is about to remove.
FirmKeepsOwner == ActiveOwners # {}
=============================================================================
