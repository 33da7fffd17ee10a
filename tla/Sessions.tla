------------------------------- MODULE Sessions -------------------------------
(***************************************************************************)
(* Users and their sessions.  A token repeats the user's session version;  *)
(* a password change and a deactivation raise the version, so every older  *)
(* token is refused from then on.                                          *)
(*                                                                         *)
(* A request is at least two transactions in one database session: one     *)
(* that authenticates it, and the one of its command.  A user row read by  *)
(* the first would still be in the session, unrefreshed, when the second   *)
(* locks it, had the first not removed it.                                 *)
(***************************************************************************)
EXTENDS Integers, FiniteSets

CONSTANTS
  Users, Emails, Passwords,
  Requests,
  NoUser,   \* the row of a user not yet created, and what an idle request holds
  Budgets   \* bounds: a behaviour has one of these budgets of logins, of admitted
            \* requests, of changes to users and of commands on notes

ASSUME SessionsAssumption ==
  /\ IsFiniteSet(Users) /\ Users # {}
  /\ Budgets \subseteq [{"logins", "requests", "changes", "notes"} -> Nat]

Roles == {"VENDEDOR", "SUPERVISOR"}
UserRows == [email : Emails, password : Passwords, role : Roles, active : BOOLEAN,
             version : Nat \ {0}]
\* since: how often the user's sessions had been revoked when the row was read
Tokens == [user : Users, version : Nat \ {0}, since : Nat]

ASSUME NoUserAssumption == NoUser \notin UserRows \cup Users \cup Tokens

VARIABLES
  users,    \* the User rows
  tokens,   \* the tokens issued and not expired
  request,  \* per request: what it does, the token it works for, and the user
            \* row it has read
  budget,   \* what is left of the bounds
  revoked   \* how often the sessions of a user were revoked: every committed
            \* password change and deactivation

sessionVars == <<users, tokens, request, budget, revoked>>

Idle == [step |-> "idle", token |-> NoUser, read |-> NoUser]

Init ==
  /\ users \in [Users -> [email : Emails, password : Passwords, role : Roles, active : BOOLEAN,
                         version : {1}] \cup {NoUser}]
  /\ \E u \in Users : users[u] # NoUser /\ users[u].role = "SUPERVISOR" /\ users[u].active
  /\ \A u, v \in Users : u # v /\ users[u] # NoUser /\ users[v] # NoUser =>
       users[u].email # users[v].email
  /\ tokens = {}
  /\ request = [q \in Requests |-> Idle]
  /\ budget \in Budgets
  /\ revoked = [u \in Users |-> 0]

Spend(bound) == budget[bound] > 0 /\ budget' = [budget EXCEPT ![bound] = @ - 1]
Exists(u) == users[u] # NoUser

-----------------------------------------------------------------------------
(* Logging in and being authenticated.                                     *)

\* authenticate: one reading of the row decides; the password is verified
\* without a lock, so the row may change before the token is made of it.
Login(q, email, password) ==
  /\ request[q].step = "idle" /\ Spend("logins")
  /\ \E u \in {v \in Users : Exists(v)} :
       /\ users[u].email = email /\ users[u].password = password /\ users[u].active
       /\ request' = [request EXCEPT ![q] =
            [step |-> "login", read |-> users[u],
             token |-> [user |-> u, version |-> users[u].version, since |-> revoked[u]]]]
  /\ UNCHANGED <<users, tokens, revoked>>

\* create_access_token
IssueToken(q) ==
  /\ request[q].step = "login"
  /\ tokens' = tokens \cup {request[q].token}
  /\ request' = [request EXCEPT ![q] = Idle]
  /\ UNCHANGED <<users, budget, revoked>>

\* A token is past its exp.
Expire(t) == tokens' = tokens \ {t} /\ UNCHANGED <<users, request, budget, revoked>>

\* What get_current_user accepts.
Accepted(t) == Exists(t.user) /\ users[t.user].active /\ users[t.user].version = t.version

\* get_current_user
Admit(q, t) ==
  /\ request[q].step = "idle" /\ Accepted(t) /\ Spend("requests")
  /\ request' = [request EXCEPT ![q] =
                   [step |-> "admitted", token |-> t, read |-> users[t.user]]]
  /\ UNCHANGED <<users, tokens, revoked>>

\* The request ends: answered, refused or failed.
End(q) ==
  /\ request[q].step = "admitted" /\ request' = [request EXCEPT ![q] = Idle]
  /\ UNCHANGED <<users, tokens, budget, revoked>>

-----------------------------------------------------------------------------
(* UserService                                                             *)

\* require_supervisor: the role that was read when the request was authenticated.
Supervises(q) == request[q].step = "admitted" /\ request[q].read.role = "SUPERVISOR"
Taken(email, u) == \E v \in Users \ {u} : Exists(v) /\ users[v].email = email

CreateUser(q, u, email, password, role) ==
  /\ Supervises(q) /\ ~Exists(u) /\ ~Taken(email, u) /\ Spend("changes")
  /\ users' = [users EXCEPT ![u] = [email |-> email, password |-> password, role |-> role,
                                    active |-> TRUE, version |-> 1]]
  /\ request' = [request EXCEPT ![q] = Idle]
  /\ UNCHANGED <<tokens, revoked>>

\* Mutant: get_current_user leaves the row it read in the session
RowStillLoaded(q, u) == IF request[q].token.user = u THEN request[q].read ELSE users[u]
\* The row SELECT ... FOR UPDATE yields: get_current_user expunged what it read.
Locked(q, u) == users[u]

VersionAfterUpdate(row, active) == IF row.active /\ ~active THEN row.version + 1 ELSE row.version

\* update_user; a field that is not in the request keeps its value.
UpdateUser(q, u, email, role, active) ==
  /\ Supervises(q) /\ Exists(u) /\ ~Taken(email, u) /\ Spend("changes")
  /\ LET row == Locked(q, u) IN
     /\ users' = [users EXCEPT ![u] = [@ EXCEPT !.email = email, !.role = role, !.active = active,
                                                !.version = VersionAfterUpdate(row, active)]]
     /\ revoked' = [revoked EXCEPT ![u] = IF users[u].active /\ ~active THEN @ + 1 ELSE @]
  /\ request' = [request EXCEPT ![q] = Idle]
  /\ UNCHANGED tokens

\* _apply_password_change
WithPassword(row, password, current) ==
  [current EXCEPT !.password = password, !.version = row.version + 1]

\* change_password
ChangePassword(q, u, password) ==
  /\ Supervises(q) /\ Exists(u) /\ Spend("changes")
  /\ users' = [users EXCEPT ![u] = WithPassword(Locked(q, u), password, @)]
  /\ revoked' = [revoked EXCEPT ![u] = @ + 1]
  /\ request' = [request EXCEPT ![q] = Idle]
  /\ UNCHANGED tokens

\* reset_user_password: the script's first reading of the user is rolled back,
\* so the row change_password_by_email locks is a fresh one.
ResetPassword(email, password) ==
  /\ Spend("changes")
  /\ \E u \in {v \in Users : Exists(v)} :
       /\ users[u].email = email
       /\ users' = [users EXCEPT ![u] = WithPassword(users[u], password, @)]
       /\ revoked' = [revoked EXCEPT ![u] = @ + 1]
  /\ UNCHANGED <<tokens, request>>

SessionStep(q) ==
  \/ \E email \in Emails, password \in Passwords : Login(q, email, password)
  \/ IssueToken(q)
  \/ \E t \in tokens : Admit(q, t)
  \/ End(q)

UserStep(q) ==
  \E u \in Users :
    \/ \E email \in Emails, password \in Passwords, role \in Roles :
         CreateUser(q, u, email, password, role)
    \/ \E email \in Emails, role \in Roles, active \in BOOLEAN :
         UpdateUser(q, u, email, role, active)
    \/ \E password \in Passwords : ChangePassword(q, u, password)

Next ==
  \/ \E q \in Requests : SessionStep(q) \/ UserStep(q)
  \/ \E t \in tokens : Expire(t)
  \/ \E email \in Emails, password \in Passwords : ResetPassword(email, password)

Spec == Init /\ [][Next]_sessionVars

-----------------------------------------------------------------------------
SessionsTypeOK ==
  /\ users \in [Users -> UserRows \cup {NoUser}]
  /\ tokens \in SUBSET Tokens
  /\ request \in [Requests -> [step : {"idle", "login", "admitted"},
                               token : Tokens \cup {NoUser}, read : UserRows \cup {NoUser}]]
  /\ \A q \in Requests : request[q].step # "idle" => request[q].token # NoUser
                                                     /\ request[q].read # NoUser
  /\ budget \in [{"logins", "requests", "changes", "notes"} -> Nat]
  /\ revoked \in [Users -> Nat]

\* The tokens that exist and those a login still holds.
Outstanding == tokens \cup {request[q].token : q \in {p \in Requests : request[p].step = "login"}}

\* A token that would be accepted now is one of the user's present sessions: no
\* password change and no deactivation has been committed since the row it was
\* made of was read, whatever logins and commands overlapped with it and even
\* when the user was activated again (get_current_user, update_user,
\* _apply_password_change).
NoRevokedSession == \A t \in Outstanding : Accepted(t) => t.since = revoked[t.user]
=============================================================================
