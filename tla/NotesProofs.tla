------------------------------ MODULE NotesProofs ------------------------------
(***************************************************************************)
(* Theorems of Sessions and Notes for every number of users, requests,     *)
(* opportunities and commands: a token that is accepted is not revoked,    *)
(* revisions are chained, answers belong to their commands, and pages are  *)
(* complete.                                                               *)
(***************************************************************************)
EXTENDS Notes, Inductions, SequenceTheorems

\* No outstanding token is ahead of its user, and one that is not behind either
\* has seen every revocation.
VersionsOK ==
  \A t \in Outstanding :
    /\ Exists(t.user)
    /\ t.version <= users[t.user].version
    /\ t.version = users[t.user].version => t.since = revoked[t.user]

SInv == SessionsTypeOK /\ VersionsOK

-----------------------------------------------------------------------------
(* Sessions                                                                *)

LEMMA OutstandingType ==
  ASSUME SessionsTypeOK
  PROVE  Outstanding \subseteq Tokens
BY DEF SessionsTypeOK, Outstanding

LEMMA RowType ==
  ASSUME SessionsTypeOK, NEW u \in Users, Exists(u)
  PROVE  users[u] \in UserRows
BY DEF SessionsTypeOK, Exists

LEMMA BudgetType ==
  ASSUME SessionsTypeOK, NEW b \in {"logins", "requests", "changes", "notes"}, Spend(b)
  PROVE  budget' \in [{"logins", "requests", "changes", "notes"} -> Nat]
BY DEF SessionsTypeOK, Spend

\* A request that ends issues nothing.
LEMMA ToIdle ==
  ASSUME SessionsTypeOK, NEW q \in Requests, request' = [request EXCEPT ![q] = Idle],
         UNCHANGED tokens
  PROVE  /\ request' \in [Requests -> [step : {"idle", "login", "admitted"},
                               token : Tokens \cup {NoUser}, read : UserRows \cup {NoUser}]]
         /\ \A p \in Requests : request'[p].step # "idle" => request'[p].token # NoUser
                                                             /\ request'[p].read # NoUser
         /\ Outstanding' \subseteq Outstanding
BY DEF SessionsTypeOK, Idle, Outstanding

LEMMA LoginStep ==
  ASSUME SInv, NEW q \in Requests, NEW email \in Emails, NEW password \in Passwords,
         Login(q, email, password)
  PROVE  SInv'
<1>1. PICK u \in Users :
        /\ Exists(u)
        /\ request' = [request EXCEPT ![q] =
             [step |-> "login", read |-> users[u],
              token |-> [user |-> u, version |-> users[u].version, since |-> revoked[u]]]]
  BY DEF Login
<1>2. UNCHANGED <<users, tokens, revoked>> /\ Spend("logins")
  BY DEF Login
<1> DEFINE t == [user |-> u, version |-> users[u].version, since |-> revoked[u]]
<1>3. users[u] \in UserRows /\ users[u].version \in Nat \ {0} /\ revoked[u] \in Nat
  BY <1>1, RowType DEF SInv, SessionsTypeOK, UserRows
<1>4. t \in Tokens /\ t # NoUser /\ users[u] # NoUser
  BY <1>3, NoUserAssumption DEF Tokens
<1>5. t.user = u /\ t.version = users[u].version /\ t.since = revoked[u]
  OBVIOUS
<1> HIDE DEF t
<1>6. request' = [request EXCEPT ![q] = [step |-> "login", read |-> users[u], token |-> t]]
  BY <1>1 DEF t
<1>7. SessionsTypeOK'
  BY <1>2, <1>3, <1>4, <1>6, BudgetType DEF SInv, SessionsTypeOK
<1>8. Outstanding' \subseteq Outstanding \cup {t}
  BY <1>2, <1>6 DEF Outstanding, SInv, SessionsTypeOK
<1>9. VersionsOK'
  BY <1>1, <1>2, <1>3, <1>5, <1>8 DEF SInv, VersionsOK, Exists
<1> QED BY <1>7, <1>9 DEF SInv

LEMMA SessionSteps ==
  ASSUME SInv, NEW q \in Requests, SessionStep(q)
  PROVE  SInv'
<1>1. CASE \E email \in Emails, password \in Passwords : Login(q, email, password)
  BY <1>1, LoginStep
<1>2. CASE IssueToken(q)
  <2>1. /\ tokens' = tokens \cup {request[q].token}
        /\ request' = [request EXCEPT ![q] = Idle]
        /\ UNCHANGED <<users, budget, revoked>> /\ request[q].step = "login"
    BY <1>2 DEF IssueToken
  <2>2. request[q].token \in Tokens /\ request[q].token \in Outstanding
    BY <2>1 DEF SInv, SessionsTypeOK, Outstanding
  <2>3. SessionsTypeOK'
    BY <2>1, <2>2 DEF SInv, SessionsTypeOK, Idle
  <2>4. Outstanding' \subseteq Outstanding
    BY <2>1, <2>2 DEF SInv, SessionsTypeOK, Outstanding, Idle
  <2>5. VersionsOK'
    BY <2>1, <2>4 DEF SInv, VersionsOK, Exists
  <2> QED BY <2>3, <2>5 DEF SInv
<1>3. CASE \E t \in tokens : Admit(q, t)
  <2>1. PICK t \in tokens :
          /\ Accepted(t) /\ UNCHANGED <<users, tokens, revoked>> /\ Spend("requests")
          /\ request' = [request EXCEPT ![q] =
                           [step |-> "admitted", token |-> t, read |-> users[t.user]]]
    BY <1>3 DEF Admit
  <2>2. t \in Tokens /\ t # NoUser /\ users[t.user] \in UserRows /\ users[t.user] # NoUser
    BY <2>1, NoUserAssumption, RowType DEF SInv, SessionsTypeOK, Tokens, Accepted, Exists
  <2>3. SessionsTypeOK'
    BY <2>1, <2>2, BudgetType DEF SInv, SessionsTypeOK
  <2>4. Outstanding' \subseteq Outstanding
    BY <2>1 DEF SInv, SessionsTypeOK, Outstanding
  <2>5. VersionsOK'
    BY <2>1, <2>4 DEF SInv, VersionsOK, Exists
  <2> QED BY <2>3, <2>5 DEF SInv
<1>4. CASE End(q)
  <2>1. request' = [request EXCEPT ![q] = Idle] /\ UNCHANGED <<users, tokens, budget, revoked>>
    BY <1>4 DEF End
  <2>2. SessionsTypeOK'
    BY <2>1, ToIdle DEF SInv, SessionsTypeOK
  <2>3. VersionsOK'
    BY <2>1, ToIdle DEF SInv, VersionsOK, Exists
  <2> QED BY <2>2, <2>3 DEF SInv
<1> QED BY <1>1, <1>2, <1>3, <1>4 DEF SessionStep

\* A user row that changes: raised if the sessions are revoked, kept otherwise.
LEMMA RowChanges ==
  ASSUME SInv, NEW u \in Users, NEW row \in UserRows,
         users' = [users EXCEPT ![u] = row],
         Outstanding' \subseteq Outstanding, revoked' \in [Users -> Nat],
         \A v \in Users : v # u => revoked'[v] = revoked[v],
         Exists(u) => \/ row.version = users[u].version /\ revoked'[u] = revoked[u]
                      \/ row.version = users[u].version + 1
  PROVE  VersionsOK'
<1> SUFFICES ASSUME NEW t \in Outstanding'
             PROVE  /\ users'[t.user] # NoUser
                    /\ t.version <= users'[t.user].version
                    /\ t.version = users'[t.user].version => t.since = revoked'[t.user]
  BY DEF VersionsOK, Exists
<1>1. /\ t \in Outstanding /\ t \in Tokens /\ Exists(t.user)
      /\ t.version <= users[t.user].version
      /\ t.version = users[t.user].version => t.since = revoked[t.user]
      /\ users \in [Users -> UserRows \cup {NoUser}]
  BY OutstandingType DEF SInv, VersionsOK, SessionsTypeOK
<1>2. t.version \in Nat /\ t.user \in Users
  BY <1>1 DEF Tokens
<1>3. CASE t.user = u
  <2>1. users'[t.user] = row /\ row # NoUser
    BY <1>1, <1>3, NoUserAssumption
  <2>2. users[u].version \in Nat
    BY <1>1, <1>3, RowType DEF SInv, UserRows
  <2> QED BY <1>1, <1>2, <1>3, <2>1, <2>2
<1>4. CASE t.user # u
  BY <1>1, <1>2, <1>4 DEF Exists
<1> QED BY <1>3, <1>4

LEMMA UserSteps ==
  ASSUME SInv, NEW q \in Requests, UserStep(q)
  PROVE  SInv'
<1>0. users \in [Users -> UserRows \cup {NoUser}] /\ revoked \in [Users -> Nat]
  BY DEF SInv, SessionsTypeOK
<1>1. CASE \E u \in Users, email \in Emails, password \in Passwords, role \in Roles :
             CreateUser(q, u, email, password, role)
  <2>1. PICK u \in Users, email \in Emails, password \in Passwords, role \in Roles :
          CreateUser(q, u, email, password, role)
    BY <1>1
  <2> DEFINE row == [email |-> email, password |-> password, role |-> role,
                     active |-> TRUE, version |-> 1]
  <2>2. row \in UserRows
    BY DEF UserRows
  <2>3. /\ ~Exists(u) /\ users' = [users EXCEPT ![u] = row] /\ UNCHANGED <<tokens, revoked>>
        /\ request' = [request EXCEPT ![q] = Idle] /\ Spend("changes")
    BY <2>1 DEF CreateUser
  <2> HIDE DEF row
  <2>4. SessionsTypeOK'
    BY <1>0, <2>2, <2>3, ToIdle, BudgetType DEF SInv, SessionsTypeOK
  <2>5. VersionsOK'
    BY <1>0, <2>2, <2>3, ToIdle, RowChanges DEF SInv
  <2> QED BY <2>4, <2>5 DEF SInv
<1>2. CASE \E u \in Users, email \in Emails, role \in Roles, active \in BOOLEAN :
             UpdateUser(q, u, email, role, active)
  <2>1. PICK u \in Users, email \in Emails, role \in Roles, active \in BOOLEAN :
          UpdateUser(q, u, email, role, active)
    BY <1>2
  <2>2. Exists(u) /\ users[u] \in UserRows
    BY <2>1, RowType DEF UpdateUser, SInv
  <2> DEFINE lost == users[u].active /\ ~active
             row == [users[u] EXCEPT !.email = email, !.role = role, !.active = active,
                       !.version = VersionAfterUpdate(users[u], active)]
  <2>3. /\ row \in UserRows
        /\ row.version = IF lost THEN users[u].version + 1 ELSE users[u].version
    <3>1. PICK w \in Nat \ {0} : w = VersionAfterUpdate(users[u], active)
      BY <2>2 DEF UserRows, VersionAfterUpdate
    <3>2. w = IF lost THEN users[u].version + 1 ELSE users[u].version
      BY <3>1 DEF VersionAfterUpdate
    <3>3. row = [users[u] EXCEPT !.email = email, !.role = role, !.active = active, !.version = w]
      BY <3>1
    <3>4. row \in UserRows /\ row.version = w
      BY <2>2, <3>3 DEF UserRows
    <3> QED BY <3>2, <3>4
  <2>4. /\ users' = [users EXCEPT ![u] = row] /\ UNCHANGED tokens
        /\ revoked' = [revoked EXCEPT ![u] = IF lost THEN @ + 1 ELSE @]
        /\ request' = [request EXCEPT ![q] = Idle] /\ Spend("changes")
    BY <1>0, <2>1 DEF UpdateUser, Locked
  <2> HIDE DEF row
  <2>5. SessionsTypeOK'
    <3>1. users' \in [Users -> UserRows \cup {NoUser}] /\ revoked' \in [Users -> Nat]
      BY <1>0, <2>3, <2>4
    <3> QED BY <2>4, <3>1, ToIdle, BudgetType DEF SInv, SessionsTypeOK
  <2>6. VersionsOK'
    <3>1. revoked' \in [Users -> Nat] /\ \A v \in Users : v # u => revoked'[v] = revoked[v]
      BY <1>0, <2>4
    <3>2. \/ row.version = users[u].version /\ revoked'[u] = revoked[u]
          \/ row.version = users[u].version + 1
      BY <1>0, <2>3, <2>4
    <3>3. Outstanding' \subseteq Outstanding
      BY <2>4, ToIdle DEF SInv
    <3> QED BY <2>3, <2>4, <3>1, <3>2, <3>3, RowChanges
  <2> QED BY <2>5, <2>6 DEF SInv
<1>3. CASE \E u \in Users, password \in Passwords : ChangePassword(q, u, password)
  <2>1. PICK u \in Users, password \in Passwords : ChangePassword(q, u, password)
    BY <1>3
  <2>2. Exists(u) /\ users[u] \in UserRows
    BY <2>1, RowType DEF ChangePassword, SInv
  <2> DEFINE row == [users[u] EXCEPT !.password = password, !.version = users[u].version + 1]
  <2>3. row \in UserRows /\ row.version = users[u].version + 1
    <3>1. users[u] \in UserRows
      BY <2>2 DEF SInv
    <3>2. PICK w \in Nat \ {0} : w = users[u].version + 1
      BY <3>1 DEF UserRows
    <3>3. row = [users[u] EXCEPT !.password = password, !.version = w]
      BY <3>2
    <3>4. row \in UserRows /\ row.version = w
      BY <3>1, <3>3 DEF UserRows
    <3> QED BY <3>2, <3>4
  <2>4. /\ users' = [users EXCEPT ![u] = row] /\ UNCHANGED tokens
        /\ revoked' = [revoked EXCEPT ![u] = @ + 1]
        /\ request' = [request EXCEPT ![q] = Idle] /\ Spend("changes")
    BY <1>0, <2>1 DEF ChangePassword, Locked, WithPassword
  <2> HIDE DEF row
  <2>5. SessionsTypeOK'
    <3>1. users' \in [Users -> UserRows \cup {NoUser}] /\ revoked' \in [Users -> Nat]
      BY <1>0, <2>3, <2>4
    <3> QED BY <2>4, <3>1, ToIdle, BudgetType DEF SInv, SessionsTypeOK
  <2>6. VersionsOK'
    <3>1. revoked' \in [Users -> Nat] /\ \A v \in Users : v # u => revoked'[v] = revoked[v]
      BY <1>0, <2>4
    <3>2. Outstanding' \subseteq Outstanding
      BY <2>4, ToIdle DEF SInv
    <3> QED BY <2>3, <2>4, <3>1, <3>2, RowChanges
  <2> QED BY <2>5, <2>6 DEF SInv
<1> QED BY <1>1, <1>2, <1>3 DEF UserStep

LEMMA OtherSteps ==
  ASSUME SInv,
         \/ \E t \in tokens : Expire(t)
         \/ \E email \in Emails, password \in Passwords : ResetPassword(email, password)
  PROVE  SInv'
<1>0. users \in [Users -> UserRows \cup {NoUser}] /\ revoked \in [Users -> Nat]
  BY DEF SInv, SessionsTypeOK
<1>1. CASE \E t \in tokens : Expire(t)
  <2>1. tokens' \subseteq tokens /\ UNCHANGED <<users, request, budget, revoked>>
    BY <1>1 DEF Expire
  <2>2. SessionsTypeOK'
    BY <2>1 DEF SInv, SessionsTypeOK
  <2>3. Outstanding' \subseteq Outstanding
    BY <2>1 DEF Outstanding
  <2>4. VersionsOK'
    BY <2>1, <2>3 DEF SInv, VersionsOK, Exists
  <2> QED BY <2>2, <2>4 DEF SInv
<1>2. CASE \E email \in Emails, password \in Passwords : ResetPassword(email, password)
  <2>1. PICK u \in Users, password \in Passwords :
          /\ Exists(u) /\ Spend("changes") /\ UNCHANGED <<tokens, request>>
          /\ users' = [users EXCEPT ![u] = WithPassword(users[u], password, @)]
          /\ revoked' = [revoked EXCEPT ![u] = @ + 1]
    BY <1>2 DEF ResetPassword
  <2> DEFINE row == [users[u] EXCEPT !.password = password, !.version = users[u].version + 1]
  <2>2. row \in UserRows /\ row.version = users[u].version + 1
    <3>1. users[u] \in UserRows
      BY <2>1, RowType DEF SInv
    <3>2. PICK w \in Nat \ {0} : w = users[u].version + 1
      BY <3>1 DEF UserRows
    <3>3. row = [users[u] EXCEPT !.password = password, !.version = w]
      BY <3>2
    <3>4. row \in UserRows /\ row.version = w
      BY <3>1, <3>3 DEF UserRows
    <3> QED BY <3>2, <3>4
  <2>3. users' = [users EXCEPT ![u] = row]
    BY <1>0, <2>1 DEF WithPassword
  <2> HIDE DEF row
  <2>4. SessionsTypeOK'
    BY <1>0, <2>1, <2>2, <2>3, BudgetType DEF SInv, SessionsTypeOK
  <2>5. Outstanding' \subseteq Outstanding
    BY <2>1 DEF Outstanding
  <2>6. VersionsOK'
    <3>1. revoked' \in [Users -> Nat] /\ \A v \in Users : v # u => revoked'[v] = revoked[v]
      BY <1>0, <2>1
    <3> QED BY <2>2, <2>3, <2>5, <3>1, RowChanges
  <2> QED BY <2>4, <2>6 DEF SInv
<1> QED BY <1>1, <1>2

LEMMA SessionsInit ==
  ASSUME Init
  PROVE  SInv
<1>1. SessionsTypeOK
  BY SessionsAssumption DEF Init, SessionsTypeOK, UserRows, Idle
<1>2. Outstanding = {}
  BY DEF Init, Outstanding, Idle
<1> QED BY <1>1, <1>2 DEF SInv, VersionsOK

-----------------------------------------------------------------------------
(* Notes: what the rows are, and what appending one changes.               *)

NoteRows == [opportunity : Opportunities, author : Users]
Revisions ==
  [note : Nat \ {0}, number : Nat \ {0}, body : Bodies, pinned : BOOLEAN, actor : Users,
   command : CommandIds, at : Times, expected : Nat]
Answered == [command : Commands, revision : Nat \ {0}]

\* A command that may be given.
Sound(k) ==
  /\ k \in Commands
  /\ IF k.expected = 0 THEN k.body # Keep /\ k.pinned # Keep ELSE k.note \in 1..Len(notes)

NotesTypeOK ==
  /\ notes \in Seq(NoteRows) /\ Len(notes) <= MaxNotes
  /\ revisions \in Seq(Revisions)
  /\ \A i \in 1..Len(revisions) : revisions[i].note \in 1..Len(notes)
  /\ DOMAIN command = Requests
  /\ \A q \in Requests : command[q] # NoUser => Sound(command[q])
  /\ answers \subseteq Answered
  /\ \A a \in answers : a.revision \in 1..Len(revisions)

\* The number tells the revisions of a note apart.
Numbered ==
  \A i, j \in 1..Len(revisions) :
    revisions[i].note = revisions[j].note /\ revisions[i].number = revisions[j].number => i = j

NInv == NotesTypeOK /\ Numbered /\ RevisionsAreChained /\ AnswersAreOwn

LEMMA OfFinite ==
  ASSUME NotesTypeOK, NEW n
  PROVE  IsFiniteSet(Of(n)) /\ Cardinality(Of(n)) \in Nat
<1>1. Len(revisions) \in Nat
  BY DEF NotesTypeOK
<1>2. IsFiniteSet(1..Len(revisions))
  BY <1>1, FS_Interval
<1>3. Of(n) \subseteq 1..Len(revisions)
  BY DEF Of
<1> QED BY <1>2, <1>3, FS_Subset, FS_CardinalityType

LEMMA LatestIs ==
  ASSUME NInv, NEW n \in 1..Len(notes)
  PROVE  /\ Latest(n) \in Of(n) /\ Latest(n) \in 1..Len(revisions)
         /\ revisions[Latest(n)].number = Cardinality(Of(n))
         /\ Cardinality(Of(n)) \in Nat \ {0}
<1> DEFINE c == Cardinality(Of(n))
<1>1. c \in Nat
  BY OfFinite DEF NInv
<1>2. {revisions[i].number : i \in Of(n)} = 1..c /\ Of(n) # {}
  BY DEF NInv, RevisionsAreChained
<1>3. \A i \in Of(n) : revisions[i].number \in 1..c
  BY <1>2
<1>4. c # 0
  BY <1>1, <1>2, <1>3
<1> HIDE DEF c
<1>5. PICK top \in Of(n) : revisions[top].number = c
  <2>1. c \in 1..c
    BY <1>1, <1>4
  <2> QED BY <1>2, <2>1
<1>6. \A j \in Of(n) : revisions[j].number <= revisions[top].number
  BY <1>1, <1>3, <1>5
<1>7. /\ Latest(n) \in Of(n)
      /\ \A j \in Of(n) : revisions[j].number <= revisions[Latest(n)].number
  BY <1>5, <1>6 DEF Latest
<1>8. revisions[Latest(n)].number = c
  BY <1>1, <1>3, <1>5, <1>7
<1> QED BY <1>1, <1>4, <1>7, <1>8 DEF c, Of

LEMMA AppendRevision ==
  ASSUME NotesTypeOK, NEW r \in Revisions, revisions' = Append(revisions, r)
  PROVE  /\ Len(revisions') = Len(revisions) + 1 /\ Len(revisions) \in Nat
         /\ revisions' \in Seq(Revisions)
         /\ \A i \in 1..Len(revisions) : revisions'[i] = revisions[i]
         /\ revisions'[Len(revisions) + 1] = r
         /\ 1..Len(revisions') = 1..Len(revisions) \cup {Len(revisions) + 1}
         /\ \A n : Of(n)' = IF n = r.note THEN Of(n) \cup {Len(revisions) + 1} ELSE Of(n)
         /\ \A id : With(id)' = IF id = r.command THEN With(id) \cup {Len(revisions) + 1}
                                ELSE With(id)
<1>1. /\ revisions \in Seq(Revisions) /\ Len(revisions) \in Nat
      /\ Len(revisions') = Len(revisions) + 1
      /\ \A i \in 1..Len(revisions) : revisions'[i] = revisions[i]
      /\ revisions'[Len(revisions) + 1] = r
      /\ revisions' \in Seq(Revisions)
  BY DEF NotesTypeOK
<1>2. 1..Len(revisions') = 1..Len(revisions) \cup {Len(revisions) + 1}
  BY <1>1
<1>3. Len(revisions) + 1 \notin 1..Len(revisions)
  BY <1>1
<1>4. ASSUME NEW n
      PROVE  Of(n)' = IF n = r.note THEN Of(n) \cup {Len(revisions) + 1} ELSE Of(n)
  BY <1>1, <1>2, <1>3 DEF Of
<1>5. ASSUME NEW id
      PROVE  With(id)' = IF id = r.command THEN With(id) \cup {Len(revisions) + 1} ELSE With(id)
  BY <1>1, <1>2, <1>3 DEF With
<1> QED BY <1>1, <1>2, <1>4, <1>5

\* What a revision is that may be appended: the next of its note, of a new
\* command, and different from the one before.
Follows(r) ==
  /\ r.number = Cardinality(Of(r.note)) + 1 /\ r.expected + 1 = r.number
  /\ With(r.command) = {}
  /\ \A j \in Of(r.note) : revisions[j].number = r.expected =>
       r.body # revisions[j].body \/ r.pinned # revisions[j].pinned

LEMMA AppendChains ==
  ASSUME NInv, NEW r \in Revisions, revisions' = Append(revisions, r), Follows(r),
         Len(notes') \in Nat,
         \A n \in 1..Len(notes') : n \in 1..Len(notes) \/ n = r.note,
         r.note \notin 1..Len(notes) => Of(r.note) = {}
  PROVE  Numbered' /\ RevisionsAreChained'
<1> DEFINE L == Len(revisions)
<1>1. /\ Len(revisions') = L + 1 /\ L \in Nat
      /\ \A i \in 1..L : revisions'[i] = revisions[i]
      /\ revisions'[L + 1] = r
      /\ 1..Len(revisions') = 1..L \cup {L + 1}
      /\ \A n : Of(n)' = IF n = r.note THEN Of(n) \cup {L + 1} ELSE Of(n)
      /\ \A id : With(id)' = IF id = r.command THEN With(id) \cup {L + 1} ELSE With(id)
  BY AppendRevision DEF NInv
<1>2. \A n : Of(n) \subseteq 1..L
  BY DEF Of
<1>3. L + 1 \notin 1..L
  BY <1>1
<1>4. /\ revisions \in Seq(Revisions)
      /\ \A i \in 1..L : revisions[i] \in Revisions /\ revisions[i].note \in 1..Len(notes)
  BY DEF NInv, NotesTypeOK
<1>5. PICK c \in Nat : c = Cardinality(Of(r.note))
  BY OfFinite DEF NInv
<1>6. /\ {revisions[i].number : i \in Of(r.note)} = 1..c
      /\ \A i \in Of(r.note) : revisions[i].number \in 1..c
  <2>1. CASE r.note \in 1..Len(notes)
    BY <1>5, <2>1 DEF NInv, RevisionsAreChained
  <2>2. CASE r.note \notin 1..Len(notes)
    <3>1. Of(r.note) = {}
      BY <2>2
    <3>2. c = 0
      BY <1>5, <3>1, FS_EmptySet
    <3> QED BY <3>1, <3>2
  <2> QED BY <2>1, <2>2
<1>7. r.number = c + 1 /\ r.expected = c
  BY <1>5 DEF Follows, Revisions
<1> HIDE DEF L
<1>8. Numbered'
  <2> SUFFICES ASSUME NEW i \in 1..L \cup {L + 1}, NEW j \in 1..L \cup {L + 1},
                      revisions'[i].note = revisions'[j].note,
                      revisions'[i].number = revisions'[j].number
               PROVE  i = j
    BY <1>1 DEF Numbered
  <2>1. \A k \in 1..L : revisions[k].note = r.note => revisions[k].number # r.number
    <3> SUFFICES ASSUME NEW k \in 1..L, revisions[k].note = r.note
                 PROVE  revisions[k].number # r.number
      OBVIOUS
    <3>1. k \in Of(r.note)
      BY DEF Of, L
    <3> QED BY <1>6, <1>7, <3>1
  <2>2. CASE i \in 1..L /\ j \in 1..L
    BY <1>1, <2>2 DEF NInv, Numbered, L
  <2>3. CASE i = L + 1 \/ j = L + 1
    BY <1>1, <2>1, <2>3
  <2> QED BY <2>2, <2>3
<1>9. ASSUME NEW n \in 1..Len(notes')
      PROVE  {revisions'[i].number : i \in Of(n)'} = 1..Cardinality(Of(n)') /\ Of(n)' # {}
  <2>1. CASE n # r.note
    <3>1. n \in 1..Len(notes) /\ Of(n)' = Of(n)
      BY <1>1, <2>1
    <3>2. {revisions[i].number : i \in Of(n)} = 1..Cardinality(Of(n)) /\ Of(n) # {}
      BY <3>1 DEF NInv, RevisionsAreChained
    <3>3. \A i \in Of(n) : revisions'[i] = revisions[i]
      BY <1>1, <1>2
    <3> QED BY <3>1, <3>2, <3>3
  <2>2. CASE n = r.note
    <3>1. Of(n)' = Of(n) \cup {L + 1} /\ L + 1 \notin Of(n)
      BY <1>1, <1>2, <1>3, <2>2
    <3>2. Cardinality(Of(n) \cup {L + 1}) = c + 1
      BY <1>5, <2>2, <3>1, OfFinite, FS_AddElement DEF NInv
    <3>3. {revisions'[i].number : i \in Of(n)'} = {revisions[i].number : i \in Of(n)} \cup {c + 1}
      <4>1. \A i \in Of(n) : revisions'[i] = revisions[i]
        BY <1>1, <1>2
      <4>2. revisions'[L + 1].number = c + 1
        BY <1>1, <1>7
      <4> QED BY <3>1, <4>1, <4>2
    <3>4. 1..(c + 1) = 1..c \cup {c + 1}
      OBVIOUS
    <3> QED BY <1>6, <2>2, <3>1, <3>2, <3>3, <3>4
  <2> QED BY <2>1, <2>2
<1>10. ASSUME NEW i \in 1..L \cup {L + 1}
       PROVE  With(revisions[i].command)' = {i}
  <2>1. CASE i \in 1..L
    <3>1. revisions'[i] = revisions[i] /\ With(revisions[i].command) = {i}
      BY <1>1, <2>1 DEF NInv, RevisionsAreChained, L
    <3>2. revisions[i].command # r.command
      BY <3>1 DEF Follows
    <3>3. PICK id : id = revisions[i].command
      OBVIOUS
    <3>4. With(id)' = {i}
      BY <1>1, <3>1, <3>2, <3>3
    <3>5. revisions'[i].command = id
      BY <3>1, <3>3
    <3> QED BY <3>4, <3>5 DEF With
  <2>2. CASE i = L + 1
    <3>1. revisions'[i].command = r.command
      BY <1>1, <2>2
    <3>2. PICK id : id = r.command
      OBVIOUS
    <3>3. With(id)' = {i}
      BY <1>1, <2>2, <3>2 DEF Follows
    <3> QED BY <3>1, <3>2, <3>3 DEF With
  <2> QED BY <2>1, <2>2
<1>11. ASSUME NEW i \in 1..L \cup {L + 1}
       PROVE  revisions'[i].expected = revisions'[i].number - 1
  <2>1. CASE i \in 1..L
    BY <1>1, <2>1 DEF NInv, RevisionsAreChained, L
  <2>2. CASE i = L + 1
    BY <1>1, <1>7, <2>2
  <2> QED BY <2>1, <2>2
<1>12. ASSUME NEW i \in 1..L \cup {L + 1}, NEW j \in 1..L \cup {L + 1},
              revisions'[j].note = revisions'[i].note,
              revisions'[j].number = revisions'[i].number - 1
       PROVE  \/ revisions'[i].body # revisions'[j].body
              \/ revisions'[i].pinned # revisions'[j].pinned
  <2>1. CASE i \in 1..L /\ j \in 1..L
    <3>1. j \in Of(revisions[i].note)
      BY <1>1, <1>12, <2>1 DEF Of, L
    <3> QED BY <1>1, <1>12, <2>1, <3>1 DEF NInv, RevisionsAreChained, L
  <2>2. CASE i = L + 1 /\ j \in 1..L
    <3>1. revisions'[i] = r /\ revisions'[j] = revisions[j]
      BY <1>1, <2>2
    <3>2. j \in Of(r.note)
      BY <1>12, <2>2, <3>1 DEF Of, L
    <3>3. revisions[j].number = r.expected
      BY <1>7, <1>12, <3>1
    <3> QED BY <3>1, <3>2, <3>3 DEF Follows
  <2>3. CASE i \in 1..L /\ j = L + 1
    <3>1. revisions'[j] = r /\ revisions'[i] = revisions[i]
      BY <1>1, <2>3
    <3>2. i \in Of(r.note)
      BY <1>12, <2>3, <3>1 DEF Of, L
    <3>3. revisions[i].number \in 1..c /\ c + 1 = revisions[i].number - 1
      BY <1>6, <1>7, <1>12, <3>1, <3>2
    <3> QED BY <3>3
  <2>4. CASE i = L + 1 /\ j = L + 1
    BY <1>1, <1>7, <1>12, <2>4
  <2> QED BY <2>1, <2>2, <2>3, <2>4
<1>13. RevisionsAreChained'
  <2>1. \A i \in 1..L \cup {L + 1} :
          \A j \in Of(revisions[i].note)' :
            revisions'[j].number = revisions'[i].number - 1 =>
              \/ revisions'[i].body # revisions'[j].body
              \/ revisions'[i].pinned # revisions'[j].pinned
    <3> SUFFICES ASSUME NEW i \in 1..L \cup {L + 1}, NEW n, n = revisions'[i].note,
                        NEW j \in Of(n)', revisions'[j].number = revisions'[i].number - 1
                 PROVE  \/ revisions'[i].body # revisions'[j].body
                        \/ revisions'[i].pinned # revisions'[j].pinned
      BY DEF Of
    <3>1. j \in 1..L \cup {L + 1} /\ revisions'[j].note = revisions'[i].note
      BY <1>1 DEF Of
    <3> QED BY <1>12, <3>1
  <2> QED BY <1>1, <1>9, <1>10, <1>11, <2>1 DEF RevisionsAreChained
<1> QED BY <1>8, <1>13

\* An answer stays its command's, since no row changes.
LEMMA AnswersStay ==
  ASSUME NInv, NEW a \in answers,
         \A i \in 1..Len(revisions) : revisions'[i] = revisions[i],
         \A n \in 1..Len(notes) : notes'[n] = notes[n]
  PROVE  Matches(a.command, a.revision)' /\ a.command.id = revisions'[a.revision].command
<1>1. /\ a.revision \in 1..Len(revisions)
      /\ Matches(a.command, a.revision) /\ a.command.id = revisions[a.revision].command
  BY DEF NInv, NotesTypeOK, AnswersAreOwn
<1>2. /\ revisions'[a.revision] = revisions[a.revision]
      /\ notes'[revisions[a.revision].note] = notes[revisions[a.revision].note]
  BY <1>1 DEF NInv, NotesTypeOK
<1> QED BY <1>1, <1>2 DEF Matches, Given

\* A command that is given stays sound, and so do those that are dropped.
LEMMA CommandsStay ==
  ASSUME NInv, NEW q \in Requests,
         command' = [command EXCEPT ![q] = NoUser] \/ UNCHANGED command,
         Len(notes') \in Nat, Len(notes) <= Len(notes')
  PROVE  /\ DOMAIN command' = Requests
         /\ \A p \in Requests : command'[p] # NoUser => Sound(command[p])' /\ command'[p] = command[p]
<1>1. Len(notes) \in Nat /\ DOMAIN command = Requests
  BY DEF NInv, NotesTypeOK
<1>2. 1..Len(notes) \subseteq 1..Len(notes')
  BY <1>1
<1>3. \A p \in Requests : command'[p] # NoUser => command'[p] = command[p]
  BY <1>1
<1> QED BY <1>1, <1>2, <1>3 DEF NInv, NotesTypeOK, Sound

\* A revision that its command asks for answers it.
LEMMA Appended ==
  ASSUME NInv, NEW q \in Requests, NEW r \in Revisions,
         Sound(command[q]), command[q].id = r.command,
         revisions' = Append(revisions, r), Follows(r),
         notes' \in Seq(NoteRows), Len(notes') <= MaxNotes, Len(notes) <= Len(notes'),
         \A n \in 1..Len(notes) : notes'[n] = notes[n],
         \A n \in 1..Len(notes') : n \in 1..Len(notes) \/ n = r.note,
         r.note \in 1..Len(notes'), r.note \notin 1..Len(notes) => Of(r.note) = {},
         command' = [command EXCEPT ![q] = NoUser],
         Answer(command[q], Len(revisions) + 1),
         notes'[r.note].opportunity = command[q].opportunity,
         command[q].expected > 0 => r.note = command[q].note,
         r.number = command[q].expected + 1, r.actor = command[q].actor,
         r.body = Given(command[q].body, r.body), r.pinned = Given(command[q].pinned, r.pinned)
  PROVE  NInv'
<1> DEFINE k == command[q]
           L == Len(revisions)
<1>1. /\ Len(revisions') = L + 1 /\ L \in Nat
      /\ revisions' \in Seq(Revisions)
      /\ \A i \in 1..L : revisions'[i] = revisions[i]
      /\ revisions'[L + 1] = r
      /\ 1..Len(revisions') = 1..L \cup {L + 1}
  BY AppendRevision DEF NInv
<1>2. Len(notes') \in Nat /\ Len(notes) \in Nat
  BY DEF NInv, NotesTypeOK
<1>3. Numbered' /\ RevisionsAreChained'
  BY <1>2, AppendChains
<1>4. answers' = answers \cup {[command |-> k, revision |-> L + 1]}
  BY DEF Answer
<1>5. k \in Commands
  BY DEF Sound
<1>6. NotesTypeOK'
  <2>1. \A i \in 1..Len(revisions') : revisions'[i].note \in 1..Len(notes')
    <3>1. \A i \in 1..L : revisions[i].note \in 1..Len(notes)
      BY DEF NInv, NotesTypeOK
    <3>2. 1..Len(notes) \subseteq 1..Len(notes')
      BY <1>2
    <3> QED BY <1>1, <3>1, <3>2
  <2>2. /\ DOMAIN command' = Requests
        /\ \A p \in Requests : command'[p] # NoUser => Sound(command[p])' /\ command'[p] = command[p]
    BY <1>2, CommandsStay
  <2>3. answers' \subseteq Answered
    <3>1. [command |-> k, revision |-> L + 1] \in Answered
      BY <1>1, <1>5 DEF Answered
    <3> QED BY <1>4, <3>1 DEF NInv, NotesTypeOK
  <2>4. \A a \in answers' : a.revision \in 1..Len(revisions')
    <3>1. \A a \in answers : a.revision \in 1..L
      BY DEF NInv, NotesTypeOK
    <3> QED BY <1>1, <1>4, <3>1
  <2>5. \A p \in Requests : command'[p] # NoUser => Sound(command[p])'
    BY <2>2
  <2> QED BY <1>1, <2>1, <2>2, <2>3, <2>4, <2>5 DEF NotesTypeOK, Sound
<1>7. AnswersAreOwn'
  <2> SUFFICES ASSUME NEW a \in answers'
               PROVE  Matches(a.command, a.revision)'
                      /\ a.command.id = revisions'[a.revision].command
    BY DEF AnswersAreOwn
  <2>1. CASE a \in answers
    BY <1>1, <2>1, AnswersStay
  <2>2. CASE a = [command |-> k, revision |-> L + 1]
    <3>1. a.command = k /\ revisions'[a.revision] = r
      BY <1>1, <2>2
    <3> HIDE DEF k
    <3> QED BY <3>1 DEF Matches, Given, k
  <2> QED BY <1>4, <2>1, <2>2
<1> QED BY <1>3, <1>6, <1>7 DEF NInv

LEMMA CreateStep ==
  ASSUME NInv, NEW q \in Requests, NEW at \in Times, Create(q, at)
  PROVE  NInv'
<1> DEFINE k == command[q]
           n == Len(notes) + 1
           r == [note |-> n, number |-> 1, body |-> k.body, pinned |-> k.pinned,
                 actor |-> k.actor, command |-> k.id, at |-> at, expected |-> 0]
           row == [opportunity |-> k.opportunity, author |-> k.actor]
<1>1. /\ k # NoUser /\ k.expected = 0 /\ With(k.id) = {} /\ Len(notes) < MaxNotes
      /\ notes' = Append(notes, row) /\ revisions' = Append(revisions, r)
      /\ Answer(k, Len(revisions) + 1) /\ command' = [command EXCEPT ![q] = NoUser]
  BY DEF Create
<1>2. Sound(k) /\ k \in Commands /\ k.body # Keep /\ k.pinned # Keep
  BY <1>1 DEF NInv, NotesTypeOK, Sound
<1>3. /\ notes \in Seq(NoteRows) /\ Len(notes) \in Nat
      /\ \A i \in 1..Len(revisions) : revisions[i].note \in 1..Len(notes)
  BY DEF NInv, NotesTypeOK
<1>4. r \in Revisions /\ row \in NoteRows
  <2>1. /\ k.body \in Bodies /\ k.pinned \in BOOLEAN /\ k.actor \in Users
        /\ k.id \in CommandIds /\ k.opportunity \in Opportunities
    BY <1>2 DEF Commands
  <2> QED BY <1>3, <2>1 DEF Revisions, NoteRows
<1>5. /\ r.note = n /\ r.number = 1 /\ r.body = k.body /\ r.pinned = k.pinned
      /\ r.actor = k.actor /\ r.command = k.id /\ r.expected = 0
      /\ row.opportunity = k.opportunity
  OBVIOUS
<1> HIDE DEF r, row
<1>6. /\ notes' \in Seq(NoteRows) /\ Len(notes') = n
      /\ \A i \in 1..Len(notes) : notes'[i] = notes[i]
      /\ notes'[n] = row
  BY <1>1, <1>3, <1>4
<1>7. Of(n) = {}
  BY <1>3 DEF Of
<1>8. Follows(r)
  <2>1. Of(r.note) = {} /\ With(r.command) = {}
    BY <1>1, <1>5, <1>7
  <2>2. Cardinality(Of(r.note)) = 0
    BY <2>1, FS_EmptySet
  <2> QED BY <1>5, <2>1, <2>2 DEF Follows
<1>9. r.body = Given(k.body, r.body) /\ r.pinned = Given(k.pinned, r.pinned)
  BY <1>5 DEF Given
<1>10. MaxNotes \in Nat
  BY NotesAssumption
<1>11. /\ Len(notes') <= MaxNotes /\ Len(notes) <= Len(notes')
       /\ \A i \in 1..Len(notes') : i \in 1..Len(notes) \/ i = r.note
       /\ r.note \in 1..Len(notes')
  BY <1>1, <1>3, <1>5, <1>6, <1>10
<1>12. notes'[r.note].opportunity = k.opportunity
  BY <1>5, <1>6
<1>13. r.number = k.expected + 1 /\ ~(k.expected > 0)
  BY <1>1, <1>5
<1> QED BY <1>1, <1>2, <1>4, <1>5, <1>6, <1>7, <1>8, <1>9, <1>11, <1>12, <1>13, Appended

LEMMA ReviseStep ==
  ASSUME NInv, NEW q \in Requests, NEW at \in Times, Revise(q, at)
  PROVE  NInv'
<1> DEFINE k == command[q]
           latest == revisions[Latest(k.note)]
           r == [note |-> k.note, number |-> latest.number + 1,
                 body |-> Given(k.body, latest.body), pinned |-> Given(k.pinned, latest.pinned),
                 actor |-> k.actor, command |-> k.id, at |-> at, expected |-> k.expected]
<1>1. /\ k # NoUser /\ k.expected > 0 /\ notes[k.note].opportunity = k.opportunity
      /\ latest.number = k.expected /\ Changes(k, latest) /\ With(k.id) = {}
      /\ revisions' = Append(revisions, r) /\ UNCHANGED notes
      /\ Answer(k, Len(revisions) + 1) /\ command' = [command EXCEPT ![q] = NoUser]
  BY DEF Revise, ExpectedRevision
<1>2. Sound(k) /\ k \in Commands /\ k.note \in 1..Len(notes)
  <2>1. Sound(k) /\ k \in Commands
    BY <1>1 DEF NInv, NotesTypeOK, Sound
  <2>2. k.expected # 0
    BY <1>1, <2>1 DEF Commands
  <2> QED BY <2>1, <2>2 DEF Sound
<1>3. notes \in Seq(NoteRows) /\ Len(notes) \in Nat /\ Len(notes) <= MaxNotes
  BY DEF NInv, NotesTypeOK
<1>4. /\ Latest(k.note) \in Of(k.note) /\ Latest(k.note) \in 1..Len(revisions)
      /\ latest.number = Cardinality(Of(k.note)) /\ latest.number \in Nat \ {0}
      /\ latest \in Revisions
  BY <1>2, LatestIs DEF NInv, NotesTypeOK
<1>5. r \in Revisions
  <2>1. /\ k.body \in Bodies \cup {Keep} /\ k.pinned \in BOOLEAN \cup {Keep} /\ k.actor \in Users
        /\ k.id \in CommandIds /\ k.expected \in Nat /\ k.note \in Nat \ {0}
    BY <1>2, <1>3 DEF Commands
  <2>2. latest.body \in Bodies /\ latest.pinned \in BOOLEAN
    BY <1>4 DEF Revisions
  <2>3. Given(k.body, latest.body) \in Bodies /\ Given(k.pinned, latest.pinned) \in BOOLEAN
    BY <2>1, <2>2 DEF Given
  <2> HIDE DEF k, latest
  <2> QED BY <1>4, <2>1, <2>3 DEF Revisions
<1>6. /\ r.note = k.note /\ r.number = latest.number + 1
      /\ r.body = Given(k.body, latest.body) /\ r.pinned = Given(k.pinned, latest.pinned)
      /\ r.actor = k.actor /\ r.command = k.id /\ r.expected = k.expected
  OBVIOUS
<1> HIDE DEF r
<1>7. Follows(r)
  <2>1. \A j \in Of(k.note) : revisions[j].number = latest.number => j = Latest(k.note)
    <3> SUFFICES ASSUME NEW j \in Of(k.note), revisions[j].number = latest.number
                 PROVE  j = Latest(k.note)
      OBVIOUS
    <3>1. j \in 1..Len(revisions) /\ revisions[j].note = k.note /\ latest.note = k.note
      BY <1>4 DEF Of
    <3> QED BY <1>4, <3>1 DEF NInv, Numbered
  <2>2. r.body # latest.body \/ r.pinned # latest.pinned
    BY <1>1, <1>6 DEF Changes
  <2>3. \A j \in Of(r.note) : revisions[j].number = r.expected =>
          r.body # revisions[j].body \/ r.pinned # revisions[j].pinned
    BY <1>1, <1>6, <2>1, <2>2
  <2>4. r.number = Cardinality(Of(r.note)) + 1 /\ r.expected + 1 = r.number
    BY <1>1, <1>4, <1>6
  <2> QED BY <1>1, <1>6, <2>3, <2>4 DEF Follows
<1>8. r.body = Given(k.body, r.body) /\ r.pinned = Given(k.pinned, r.pinned)
  BY <1>6 DEF Given
<1>9. r.number = k.expected + 1 /\ notes'[r.note].opportunity = k.opportunity
  BY <1>1, <1>6
<1>10. /\ notes' \in Seq(NoteRows) /\ Len(notes') <= MaxNotes /\ Len(notes) <= Len(notes')
       /\ \A n \in 1..Len(notes) : notes'[n] = notes[n]
       /\ \A n \in 1..Len(notes') : n \in 1..Len(notes)
       /\ r.note \in 1..Len(notes') /\ r.note \in 1..Len(notes)
  BY <1>1, <1>2, <1>3, <1>6
<1>11. r.note = k.note /\ r.actor = k.actor /\ r.command = k.id
  BY <1>6
<1> HIDE DEF latest
<1> QED BY <1>1, <1>2, <1>5, <1>7, <1>8, <1>9, <1>10, <1>11, Appended

LEMMA ChainsUnchanged ==
  ASSUME RevisionsAreChained, UNCHANGED <<notes, revisions>>
  PROVE  RevisionsAreChained'
<1>1. \A n : Of(n)' = Of(n)
  BY DEF Of
<1>2. \A id : With(id)' = With(id)
  BY DEF With
<1>3. \A n \in 1..Len(notes') :
        {revisions'[i].number : i \in Of(n)'} = 1..Cardinality(Of(n)') /\ Of(n)' # {}
  BY <1>1 DEF RevisionsAreChained
<1>4. ASSUME NEW i \in 1..Len(revisions')
      PROVE  /\ With(revisions[i].command)' = {i}
             /\ revisions'[i].expected = revisions'[i].number - 1
             /\ \A j \in Of(revisions[i].note)' :
                  revisions'[j].number = revisions'[i].number - 1 =>
                    \/ revisions'[i].body # revisions'[j].body
                    \/ revisions'[i].pinned # revisions'[j].pinned
  <2>1. With(revisions[i].command)' = With(revisions[i].command)
    BY DEF With
  <2>2. Of(revisions[i].note)' = Of(revisions[i].note)
    BY DEF Of
  <2> QED BY <2>1, <2>2 DEF RevisionsAreChained
<1> QED BY <1>3, <1>4 DEF RevisionsAreChained

\* Steps that append nothing.
LEMMA NothingAppended ==
  ASSUME NInv, NEW q \in Requests, UNCHANGED <<notes, revisions, answers>>,
         command' = [command EXCEPT ![q] = NoUser] \/ UNCHANGED command
  PROVE  NInv'
<1>1. Len(notes) \in Nat
  BY DEF NInv, NotesTypeOK
<1>2. /\ DOMAIN command' = Requests
      /\ \A p \in Requests : command'[p] # NoUser => Sound(command[p])' /\ command'[p] = command[p]
  BY <1>1, CommandsStay
<1>3. NotesTypeOK'
  BY <1>2 DEF NInv, NotesTypeOK, Sound
<1>4. Numbered'
  BY DEF NInv, Numbered
<1>5. RevisionsAreChained'
  BY ChainsUnchanged DEF NInv
<1>6. AnswersAreOwn'
  BY DEF NInv, AnswersAreOwn, Matches, Given
<1> QED BY <1>3, <1>4, <1>5, <1>6 DEF NInv

LEMMA ReplayStep ==
  ASSUME NInv, NEW q \in Requests, NEW k \in Sendable(q), k \in Commands, Replay(q, k)
  PROVE  NInv'
<1>1. UNCHANGED <<notes, revisions, command>>
  BY DEF Replay
<1>2. PICK i \in With(k.id) : IF Replays(k, i) THEN Answer(k, i) ELSE UNCHANGED answers
  BY DEF Replay
<1>3. CASE ~Replays(k, i)
  BY <1>1, <1>2, <1>3, NothingAppended
<1>4. CASE Replays(k, i)
  <2>1. answers' = answers \cup {[command |-> k, revision |-> i]} /\ Matches(k, i)
    BY <1>2, <1>4 DEF Answer, Replays
  <2>2. i \in 1..Len(revisions) /\ revisions[i].command = k.id /\ Len(revisions) \in Nat
    BY DEF With, NInv, NotesTypeOK
  <2>3. [command |-> k, revision |-> i] \in Answered
    BY <2>2 DEF Answered
  <2>4. answers' \subseteq Answered /\ \A a \in answers' : a.revision \in 1..Len(revisions)
    BY <2>1, <2>2, <2>3 DEF NInv, NotesTypeOK
  <2>5. NotesTypeOK'
    BY <1>1, <2>4 DEF NInv, NotesTypeOK, Sound
  <2>6. Numbered'
    BY <1>1 DEF NInv, Numbered
  <2>7. RevisionsAreChained'
    BY <1>1, ChainsUnchanged DEF NInv
  <2>8. AnswersAreOwn'
    <3> SUFFICES ASSUME NEW a \in answers'
                 PROVE  Matches(a.command, a.revision)'
                        /\ a.command.id = revisions'[a.revision].command
      BY DEF AnswersAreOwn
    <3>1. CASE a \in answers
      BY <1>1, <3>1 DEF NInv, AnswersAreOwn, Matches, Given
    <3>2. CASE a = [command |-> k, revision |-> i]
      <4>1. a.command = k /\ a.revision = i
        BY <3>2
      <4> QED BY <1>1, <2>1, <2>2, <4>1 DEF Matches, Given
    <3> QED BY <2>1, <3>1, <3>2
  <2> QED BY <2>5, <2>6, <2>7, <2>8 DEF NInv
<1> QED BY <1>3, <1>4

LEMMA NotFoundStep ==
  ASSUME NInv, NEW q \in Requests, NEW k \in Sendable(q), Sound(k), NotFound(q, k)
  PROVE  NInv'
<1>1. command' = [command EXCEPT ![q] = k] /\ UNCHANGED <<notes, revisions, answers>>
  BY DEF NotFound
<1>2. \A p \in Requests : command'[p] # NoUser => Sound(command'[p])
  BY <1>1 DEF NInv, NotesTypeOK
<1>3. NotesTypeOK'
  BY <1>1, <1>2 DEF NInv, NotesTypeOK, Sound
<1>4. Numbered'
  BY <1>1 DEF NInv, Numbered
<1>5. RevisionsAreChained'
  BY <1>1, ChainsUnchanged DEF NInv
<1>6. AnswersAreOwn'
  BY <1>1 DEF NInv, AnswersAreOwn, Matches, Given
<1> QED BY <1>3, <1>4, <1>5, <1>6 DEF NInv

\* What an admitted request may send is a command.
LEMMA SendableIsSound ==
  ASSUME SInv, NInv, NEW q \in Requests, request[q].step = "admitted", NEW k \in Sendable(q)
  PROVE  k \in Commands /\ Sound(k)
<1>1. request[q].token.user \in Users
  BY NoUserAssumption DEF SInv, SessionsTypeOK, Tokens
<1>2. /\ notes \in Seq(NoteRows) /\ Len(notes) \in Nat /\ Len(notes) <= MaxNotes
      /\ MaxNotes \in Nat /\ Len(revisions) \in Nat
  BY NotesAssumption DEF NInv, NotesTypeOK
<1>3. /\ k.id \in CommandIds /\ k.opportunity \in Opportunities /\ k.note \in 0..Len(notes)
      /\ k.expected \in 0..Len(revisions) /\ k.body \in Bodies \cup {Keep}
      /\ k.pinned \in BOOLEAN \cup {Keep} /\ k.actor = request[q].token.user
      /\ k \in [id : CommandIds, opportunity : Opportunities, note : 0..Len(notes),
                expected : 0..Len(revisions), body : Bodies \cup {Keep},
                pinned : BOOLEAN \cup {Keep}, actor : {request[q].token.user}]
  BY DEF Sendable
<1>4. k.note \in 0..MaxNotes /\ k.expected \in Nat
  BY <1>2, <1>3
<1>5. k \in Commands
  BY <1>1, <1>3, <1>4 DEF Commands
<1>6. IF k.expected = 0 THEN k.body # Keep /\ k.pinned # Keep ELSE k.note \in 1..Len(notes)
  <2>1. CASE k.expected = 0
    BY <2>1 DEF Sendable
  <2>2. CASE k.expected # 0
    <3>1. PICK i \in Of(k.note) : TRUE
      BY <2>2 DEF Sendable
    <3>2. i \in 1..Len(revisions) /\ revisions[i].note = k.note
      BY DEF Of
    <3> QED BY <2>2, <3>2 DEF NInv, NotesTypeOK
  <2> QED BY <2>1, <2>2
<1> QED BY <1>5, <1>6 DEF Sound

IInv == SInv /\ NInv

\* The sessions under a step of Notes: at most a request ends.
LEMMA SessionsStay ==
  ASSUME SInv, UNCHANGED <<users, tokens, revoked>>,
         UNCHANGED budget \/ Spend("notes") \/ Spend("changes"),
         UNCHANGED request \/ \E q \in Requests : Finished(q)
  PROVE  SInv'
<1>1. budget' \in [{"logins", "requests", "changes", "notes"} -> Nat]
  BY BudgetType DEF SInv, SessionsTypeOK
<1>2. SessionsTypeOK' /\ Outstanding' \subseteq Outstanding
  <2>1. CASE UNCHANGED request
    BY <1>1, <2>1 DEF SInv, SessionsTypeOK, Outstanding
  <2>2. CASE \E q \in Requests : Finished(q)
    BY <1>1, <2>2, ToIdle DEF SInv, SessionsTypeOK, Finished
  <2> QED BY <2>1, <2>2
<1>3. VersionsOK'
  BY <1>2 DEF SInv, VersionsOK, Exists
<1> QED BY <1>2, <1>3 DEF SInv

LEMMA NoteSteps ==
  ASSUME IInv, NEW q \in Requests, request[q].step = "admitted", NoteStep(q)
  PROVE  IInv'
<1>1. CASE \E k \in Sendable(q) : Replay(q, k)
  <2>1. PICK k \in Sendable(q) : Replay(q, k)
    BY <1>1
  <2>2. NInv'
    BY <2>1, ReplayStep, SendableIsSound DEF IInv
  <2>3. SInv'
    BY <2>1, SessionsStay DEF IInv, Replay
  <2> QED BY <2>2, <2>3 DEF IInv
<1>2. CASE \E k \in Sendable(q) : NotFound(q, k)
  <2>1. PICK k \in Sendable(q) : NotFound(q, k)
    BY <1>2
  <2>2. NInv'
    BY <2>1, NotFoundStep, SendableIsSound DEF IInv
  <2>3. SInv'
    BY <2>1, SessionsStay DEF IInv, NotFound
  <2> QED BY <2>2, <2>3 DEF IInv
<1>3. CASE \E at \in Times : Create(q, at)
  <2>1. NInv'
    BY <1>3, CreateStep DEF IInv
  <2>2. SInv'
    BY <1>3, SessionsStay DEF IInv, Create
  <2> QED BY <2>1, <2>2 DEF IInv
<1>4. CASE \E at \in Times : Revise(q, at)
  <2>1. NInv'
    BY <1>4, ReviseStep DEF IInv
  <2>2. SInv'
    BY <1>4, SessionsStay DEF IInv, Revise
  <2> QED BY <2>1, <2>2 DEF IInv
<1>5. CASE Refuse(q)
  <2>1. NInv'
    BY <1>5, NothingAppended DEF IInv, Refuse
  <2>2. SInv'
    BY <1>5, SessionsStay DEF IInv, Refuse
  <2> QED BY <2>1, <2>2 DEF IInv
<1> QED BY <1>1, <1>2, <1>3, <1>4, <1>5 DEF NoteStep

LEMMA NotesUnchanged ==
  ASSUME NInv, UNCHANGED <<notes, revisions, command, answers>>
  PROVE  NInv'
<1>1. NotesTypeOK'
  BY DEF NInv, NotesTypeOK, Sound
<1>2. Numbered'
  BY DEF NInv, Numbered
<1>3. RevisionsAreChained'
  BY ChainsUnchanged DEF NInv
<1>4. AnswersAreOwn'
  BY DEF NInv, AnswersAreOwn, Matches, Given
<1> QED BY <1>1, <1>2, <1>3, <1>4 DEF NInv

LEMMA Steps ==
  ASSUME IInv, [NotesNext]_vars
  PROVE  IInv'
<1>1. CASE SessionsNext
  <2>1. NInv'
    BY <1>1, NotesUnchanged DEF IInv, SessionsNext, noteVars
  <2>2. SInv'
    BY <1>1, SessionSteps, UserSteps, OtherSteps DEF IInv, SessionsNext
  <2> QED BY <2>1, <2>2 DEF IInv
<1>2. CASE \E q \in Requests : request[q].step = "admitted" /\ NoteStep(q)
  BY <1>2, NoteSteps
<1>3. CASE \E o \in Opportunities : DeleteOpportunity(o)
  <2>1. /\ UNCHANGED <<users, tokens, revoked, request, notes, revisions, command, answers>>
        /\ Spend("changes")
    BY <1>3 DEF DeleteOpportunity
  <2>2. NInv'
    BY <2>1, NotesUnchanged DEF IInv
  <2>3. SInv'
    BY <2>1, SessionsStay DEF IInv
  <2> QED BY <2>2, <2>3 DEF IInv
<1>4. CASE UNCHANGED vars
  <2>1. UNCHANGED <<users, tokens, revoked, request, budget, notes, revisions, command, answers>>
    BY <1>4 DEF vars, sessionVars, noteVars
  <2>2. NInv'
    BY <2>1, NotesUnchanged DEF IInv
  <2>3. SInv'
    BY <2>1, SessionsStay DEF IInv
  <2> QED BY <2>2, <2>3 DEF IInv
<1> QED BY <1>1, <1>2, <1>3, <1>4 DEF NotesNext

LEMMA Inits ==
  ASSUME NotesInit
  PROVE  IInv
<1>1. SInv
  BY SessionsInit DEF NotesInit
<1>2. /\ notes = <<>> /\ revisions = <<>> /\ answers = {}
      /\ command = [q \in Requests |-> NoUser]
  BY DEF NotesInit
<1>3. Len(notes) = 0 /\ Len(revisions) = 0 /\ 1..0 = {}
  BY <1>2
<1>4. NotesTypeOK
  BY <1>2, <1>3, NotesAssumption DEF NotesTypeOK
<1>5. Numbered /\ RevisionsAreChained /\ AnswersAreOwn
  BY <1>2, <1>3 DEF Numbered, RevisionsAreChained, AnswersAreOwn
<1> QED BY <1>1, <1>4, <1>5 DEF IInv, NInv

\* The inductive invariant of tokens and revisions: no token is ahead of its
\* user, and the revisions of a note are numbered without gap or repetition.
THEOREM Invariance == NotesSpec => []IInv
<1>1. NotesInit => IInv
  BY Inits
<1>2. IInv /\ [NotesNext]_vars => IInv'
  BY Steps
<1> QED BY <1>1, <1>2, PTL DEF NotesSpec

\* A revoked token is never accepted again, whatever logins, password changes,
\* deactivations and activations overlap, for every number of users and
\* requests (get_current_user, update_user, _apply_password_change).
THEOREM NoRevokedSessionCorrect == NotesSpec => []NoRevokedSession
<1>1. IInv => NoRevokedSession
  BY DEF IInv, SInv, VersionsOK, NoRevokedSession, Accepted
<1> QED BY <1>1, Invariance, PTL

\* No edit of a note is overwritten unseen and none is applied twice, for every
\* number of requests that edit it (create, revise).
THEOREM RevisionsAreChainedCorrect == NotesSpec => []RevisionsAreChained
<1>1. IInv => RevisionsAreChained
  BY DEF IInv, NInv
<1> QED BY <1>1, Invariance, PTL

\* A command is answered only by a revision that its author wrote and that says
\* what it said, whatever is retried (the replay checks of create and revise).
THEOREM AnswersAreOwnCorrect == NotesSpec => []AnswersAreOwn
<1>1. IInv => AnswersAreOwn
  BY DEF IInv, NInv
<1> QED BY <1>1, Invariance, PTL

-----------------------------------------------------------------------------
(* Pages: the current notes are sorted in one way, what comes after the    *)
(* cursor is the rest of that sequence, and so the pages are its parts.    *)

Before(S) == {x \in S \X S : Precedes(x[1], x[2])}

\* One revision of a note is current, so no more are listed than there are notes.
LEMMA ListedIs ==
  ASSUME NInv, NEW o, NEW pins
  PROVE  LET S == Listed(o, pins) IN
         /\ IsFiniteSet(S) /\ Cardinality(S) \in 0..MaxNotes
         /\ \A i \in S : i \in 1..Len(revisions) /\ revisions[i] \in Revisions
         /\ \A i, j \in S : revisions[i].note = revisions[j].note => i = j
<1> DEFINE S == Listed(o, pins)
           f == [i \in S |-> revisions[i].note]
           N == 1..Len(notes)
<1>1. Len(notes) \in Nat /\ Len(revisions) \in Nat /\ Len(notes) <= MaxNotes /\ MaxNotes \in Nat
  BY NotesAssumption DEF NInv, NotesTypeOK
<1>2. \A i \in S : /\ i \in 1..Len(revisions) /\ revisions[i] \in Revisions
                   /\ revisions[i].note \in N /\ i = Latest(revisions[i].note)
  BY DEF Listed, NInv, NotesTypeOK
<1>3. \A i, j \in S : revisions[i].note = revisions[j].note => i = j
  BY <1>2
<1> HIDE DEF S, N
<1>4. f \in Injection(S, N)
  BY <1>2, <1>3 DEF Injection, IsInjective
<1>5. IsFiniteSet(N) /\ Cardinality(N) = Len(notes)
  <2> DEFINE top == Len(notes)
  <2>1. top \in Nat
    BY <1>1
  <2> HIDE DEF top
  <2>2. IsFiniteSet(1..top) /\ Cardinality(1..top) = top
    BY <2>1, FS_Interval
  <2> QED BY <2>2 DEF N, top
<1> HIDE DEF f
<1>6. IsFiniteSet(S) /\ Cardinality(S) <= Cardinality(N)
  BY <1>4, <1>5, FS_Injection
<1>7. Cardinality(S) \in Nat
  BY <1>6, FS_CardinalityType
<1>8. Cardinality(S) \in 0..MaxNotes
  BY <1>1, <1>5, <1>6, <1>7
<1> QED BY <1>2, <1>3, <1>6, <1>8 DEF S

LEMMA ListedOrders ==
  ASSUME NInv, NEW o, NEW pins, NEW S \in SUBSET Listed(o, pins)
  PROVE  IsFiniteSet(S) /\ Cardinality(S) \in Nat /\ Orders(Before(S), S)
<1>1. IsFiniteSet(Listed(o, pins))
  BY ListedIs
<1>2. IsFiniteSet(S)
  BY <1>1, FS_Subset
<1>3. \A i \in S : revisions[i].pinned \in BOOLEAN /\ revisions[i].at \in Nat /\ revisions[i].note \in Nat
  BY ListedIs, NotesAssumption DEF Revisions, Times
<1>4. \A i, j \in S : revisions[i].note = revisions[j].note => i = j
  BY ListedIs
<1>5. \A i, j \in S : i # j => Precedes(i, j) \/ Precedes(j, i)
  BY <1>3, <1>4 DEF Precedes
<1>6. \A i \in S : ~Precedes(i, i)
  BY <1>3 DEF Precedes
<1>7. \A i, j, k \in S : Precedes(i, j) /\ Precedes(j, k) => Precedes(i, k)
  BY <1>3 DEF Precedes
<1>8. \A i, j \in S : <<i, j>> \in Before(S) <=> Precedes(i, j)
  BY DEF Before
<1>9. Orders(Before(S), S)
  BY <1>5, <1>6, <1>7, <1>8 DEF Orders
<1> QED BY <1>2, <1>9, FS_CardinalityType

\* The statement's order, and that there is no other one.
LEMMA SortedSorts ==
  ASSUME NInv, NEW o, NEW pins, NEW S \in SUBSET Listed(o, pins)
  PROVE  /\ Sorts(Sorted(S), S, Before(S))
         /\ \A q : Sorts(q, S, Before(S)) => Sorted(S) = q
<1> DEFINE n == Cardinality(S)
           Ordered(q) == \A j, k \in DOMAIN q : j < k => Precedes(q[j], q[k])
<1>1. IsFiniteSet(S) /\ n \in Nat /\ Orders(Before(S), S)
  BY ListedOrders
<1>2. \A i, j \in S : <<i, j>> \in Before(S) <=> Precedes(i, j)
  BY DEF Before
<1>3. PICK q : Sorts(q, S, Before(S))
  BY <1>1, SortedExists
<1>4. /\ q \in [1..n -> S]
      /\ \A j, k \in 1..n : j < k => <<q[j], q[k]>> \in Before(S)
  BY <1>3 DEF Sorts
<1>5. \A i \in S : <<i, i>> \notin Before(S)
  BY <1>1 DEF Orders
<1>6. ASSUME NEW j \in 1..n, NEW k \in 1..n, j # k
      PROVE  q[j] # q[k]
  <2>1. j < k \/ k < j
    BY <1>1, <1>6
  <2> QED BY <1>4, <1>5, <2>1
<1>7. q \in SetToSeqs(S)
  BY <1>4, <1>6 DEF SetToSeqs
<1>8. Ordered(q)
  BY <1>2, <1>4
<1>9. Sorted(S) \in SetToSeqs(S) /\ Ordered(Sorted(S))
  <2>1. Sorted(S) = CHOOSE s \in SetToSeqs(S) : Ordered(s)
    BY DEF Sorted
  <2> HIDE DEF Ordered
  <2> QED BY <1>7, <1>8, <2>1, Zenon
<1>10. Sorted(S) \in [1..n -> S]
  BY <1>9 DEF SetToSeqs
<1>11. \A j, k \in 1..n : j < k => <<Sorted(S)[j], Sorted(S)[k]>> \in Before(S)
  BY <1>2, <1>9, <1>10
<1>12. Sorts(Sorted(S), S, Before(S))
  BY <1>1, <1>10, <1>11, SortedIs
<1> QED BY <1>1, <1>12, SortedUnique

\* The filter of a cursor is the order itself, pins included.
LEMMA AfterIsBefore ==
  ASSUME NInv, NEW o, NEW pins, NEW i \in Listed(o, pins), NEW c \in Listed(o, pins)
  PROVE  AfterCursor(i, c) <=> Precedes(c, i)
<1>1. \A j \in {i, c} : /\ revisions[j].pinned \in BOOLEAN
                        /\ revisions[j].at \in Nat /\ revisions[j].note \in Nat
  BY ListedIs, NotesAssumption DEF Revisions, Times
<1> QED BY <1>1 DEF AfterCursor, AfterInGroup, Precedes

\* After the first m of a sorted set come the others, as sorted.
LEMMA RestOf ==
  ASSUME NInv, NEW o, NEW pins, NEW m \in 1..Cardinality(Listed(o, pins))
  PROVE  LET full == Sorted(Listed(o, pins))
             n == Cardinality(Listed(o, pins))
         IN Sorted({i \in Listed(o, pins) : AfterCursor(i, full[m])})
              = [k \in 1..(n - m) |-> full[m + k]]
<1> DEFINE S == Listed(o, pins)
           n == Cardinality(S)
           full == Sorted(S)
           R == {i \in S : AfterCursor(i, full[m])}
           p == [k \in 1..(n - m) |-> full[m + k]]
<1>1. n \in Nat /\ m \in 1..n /\ n - m \in Nat /\ IsFiniteSet(S) /\ Orders(Before(S), S)
  BY ListedOrders
<1>2. /\ full \in [1..n -> S]
      /\ \A j, k \in 1..n : j < k => <<full[j], full[k]>> \in Before(S)
      /\ \A i \in S : \E k \in 1..n : full[k] = i
  BY SortedSorts DEF Sorts
<1>3. /\ \A i \in S : <<i, i>> \notin Before(S)
      /\ \A i, j, k \in S : <<i, j>> \in Before(S) /\ <<j, k>> \in Before(S) => <<i, k>> \in Before(S)
      /\ \A i, j \in S : <<i, j>> \in Before(S) <=> Precedes(i, j)
  BY <1>1 DEF Orders, Before
<1>4. \A i \in S : i \in R <=> <<full[m], i>> \in Before(S)
  <2>1. TAKE i \in S
  <2>2. full[m] \in S
    BY <1>1, <1>2
  <2>3. AfterCursor(i, full[m]) <=> Precedes(full[m], i)
    BY <2>2, AfterIsBefore
  <2> QED BY <1>3, <2>2, <2>3
<1>5. R \in SUBSET S
  OBVIOUS
<1> HIDE DEF S, R, full
<1>6. \A k \in 1..n : full[k] \in R <=> m < k
  <2>1. TAKE k \in 1..n
  <2>2. full[k] \in S /\ full[m] \in S
    BY <1>1, <1>2
  <2>3. m < k \/ k < m \/ k = m
    BY <1>1
  <2>4. m < k => <<full[m], full[k]>> \in Before(S)
    BY <1>1, <1>2
  <2>5. k < m => <<full[k], full[m]>> \in Before(S)
    BY <1>1, <1>2
  <2>6. k < m => <<full[m], full[k]>> \notin Before(S)
    BY <1>3, <2>2, <2>5
  <2>7. k = m => <<full[m], full[k]>> \notin Before(S)
    BY <1>3, <2>2
  <2> QED BY <1>1, <1>4, <2>2, <2>3, <2>4, <2>6, <2>7
<1> HIDE DEF n
<1>7. \A k \in 1..(n - m) : m + k \in 1..n /\ p[k] = full[m + k] /\ p[k] \in R
  BY <1>1, <1>6
<1>8. p \in [1..(n - m) -> R]
  BY <1>7
<1>9. \A j, k \in 1..(n - m) : j < k => <<p[j], p[k]>> \in Before(S)
  BY <1>1, <1>2, <1>7
<1>10. \A i \in R : \E k \in 1..(n - m) : p[k] = i
  <2>1. TAKE i \in R
  <2>2. PICK k \in 1..n : full[k] = i
    BY <1>2, <1>5
  <2>3. m < k
    BY <1>6, <2>2
  <2>4. k - m \in 1..(n - m) /\ m + (k - m) = k
    BY <1>1, <2>3
  <2> QED BY <1>7, <2>2, <2>4
<1> HIDE DEF p
<1>11. \A j, k \in 1..(n - m) : p[j] = p[k] => j = k
  <2>1. TAKE j, k \in 1..(n - m)
  <2>2. j < k \/ k < j \/ j = k
    BY <1>1
  <2>3. p[j] \in S
    BY <1>5, <1>8
  <2> QED BY <1>3, <1>9, <2>2, <2>3
<1>12. Cardinality(R) = n - m
  <2>1. IsFiniteSet(1..(n - m)) /\ Cardinality(1..(n - m)) = n - m
    BY <1>1, FS_Interval
  <2>2. p \in Bijection(1..(n - m), R)
    BY <1>8, <1>10, <1>11 DEF Bijection, Injection, IsInjective, Surjection
  <2>3. ExistsBijection(1..(n - m), R)
    BY <2>2 DEF ExistsBijection
  <2> QED BY <2>1, <2>3, FS_Bijection
<1>13. \A i, j \in R : <<i, j>> \in Before(R) <=> <<i, j>> \in Before(S)
  BY <1>5 DEF Before
<1>14. Sorts(p, R, Before(R))
  BY <1>8, <1>9, <1>10, <1>12, <1>13 DEF Sorts
<1>15. Sorted(R) = p
  BY <1>5, <1>14, SortedSorts DEF S
<1> QED BY <1>15 DEF S, R, n, full, p

\* The page after the first m.
LEMMA PageFrom ==
  ASSUME NInv, NEW o, NEW pins, NEW limit \in Nat \ {0},
         NEW m \in 0..Cardinality(Listed(o, pins))
  PROVE  LET n == Cardinality(Listed(o, pins))
             full == Sorted(Listed(o, pins))
             top == IF m + limit < n THEN m + limit ELSE n
         IN Page(o, pins, limit, IF m = 0 THEN 0 ELSE full[m])
              = [items |-> SubSeq(full, m + 1, top), next |-> IF top < n THEN full[top] ELSE 0]
<1> DEFINE S == Listed(o, pins)
           n == Cardinality(S)
           full == Sorted(S)
           top == IF m + limit < n THEN m + limit ELSE n
           cursor == IF m = 0 THEN 0 ELSE full[m]
           rest == {i \in S : cursor = 0 \/ AfterCursor(i, cursor)}
           p == [k \in 1..(n - m) |-> full[m + k]]
           size == IF Len(p) < limit THEN Len(p) ELSE limit
<1>1. n \in Nat /\ m \in 0..n /\ n - m \in Nat
  BY ListedOrders
<1>2. full \in [1..n -> S] /\ \A i \in S : i \in Nat \ {0}
  BY SortedSorts, ListedIs DEF Sorts
<1>3. Sorted(rest) = p
  <2>1. CASE m = 0
    <3>1. rest = S
      BY <2>1
    <3>2. p = full
      BY <1>1, <1>2, <2>1
    <3> QED BY <3>1, <3>2
  <2>2. CASE m # 0
    <3>1. m \in 1..n /\ cursor = full[m] /\ cursor # 0
      BY <1>1, <1>2, <2>2
    <3>2. rest = {i \in S : AfterCursor(i, full[m])}
      BY <3>1
    <3> HIDE DEF rest, p
    <3>3. Sorted({i \in S : AfterCursor(i, full[m])}) = p
      BY <3>1, RestOf DEF p
    <3> QED BY <3>2, <3>3
  <2> QED BY <2>1, <2>2
<1>4. Page(o, pins, limit, cursor)
        = [items |-> SubSeq(p, 1, size), next |-> IF Len(p) > limit THEN SubSeq(p, 1, size)[limit] ELSE 0]
  <2>1. Page(o, pins, limit, cursor)
          = LET sorted == Sorted(rest)
                items == SubSeq(sorted, 1, IF Len(sorted) < limit THEN Len(sorted) ELSE limit)
            IN [items |-> items, next |-> IF Len(sorted) > limit THEN items[limit] ELSE 0]
    BY DEF Page
  <2> HIDE DEF p, rest, cursor
  <2> QED BY <1>3, <2>1
<1> HIDE DEF S, n, full
<1>5. \A k \in 1..(n - m) : m + k \in 1..n /\ full[m + k] \in S
  BY <1>1, <1>2
<1>6. p \in Seq(S) /\ Len(p) = n - m /\ \A k \in 1..(n - m) : p[k] = full[m + k]
  BY <1>1, <1>5
<1>7. size \in 0..(n - m) /\ top = m + size /\ (Len(p) > limit <=> top < n)
      /\ (top < n => size = limit)
  BY <1>1, <1>6
<1> HIDE DEF p, size, top, cursor
<1> DEFINE a == SubSeq(p, 1, size)
           b == SubSeq(full, m + 1, top)
<1>8. a \in Seq(S) /\ Len(a) = size /\ \A k \in 1..size : a[k] = full[m + k]
  <2>1. \A k \in 1..size : p[k] \in S /\ p[k] = full[m + k]
    BY <1>1, <1>5, <1>6, <1>7
  <2>2. size \in Int /\ 1 \in Int
    BY <1>7
  <2>3. /\ a \in Seq(S) /\ Len(a) = IF 1 <= size THEN size - 1 + 1 ELSE 0
        /\ \A k \in 1..(size - 1 + 1) : a[k] = p[1 + k - 1]
    BY <2>1, <2>2, SubSeqProperties
  <2> HIDE DEF a
  <2>4. size \in Nat
    BY <1>1, <1>7
  <2>5. \A k \in 1..size : 1 + k - 1 = k
    BY <2>4
  <2> QED BY <2>1, <2>3, <2>4, <2>5
<1>9. b \in Seq(S) /\ Len(b) = size /\ \A k \in 1..size : b[k] = full[m + k]
  <2>1. \A k \in (m + 1)..top : full[k] \in S
    BY <1>1, <1>2, <1>7
  <2>2. m + 1 \in Int /\ top \in Int /\ m \in Nat /\ size \in Nat
    BY <1>1, <1>7
  <2>3. /\ b \in Seq(S) /\ Len(b) = IF m + 1 <= top THEN top - (m + 1) + 1 ELSE 0
        /\ \A k \in 1..(top - (m + 1) + 1) : b[k] = full[m + 1 + k - 1]
    BY <2>1, <2>2, SubSeqProperties
  <2> HIDE DEF b
  <2>4. top - (m + 1) + 1 = size
    BY <1>7, <2>2
  <2>5. \A k \in 1..size : m + 1 + k - 1 = m + k
    BY <2>2
  <2> QED BY <1>7, <2>2, <2>3, <2>4, <2>5
<1> HIDE DEF a, b
<1>10. a = b
  BY <1>8, <1>9, SeqEqual
<1>11. top < n => a[limit] = full[top]
  BY <1>7, <1>8
<1>12. Page(o, pins, limit, cursor) = [items |-> a, next |-> IF Len(p) > limit THEN a[limit] ELSE 0]
  BY <1>4 DEF a
<1>13. Page(o, pins, limit, cursor) = [items |-> b, next |-> IF top < n THEN full[top] ELSE 0]
  BY <1>7, <1>10, <1>11, <1>12
<1> QED BY <1>13 DEF S, n, full, top, cursor, b

\* Two parts of a sequence that follow each other.
LEMMA PartsJoin ==
  ASSUME NEW S, NEW s, NEW n \in Nat, s \in [1..n -> S], NEW m \in 0..n, NEW top \in m..n
  PROVE  SubSeq(s, 1, m) \o SubSeq(s, m + 1, top) = SubSeq(s, 1, top)
<1> DEFINE a == SubSeq(s, 1, m)
           b == SubSeq(s, m + 1, top)
           c == SubSeq(s, 1, top)
<1>1. a \in Seq(S) /\ Len(a) = m /\ \A k \in 1..m : a[k] = s[k]
  OBVIOUS
<1>2. b \in Seq(S) /\ Len(b) = top - m /\ \A k \in 1..(top - m) : b[k] = s[m + k]
  OBVIOUS
<1>3. c \in Seq(S) /\ Len(c) = top /\ \A k \in 1..top : c[k] = s[k]
  OBVIOUS
<1> HIDE DEF a, b, c
<1>4. /\ a \o b \in Seq(S) /\ Len(a \o b) = Len(a) + Len(b)
      /\ \A k \in 1..(Len(a) + Len(b)) : (a \o b)[k] = IF k <= Len(a) THEN a[k] ELSE b[k - Len(a)]
  BY <1>1, <1>2, ConcatProperties
<1>5. \A k \in 1..top : (a \o b)[k] = c[k]
  BY <1>1, <1>2, <1>3, <1>4
<1>6. Len(a \o b) = Len(c) /\ \A k \in 1..Len(a \o b) : (a \o b)[k] = c[k]
  BY <1>1, <1>2, <1>3, <1>4, <1>5
<1>7. a \o b = c
  BY <1>3, <1>4, <1>6, SeqEqual
<1> QED BY <1>7 DEF a, b, c

\* What a client has read after each page is a beginning of the sorted notes,
\* one page longer than before; MaxNotes pages more than reach the end.
LEMMA WalkIs ==
  ASSUME NInv, NEW o, NEW pins, NEW limit \in Nat \ {0}
  PROVE  Walk(o, pins, limit) = [items |-> Sorted(Listed(o, pins)), next |-> 0]
<1> DEFINE S == Listed(o, pins)
           n == Cardinality(S)
           full == Sorted(S)
           M(k) == IF (k + 1) * limit < n THEN (k + 1) * limit ELSE n
           After(m) == [items |-> SubSeq(full, 1, m), next |-> IF m < n THEN full[m] ELSE 0]
           C == [k \in Nat |-> After(M(k))]
           Further(before) ==
             IF before.next = 0 THEN before
             ELSE LET page == Page(o, pins, limit, before.next)
                  IN [items |-> before.items \o page.items, next |-> page.next]
           First == Page(o, pins, limit, 0)
           Solves(w) == w = [k \in Nat |-> IF k = 0 THEN First ELSE Further(w[k - 1])]
<1>1. n \in 0..MaxNotes /\ n \in Nat /\ MaxNotes \in Nat /\ limit \in Nat /\ limit > 0
  BY ListedIs, NotesAssumption
<1>2. full \in [1..n -> S] /\ \A i \in S : i \in Nat \ {0}
  BY SortedSorts, ListedIs DEF Sorts
<1>3. ASSUME NEW m \in 0..n
      PROVE  LET top == IF m + limit < n THEN m + limit ELSE n IN
             Page(o, pins, limit, IF m = 0 THEN 0 ELSE full[m])
               = [items |-> SubSeq(full, m + 1, top), next |-> IF top < n THEN full[top] ELSE 0]
  BY PageFrom
<1> HIDE DEF S, n, full
<1>4. First = After(M(0))
  <2>1. /\ 0 \in 0..n /\ 0 + 1 = 1 /\ (0 + 1) * limit = 0 + limit
    BY <1>1
  <2> QED BY <1>3, <2>1
<1>5. ASSUME NEW k \in Nat
      PROVE  Further(After(M(k))) = After(M(k + 1))
  <2>1. (k + 1) * limit \in Nat \ {0} /\ (k + 1 + 1) * limit = (k + 1) * limit + limit
    BY <1>1
  <2>2. M(k) \in 0..n
    BY <1>1, <2>1
  <2>3. CASE ~((k + 1) * limit < n)
    <3>1. M(k) = n /\ M(k + 1) = n
      BY <1>1, <2>1, <2>3
    <3> HIDE DEF M
    <3>2. ~(n < n)
      BY <1>1
    <3>3. After(n).next = 0
      BY <3>2
    <3> HIDE DEF After
    <3> QED BY <3>1, <3>3
  <2>4. CASE (k + 1) * limit < n
    <3> DEFINE m == (k + 1) * limit
               top == IF m + limit < n THEN m + limit ELSE n
    <3>1. M(k) = m /\ M(k + 1) = top
      BY <2>1, <2>4
    <3>2. m \in 1..n /\ m < n /\ m # 0
      BY <1>1, <2>1, <2>4
    <3>3. top \in m..n
      BY <1>1, <3>2
    <3> HIDE DEF m, M
    <3>4. full[m] \in Nat \ {0}
      BY <1>2, <3>2
    <3>5. Page(o, pins, limit, full[m])
            = [items |-> SubSeq(full, m + 1, top), next |-> IF top < n THEN full[top] ELSE 0]
      <4>1. m \in 0..n
        BY <1>1, <3>2
      <4>2. Page(o, pins, limit, IF m = 0 THEN 0 ELSE full[m])
              = [items |-> SubSeq(full, m + 1, top), next |-> IF top < n THEN full[top] ELSE 0]
        BY <1>3, <4>1
      <4> QED BY <3>2, <4>2
    <3> HIDE DEF top
    <3>6. SubSeq(full, 1, m) \o SubSeq(full, m + 1, top) = SubSeq(full, 1, top)
      BY <1>1, <1>2, <3>2, <3>3, PartsJoin
    <3>7. After(m).items = SubSeq(full, 1, m) /\ After(m).next = full[m]
      BY <3>2
    <3>8. Further(After(m))
            = [items |-> SubSeq(full, 1, top), next |-> IF top < n THEN full[top] ELSE 0]
      <4>1. Page(o, pins, limit, After(m).next)
              = [items |-> SubSeq(full, m + 1, top), next |-> IF top < n THEN full[top] ELSE 0]
        BY <3>5, <3>7
      <4>2. After(m).next # 0
        BY <3>4, <3>7
      <4> HIDE DEF After
      <4> DEFINE page == [items |-> SubSeq(full, m + 1, top), next |-> IF top < n THEN full[top] ELSE 0]
      <4>3. Further(After(m)) = [items |-> After(m).items \o page.items, next |-> page.next]
        <5> HIDE DEF page
        <5>1. Page(o, pins, limit, After(m).next) = page
          BY <4>1 DEF page
        <5> QED BY <4>2, <5>1 DEF Further
      <4>4. page.items = SubSeq(full, m + 1, top) /\ page.next = IF top < n THEN full[top] ELSE 0
        OBVIOUS
      <4> HIDE DEF page
      <4> QED BY <3>6, <3>7, <4>3, <4>4
    <3> QED BY <3>1, <3>8
  <2> QED BY <2>3, <2>4
<1> HIDE DEF First, After, M, Further
<1>6. Solves(C)
  <2>1. ASSUME NEW k \in Nat
        PROVE  C[k] = IF k = 0 THEN First ELSE Further(C[k - 1])
    <3>1. CASE k = 0
      BY <1>4, <3>1
    <3>2. CASE k # 0
      <4>1. k - 1 \in Nat /\ k - 1 + 1 = k
        BY <3>2
      <4>2. Further(After(M(k - 1))) = After(M(k))
        BY <1>5, <4>1
      <4> QED BY <3>2, <4>1, <4>2
    <3> QED BY <3>1, <3>2
  <2> QED BY <2>1
<1> DEFINE walk == CHOOSE w : Solves(w)
<1>7. Solves(walk)
  <2> HIDE DEF C, Solves
  <2> QED BY <1>6, Zenon
<1>8. Walk(o, pins, limit) = walk[MaxNotes]
  BY DEF Walk, First, Further
<1> HIDE DEF walk
<1>9. /\ walk[0] = First
      /\ \A k \in Nat : walk[k + 1] = Further(walk[k])
  <2>1. \A k \in Nat : walk[k] = IF k = 0 THEN First ELSE Further(walk[k - 1])
    BY <1>7
  <2>2. \A k \in Nat : k + 1 \in Nat /\ k + 1 # 0 /\ k + 1 - 1 = k
    OBVIOUS
  <2> QED BY <2>1, <2>2
<1>10. \A k \in Nat : walk[k] = After(M(k))
  <2> DEFINE T == {k \in Nat : walk[k] = After(M(k))}
  <2>1. 0 \in T
    BY <1>4, <1>9
  <2>2. \A k \in Nat : k \in T => k + 1 \in T
    BY <1>5, <1>9
  <2> HIDE DEF T
  <2>3. Nat \subseteq T
    BY <2>1, <2>2, AllNaturals
  <2> QED BY <2>3 DEF T
<1>11. M(MaxNotes) = n
  <2>1. (MaxNotes + 1) * limit >= MaxNotes + 1
    BY <1>1
  <2> QED BY <1>1, <2>1 DEF M
<1>12. After(n) = [items |-> full, next |-> 0]
  <2>1. full \in Seq(S) /\ Len(full) = n
    BY <1>1, <1>2
  <2>2. SubSeq(full, 1, n) = full
    BY <2>1, SubSeqFull
  <2> QED BY <1>1, <2>2 DEF After
<1> QED BY <1>1, <1>8, <1>10, <1>11, <1>12 DEF full, S

\* A client that follows the cursors reads every current note once and in
\* order, for every number of notes, of revisions of one time and of requests
\* (list_current, _decode_cursor).
THEOREM PagesAreCompleteCorrect == NotesSpec => []PagesAreComplete
<1>1. IInv => PagesAreComplete
  <2>1. 1..2 \subseteq Nat \ {0}
    OBVIOUS
  <2> QED BY <2>1, WalkIs DEF IInv, PagesAreComplete
<1> QED BY <1>1, Invariance, PTL

\* And so it does with every page size.
EveryPageSize ==
  \A o \in Opportunities, pins \in SUBSET BOOLEAN, limit \in Nat \ {0} :
    Walk(o, pins, limit) = [items |-> Sorted(Listed(o, pins)), next |-> 0]

\* Pages are complete whatever page size a client asks for (list_current).
THEOREM EveryPageSizeCorrect == NotesSpec => []EveryPageSize
<1>1. IInv => EveryPageSize
  BY WalkIs DEF IInv, EveryPageSize
<1> QED BY <1>1, Invariance, PTL

================================================================================
