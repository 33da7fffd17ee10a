-------------------------- MODULE OpportunityProofs --------------------------
(***************************************************************************)
(* Theorems of Opportunity, and of Reports, which observes it, for every   *)
(* set of opportunities, customers, products, clients, requests and        *)
(* readers, every filter, page size and bound.                             *)
(***************************************************************************)
EXTENDS Reports, Inductions, TLAPS

USE DEF vars, rowVars, eventVars, noticeVars, Statuses, Active, Terminal, Kinds, Results,
        Transactions, ReopenRequests, Readings, HistoryEntries, LossEvents, ReopenEvents

\* A row belongs to a customer from its creation on.
RowsOK == \A o \in Created : customer[o] \in Customers /\ source[o] \in Sources

\* What the transaction that holds the row of c has checked still holds.
HeldOK(c) ==
  LET t == pending[c]
      o == t.opportunity
  IN
  /\ t.op = "create" => o \notin Created /\ t.arg \in Sources
  /\ t.op # "create" =>
       o \in Created \ deleted /\ customer[o] = c /\ products[o] # {}
  /\ t.op = "regress" => status[o] \in {"GANADA", "NEGOCIACION"}
  /\ t.op = "reopen" =>
       /\ status[o] = "PERDIDA" /\ losses[o] # <<>>
       /\ t.arg \in Requests /\ request[t.arg] # Nobody
       /\ request[t.arg].result = "holding" /\ request[t.arg].opportunity = o
PendingOK == \A c \in Customers : pending[c] # Nobody => HeldOK(c)

\* Its opportunity is about to be the only active WhatsApp one of c.
AloneOK ==
  \A c \in Customers :
    LET o == pending[c].opportunity IN
    /\ pending[c] # Nobody
    /\ (IF pending[c].op = "create" THEN pending[c].arg ELSE source[o]) = "WHATSAPP"
    => OtherActiveWhatsApp(c, o) = {}

\* No two transactions hold the same opportunity.
DistinctOK ==
  \A c, d \in Customers :
    /\ pending[c] # Nobody /\ pending[d] # Nobody
    /\ pending[c].opportunity = pending[d].opportunity
    => c = d

TypeInv == TypeOK /\ RowsOK /\ PendingOK /\ DistinctOK
-----------------------------------------------------------------------------
(* Types.                                                                  *)

LEMMA InitType == Init => TypeInv
BY OpportunityAssumption
   DEF Init, TypeInv, TypeOK, RowsOK, PendingOK, DistinctOK, Created

\* What a change of status keeps of the types.
LEMMA TransitionType ==
  ASSUME TypeOK, NEW o \in Opportunities, NEW to \in Statuses, NEW kind \in Kinds,
         status[o] # "none", Transition(o, to, kind)
  PROVE  /\ status' \in [Opportunities -> Statuses \cup {"none"}]
         /\ version' \in [Opportunities -> Nat]
         /\ history' \in [Opportunities -> Seq(HistoryEntries)]
         /\ overdue' \subseteq Opportunities /\ notices' \subseteq Opportunities
         /\ scan' = Nobody \/ scan' \subseteq Opportunities
         /\ overlaps' \in 0..MaxOverlaps
         /\ deleted \subseteq Created'
<1>1. /\ status' = [status EXCEPT ![o] = to] /\ version' = [version EXCEPT ![o] = @ + 1]
      /\ notices' \subseteq Opportunities /\ overdue' \subseteq Opportunities
  BY DEF Transition, TypeOK, Resolve
<1>2. /\ status' \in [Opportunities -> Statuses \cup {"none"}]
      /\ version' \in [Opportunities -> Nat]
  BY <1>1 DEF TypeOK
<1>3. history' \in [Opportunities -> Seq(HistoryEntries)]
  <2>1. [from |-> status[o], to |-> to, kind |-> kind] \in HistoryEntries
    BY DEF TypeOK
  <2>2. Append(history[o], [from |-> status[o], to |-> to, kind |-> kind]) \in Seq(HistoryEntries)
    BY <2>1 DEF TypeOK
  <2> QED BY <2>2 DEF TypeOK, Transition
<1>4. overlaps' \in 0..MaxOverlaps
  BY OpportunityAssumption DEF Transition, Overlap, TypeOK
<1>5. scan' = Nobody \/ scan' \subseteq Opportunities
  BY DEF Transition, TypeOK
<1>6. deleted \subseteq Created'
  BY <1>1 DEF TypeOK, Created
<1> QED BY <1>1, <1>2, <1>3, <1>4, <1>5, <1>6

LEMMA RecomputeType ==
  ASSUME TypeOK, NEW c \in Customers, NEW st, NEW del, Recompute(c, st, del)
  PROVE  legendary' \subseteq Customers
BY DEF Recompute, TypeOK
LEMMA TypeStep ==
  ASSUME TypeInv, [Next]_vars
  PROVE  TypeOK'
<1> USE OpportunityAssumption
<1> TypeOK BY DEF TypeInv
<1>1. ASSUME NEW c \in Customers, NEW s \in Sources, BeginCreate(c, s) PROVE TypeOK'
  <2>1. PICK o \in Opportunities \ Created :
          pending' = [pending EXCEPT ![c] = [op |-> "create", opportunity |-> o, arg |-> s]]
    BY <1>1 DEF BeginCreate
  <2>2. [op |-> "create", opportunity |-> o, arg |-> s] \in Transactions
    OBVIOUS
  <2>3. pending' \in [Customers -> Transactions \cup {Nobody}]
    BY <2>1, <2>2 DEF TypeOK
  <2> QED BY <1>1, <2>3 DEF BeginCreate, TypeOK, Created
<1>2. ASSUME NEW c \in Customers, CommitCreate(c) PROVE TypeOK'
  <2> DEFINE o == pending[c].opportunity
             entry == [from |-> "none", to |-> "NUEVA", kind |-> "CREATED"]
  <2>1. o \in Opportunities /\ pending[c].arg \in Sources /\ o \notin Created
    BY <1>2 DEF CommitCreate, Unheld, TypeInv, TypeOK, PendingOK, HeldOK
  <2>2. <<entry>> \in Seq(HistoryEntries)
    OBVIOUS
  <2>3. history' \in [Opportunities -> Seq(HistoryEntries)]
    BY <1>2, <2>1, <2>2 DEF CommitCreate, TypeOK
  <2>4. legendary' \subseteq Customers
    BY <1>2, RecomputeType DEF CommitCreate
  <2>5. /\ status' \in [Opportunities -> Statuses \cup {"none"}]
        /\ customer' \in [Opportunities -> Customers \cup {Nobody}]
        /\ source' \in [Opportunities -> Sources \cup {Nobody}]
        /\ version' \in [Opportunities -> Nat]
        /\ pending' \in [Customers -> Transactions \cup {Nobody}]
    BY <1>2, <2>1 DEF CommitCreate, TypeOK
  <2>6. deleted' \subseteq Created'
    BY <1>2, <2>1 DEF CommitCreate, TypeOK, Created
  <2> QED BY <1>2, <2>3, <2>4, <2>5, <2>6 DEF CommitCreate, TypeOK
<1>3. ASSUME NEW o \in Opportunities, BeginRegress(o) PROVE TypeOK'
  BY <1>3 DEF BeginRegress, TypeOK, Created, Free, TypeInv, RowsOK
<1>4. ASSUME NEW c \in Customers, CommitRegress(c) PROVE TypeOK'
  <2> DEFINE o == pending[c].opportunity
             to == Regressed(status[o])
  <2>1. o \in Opportunities /\ status[o] # "none" /\ to \in Statuses
    BY <1>4 DEF CommitRegress, Unheld, TypeInv, TypeOK, PendingOK, HeldOK, Created, Regressed
  <2>2. Transition(o, to, "STATUS_CHANGED")
    BY <1>4 DEF CommitRegress
  <2>3. legendary' \subseteq Customers
    BY <1>4, RecomputeType DEF CommitRegress
  <2> HIDE DEF o, to
  <2> QED BY <1>4, <2>1, <2>2, <2>3, TransitionType DEF CommitRegress, TypeOK
<1>5. ASSUME NEW q \in Requests, NEW o \in Opportunities, NEW k \in Commands, LookUpReopen(q, o, k)
      PROVE  TypeOK'
  BY <1>5 DEF LookUpReopen, TypeOK, Created
<1>6. ASSUME NEW q \in Requests, BeginReopen(q) \/ RefuseReopen(q) \/ Forget(q) PROVE TypeOK'
  <2>1. CASE BeginReopen(q)
    <3>1. request[q] \in ReopenRequests
      BY <2>1 DEF BeginReopen, TypeOK
    <3>2. request' \in [Requests -> ReopenRequests \cup {Nobody}]
      BY <2>1, <3>1 DEF BeginReopen, TypeOK
    <3>3. status[request[q].opportunity] = "PERDIDA"
      BY <2>1 DEF BeginReopen, MayReopen
    <3>4. customer[request[q].opportunity] \in Customers
      BY <3>1, <3>3 DEF TypeInv, RowsOK, Created
    <3>5. pending' \in [Customers -> Transactions \cup {Nobody}]
      BY <2>1, <3>1, <3>4 DEF BeginReopen, TypeOK
    <3> QED BY <2>1, <3>2, <3>5 DEF BeginReopen, TypeOK, Created
  <2>2. CASE RefuseReopen(q)
    <3>1. request[q] \in ReopenRequests
      BY <2>2 DEF RefuseReopen, TypeOK
    <3>2. [request[q] EXCEPT !.result = "refused"] \in ReopenRequests
      BY <3>1
    <3>3. request' = [request EXCEPT ![q] = [request[q] EXCEPT !.result = "refused"]]
      BY <2>2 DEF RefuseReopen
    <3>4. request' \in [Requests -> ReopenRequests \cup {Nobody}]
      BY <3>2, <3>3 DEF TypeOK
    <3> QED BY <2>2, <3>4 DEF RefuseReopen, TypeOK, Created
  <2>3. CASE Forget(q)
    BY <2>3 DEF Forget, TypeOK, Created
  <2> QED BY <1>6, <2>1, <2>2, <2>3
<1>7. ASSUME NEW c \in Customers, CommitReopen(c) PROVE TypeOK'
  <2> DEFINE o == pending[c].opportunity
             q == pending[c].arg
             event == [entry |-> NextEntry(o), loss |-> Len(losses[o]), command |-> request[q].command]
  <2>1. /\ o \in Opportunities /\ status[o] # "none"
        /\ q \in Requests /\ request[q] \in ReopenRequests
    BY <1>7 DEF CommitReopen, Unheld, TypeInv, TypeOK, PendingOK, HeldOK
  <2>2. request' \in [Requests -> ReopenRequests \cup {Nobody}]
    <3>1. \A x \in Results : [request[q] EXCEPT !.result = x] \in ReopenRequests
      BY <2>1
    <3>2. \E x \in Results : request' = [request EXCEPT ![q] = [request[q] EXCEPT !.result = x]]
      <4>1. CASE Reopened(request[q].command) = {}
        BY <1>7, <4>1 DEF CommitReopen
      <4>2. CASE Reopened(request[q].command) # {}
        BY <1>7, <4>2 DEF CommitReopen
      <4> QED BY <4>1, <4>2
    <3>3. PICK x \in Results :
            request' = [request EXCEPT ![q] = [request[q] EXCEPT !.result = x]]
      BY <3>2
    <3>4. [request[q] EXCEPT !.result = x] \in ReopenRequests
      BY <3>1
    <3> HIDE DEF q
    <3> QED BY <2>1, <3>3, <3>4 DEF TypeOK
  <2>3. pending' \in [Customers -> Transactions \cup {Nobody}]
    BY <1>7 DEF CommitReopen, TypeOK
  <2>4. CASE Reopened(request[q].command) = {}
    <3>1. event \in ReopenEvents
      <4>1. history[o] \in Seq(HistoryEntries) /\ losses[o] \in Seq(LossEvents)
        BY <2>1 DEF TypeOK
      <4>2. Len(history[o]) \in Nat /\ Len(losses[o]) \in Nat
        BY <4>1
      <4> QED BY <2>1, <4>2 DEF NextEntry
    <3>2. Append(reopens[o], event) \in Seq(ReopenEvents)
      <4>1. reopens[o] \in Seq(ReopenEvents)
        BY <2>1 DEF TypeOK
      <4> HIDE DEF event, o
      <4> QED BY <3>1, <4>1
    <3>3. reopens' \in [Opportunities -> Seq(ReopenEvents)]
      BY <1>7, <2>1, <2>4, <3>2 DEF CommitReopen, TypeOK
    <3>4. Transition(o, "NEGOCIACION", "REOPENED")
      BY <1>7, <2>4 DEF CommitReopen
    <3> HIDE DEF o, q, event
    <3> QED BY <1>7, <2>1, <2>2, <2>3, <2>4, <3>3, <3>4, TransitionType DEF CommitReopen, TypeOK
  <2>5. CASE Reopened(request[q].command) # {}
    BY <1>7, <2>2, <2>3, <2>5 DEF CommitReopen, TypeOK, Created
  <2> QED BY <2>4, <2>5
<1>8. ASSUME NEW c \in Customers, RollBack(c) PROVE TypeOK'
  <2>1. request' \in [Requests -> ReopenRequests \cup {Nobody}]
    <3>1. CASE pending[c].op = "reopen"
      <4>1. pending[c].arg \in Requests /\ request[pending[c].arg] \in ReopenRequests
        BY <1>8, <3>1 DEF RollBack, Unheld, TypeInv, TypeOK, PendingOK, HeldOK
      <4> QED BY <1>8, <3>1, <4>1 DEF RollBack, TypeOK
    <3> QED BY <1>8, <3>1 DEF RollBack, TypeOK
  <2> QED BY <1>8, <2>1 DEF RollBack, TypeOK, Created
<1>9. ASSUME NEW o \in Opportunities, NEW P \in SUBSET Products, Quote(o, P) PROVE TypeOK'
  <2>1. customer[o] \in Customers /\ status[o] # "none"
    BY <1>9 DEF Quote, TypeInv, RowsOK, Created
  <2>2. legendary' \subseteq Customers
    BY <1>9, <2>1, RecomputeType DEF Quote
  <2>3. products' \in [Opportunities -> SUBSET Products]
    BY <1>9 DEF Quote, TypeOK
  <2>4. Transition(o, "COTIZADA", "STATUS_CHANGED")
    BY <1>9 DEF Quote
  <2> QED BY <1>9, <2>1, <2>2, <2>3, <2>4, TransitionType DEF Quote, TypeOK
<1>10. ASSUME NEW o \in Opportunities, Advance(o) PROVE TypeOK'
  <2>1. /\ status[o] # "none" /\ Advanced(status[o]) \in Statuses
        /\ Transition(o, Advanced(status[o]), "STATUS_CHANGED")
    BY <1>10 DEF Advance, Advanced
  <2> DEFINE to == Advanced(status[o])
  <2> HIDE DEF to
  <2> QED BY <1>10, <2>1, TransitionType DEF Advance, TypeOK, to
<1>11. ASSUME NEW o \in Opportunities, Lose(o) PROVE TypeOK'
  <2> DEFINE event == [entry |-> NextEntry(o), products |-> products[o]]
  <2>1. event \in LossEvents
    <3>1. history[o] \in Seq(HistoryEntries) /\ products[o] \in SUBSET Products
      BY DEF TypeOK
    <3>2. Len(history[o]) \in Nat
      BY <3>1
    <3> QED BY <3>1, <3>2 DEF NextEntry
  <2>2. Append(losses[o], event) \in Seq(LossEvents)
    <3>1. losses[o] \in Seq(LossEvents)
      BY DEF TypeOK
    <3> HIDE DEF event
    <3> QED BY <2>1, <3>1
  <2>3. losses' \in [Opportunities -> Seq(LossEvents)]
    BY <1>11, <2>2 DEF Lose, TypeOK
  <2>4. status[o] # "none" /\ Transition(o, "PERDIDA", "LOST")
    BY <1>11 DEF Lose
  <2> HIDE DEF event
  <2> QED BY <1>11, <2>3, <2>4, TransitionType DEF Lose, TypeOK
<1>12. ASSUME NEW o \in Opportunities, Delete(o) PROVE TypeOK'
  <2>1. customer[o] \in Customers
    BY <1>12 DEF Delete, TypeInv, RowsOK
  <2>2. legendary' \subseteq Customers
    BY <1>12, <2>1, RecomputeType DEF Delete
  <2>3. overlaps' \in 0..MaxOverlaps /\ notices' \subseteq Opportunities
    <3>1. Overlap /\ notices' = notices \ {o}
      BY <1>12 DEF Delete, Resolve
    <3> QED BY <3>1 DEF Overlap, TypeOK
  <2>4. version' \in [Opportunities -> Nat]
    BY <1>12 DEF Delete, TypeOK
  <2>5. deleted' \subseteq Created'
    BY <1>12 DEF Delete, TypeOK, Created
  <2>6. scan' = Nobody \/ scan' \subseteq Opportunities
    BY <1>12 DEF Delete, TypeOK
  <2> QED BY <1>12, <2>2, <2>3, <2>4, <2>5, <2>6 DEF Delete, TypeOK
<1>13. ASSUME NEW k \in Clients, NEW o \in Opportunities, Read(k, o) PROVE TypeOK'
  BY <1>13 DEF Read, TypeOK, Created
<1>14. ASSUME NEW k \in Clients, NEW P \in SUBSET Products, EditQuote(k, P) PROVE TypeOK'
  <2>1. seen[k] \in Readings
    BY <1>14 DEF EditQuote, Fresh, TypeOK
  <2>2. version' \in [Opportunities -> Nat] /\ seen' \in [Clients -> Readings \cup {Nobody}]
    <3>1. seen' = [seen EXCEPT ![k] = Nobody]
      BY <1>14 DEF EditQuote
    <3>2. version' = [version EXCEPT ![seen[k].opportunity] = @ + 1]
      BY <1>14 DEF EditQuote, Bump
    <3>3. seen' \in [Clients -> Readings \cup {Nobody}]
      BY <3>1 DEF TypeOK
    <3>4. PICK o \in Opportunities : o = seen[k].opportunity
      BY <2>1
    <3>5. version' = [version EXCEPT ![o] = @ + 1] /\ version \in [Opportunities -> Nat]
      BY <3>2, <3>4 DEF TypeOK
    <3>6. version' \in [Opportunities -> Nat]
      BY <3>5
    <3> QED BY <3>3, <3>6
  <2>3. products' \in [Opportunities -> SUBSET Products]
    BY <1>14, <2>1 DEF EditQuote, TypeOK
  <2> QED BY <1>14, <2>2, <2>3 DEF EditQuote, TypeOK, Created
<1>15. ASSUME NEW k \in Clients, NEW u \in Assignees \cup {Nobody}, Assign(k, u) PROVE TypeOK'
  <2>1. seen[k] \in Readings
    BY <1>15 DEF Assign, Fresh, TypeOK
  <2>2. version' \in [Opportunities -> Nat] /\ seen' \in [Clients -> Readings \cup {Nobody}]
    <3>1. seen' = [seen EXCEPT ![k] = Nobody]
      BY <1>15 DEF Assign
    <3>2. version' = [version EXCEPT ![seen[k].opportunity] = @ + 1]
      BY <1>15 DEF Assign, Bump
    <3>3. seen' \in [Clients -> Readings \cup {Nobody}]
      BY <3>1 DEF TypeOK
    <3>4. PICK o \in Opportunities : o = seen[k].opportunity
      BY <2>1
    <3>5. version' = [version EXCEPT ![o] = @ + 1] /\ version \in [Opportunities -> Nat]
      BY <3>2, <3>4 DEF TypeOK
    <3>6. version' \in [Opportunities -> Nat]
      BY <3>5
    <3> QED BY <3>3, <3>6
  <2>3. assignee' \in [Opportunities -> Assignees \cup {Nobody}]
    BY <1>15, <2>1 DEF Assign, TypeOK
  <2> QED BY <1>15, <2>2, <2>3 DEF Assign, TypeOK, Created
<1>16. ASSUME NEW p \in Withdrawable, ToggleProduct(p) PROVE TypeOK'
  BY <1>16 DEF ToggleProduct, TypeOK, Created
<1>17. ASSUME NEW c \in Customers, ArchiveCustomer(c) PROVE TypeOK'
  BY <1>17 DEF ArchiveCustomer, TypeOK, Created
<1>18. ASSUME NEW o \in Opportunities, BecomesOverdue(o) \/ Matures(o) PROVE TypeOK'
  BY <1>18 DEF BecomesOverdue, Matures, TypeOK, Created
<1>19. ASSUME SelectStale PROVE TypeOK'
  BY <1>19 DEF SelectStale, Stale, TypeOK, Created
<1>20. ASSUME InsertStale PROVE TypeOK'
  BY <1>20 DEF InsertStale, TypeOK, Created
<1>21. ASSUME NEW c \in Customers, RecomputeJob(c) PROVE TypeOK'
  <2>1. legendary' \subseteq Customers
    BY <1>21, RecomputeType DEF RecomputeJob
  <2> QED BY <1>21, <2>1 DEF RecomputeJob, TypeOK, Created
<1>22. CASE UNCHANGED vars
  BY <1>22 DEF TypeOK, Created
<1> QED
  BY <1>1, <1>2, <1>3, <1>4, <1>5, <1>6, <1>7, <1>8, <1>9, <1>10, <1>11, <1>12, <1>13, <1>14,
     <1>15, <1>16, <1>17, <1>18, <1>19, <1>20, <1>21, <1>22 DEF Next
-----------------------------------------------------------------------------
(* What a step changes: nothing of the rows and their events, the row of   *)
(* one unlocked opportunity, or the row a pending transaction holds.       *)

Still == UNCHANGED <<rowVars, eventVars>>

RowStep(o) ==
  \/ \E P \in SUBSET Products : Quote(o, P)
  \/ Advance(o) \/ Lose(o) \/ Delete(o)
  \/ \E k \in Clients :
       /\ seen[k] # Nobody /\ seen[k].opportunity = o
       /\ \/ \E P \in SUBSET Products : EditQuote(k, P)
          \/ \E u \in Assignees \cup {Nobody} : Assign(k, u)

CommitStep(c) == CommitCreate(c) \/ CommitRegress(c) \/ CommitReopen(c)

Untouched(p) ==
  /\ status'[p] = status[p] /\ customer'[p] = customer[p] /\ source'[p] = source[p]
  /\ p \in deleted' <=> p \in deleted
  /\ products'[p] = products[p] /\ assignee'[p] = assignee[p] /\ version'[p] = version[p]
  /\ history'[p] = history[p] /\ losses'[p] = losses[p] /\ reopens'[p] = reopens[p]

\* Every step is of one of the three kinds.
LEMMA StepKinds ==
  ASSUME TypeInv, [Next]_vars
  PROVE  Still \/ (\E o \in Opportunities : RowStep(o)) \/ (\E c \in Customers : CommitStep(c))
<1>1. ASSUME NEW c \in Customers, NEW s \in Sources, BeginCreate(c, s) PROVE Still
  BY <1>1 DEF BeginCreate, Still
<1>2. ASSUME NEW c \in Customers, RollBack(c) \/ ArchiveCustomer(c) \/ RecomputeJob(c) PROVE Still
  BY <1>2 DEF RollBack, ArchiveCustomer, RecomputeJob, Still
<1>3. ASSUME NEW q \in Requests, NEW o \in Opportunities, NEW k \in Commands, LookUpReopen(q, o, k)
      PROVE  Still
  BY <1>3 DEF LookUpReopen, Still
<1>4. ASSUME NEW q \in Requests, BeginReopen(q) \/ RefuseReopen(q) \/ Forget(q) PROVE Still
  BY <1>4 DEF BeginReopen, RefuseReopen, Forget, Still
<1>5. ASSUME NEW o \in Opportunities, BeginRegress(o) \/ BecomesOverdue(o) \/ Matures(o) PROVE Still
  BY <1>5 DEF BeginRegress, BecomesOverdue, Matures, Still
<1>6. ASSUME NEW k \in Clients, NEW o \in Opportunities, Read(k, o) PROVE Still
  BY <1>6 DEF Read, Still
<1>7. ASSUME NEW p \in Withdrawable, ToggleProduct(p) PROVE Still
  BY <1>7 DEF ToggleProduct, Still
<1>8. ASSUME SelectStale \/ InsertStale PROVE Still
  BY <1>8 DEF SelectStale, InsertStale, Still
<1>9. ASSUME NEW k \in Clients,
             \/ \E P \in SUBSET Products : EditQuote(k, P)
             \/ \E u \in Assignees \cup {Nobody} : Assign(k, u)
      PROVE  \E o \in Opportunities : RowStep(o)
  <2>1. seen[k] \in Readings
    BY <1>9 DEF EditQuote, Assign, Fresh, TypeInv, TypeOK
  <2>2. seen[k] # Nobody
    BY <1>9 DEF EditQuote, Assign, Fresh
  <2> QED BY <1>9, <2>1, <2>2 DEF RowStep
<1>10. CASE UNCHANGED vars
  BY <1>10 DEF Still
<1> QED
  BY <1>1, <1>2, <1>3, <1>4, <1>5, <1>6, <1>7, <1>8, <1>9, <1>10 DEF Next, RowStep, CommitStep

LEMMA StillFrame ==
  ASSUME Still
  PROVE  \A p \in Opportunities : Untouched(p)
BY DEF Still, Untouched

\* What a change of status leaves of the other rows.
LEMMA TransitionFrame ==
  ASSUME TypeOK, NEW o \in Opportunities, NEW to, NEW kind, Transition(o, to, kind)
  PROVE  /\ status'[o] = to /\ version'[o] = version[o] + 1
         /\ history'[o] = Append(history[o], [from |-> status[o], to |-> to, kind |-> kind])
         /\ \A p \in Opportunities \ {o} :
              status'[p] = status[p] /\ version'[p] = version[p] /\ history'[p] = history[p]
BY DEF Transition, TypeOK

\* A command on one unlocked row.
LEMMA RowFrame ==
  ASSUME TypeInv, NEW o \in Opportunities, RowStep(o)
  PROVE  /\ o \in Created /\ ~Locked(o)
         /\ customer' = customer /\ source' = source /\ pending' = pending /\ request' = request
         /\ \A p \in Opportunities \ {o} : Untouched(p)
         /\ status'[o] \in Active => status[o] \in Active
         /\ status'[o] # "none"
         /\ deleted \subseteq deleted'
<1> TypeOK BY DEF TypeInv
<1>1. ASSUME NEW P \in SUBSET Products, Quote(o, P)
      PROVE  /\ o \in Created /\ ~Locked(o)
             /\ customer' = customer /\ source' = source /\ pending' = pending /\ request' = request
             /\ \A p \in Opportunities \ {o} : Untouched(p)
             /\ status[o] \in Active /\ status'[o] # "none" /\ deleted' = deleted
  <2>1. Transition(o, "COTIZADA", "STATUS_CHANGED")
    BY <1>1 DEF Quote
  <2>2. \A p \in Opportunities \ {o} : Untouched(p)
    BY <1>1, <2>1, TransitionFrame DEF Quote, Untouched, TypeOK
  <2>3. status'[o] = "COTIZADA"
    BY <2>1, TransitionFrame
  <2> QED BY <1>1, <2>2, <2>3 DEF Quote, Free
<1>2. ASSUME Advance(o)
      PROVE  /\ o \in Created /\ ~Locked(o)
             /\ customer' = customer /\ source' = source /\ pending' = pending /\ request' = request
             /\ \A p \in Opportunities \ {o} : Untouched(p)
             /\ status[o] \in Active /\ status'[o] # "none" /\ deleted' = deleted
  <2>1. Transition(o, Advanced(status[o]), "STATUS_CHANGED")
    BY <1>2 DEF Advance
  <2>2. \A p \in Opportunities \ {o} : Untouched(p)
    BY <1>2, <2>1, TransitionFrame DEF Advance, Untouched
  <2>3. status'[o] = Advanced(status[o])
    BY <2>1, TransitionFrame
  <2> QED BY <1>2, <2>2, <2>3 DEF Advance, Free, Advanced
<1>3. ASSUME Lose(o)
      PROVE  /\ o \in Created /\ ~Locked(o)
             /\ customer' = customer /\ source' = source /\ pending' = pending /\ request' = request
             /\ \A p \in Opportunities \ {o} : Untouched(p)
             /\ status[o] \in Active /\ status'[o] # "none" /\ deleted' = deleted
  <2>1. Transition(o, "PERDIDA", "LOST")
    BY <1>3 DEF Lose
  <2>2. \A p \in Opportunities \ {o} : losses'[p] = losses[p]
    BY <1>3 DEF Lose, TypeOK
  <2>3. \A p \in Opportunities \ {o} : Untouched(p)
    BY <1>3, <2>1, <2>2, TransitionFrame DEF Lose, Untouched
  <2>4. status'[o] = "PERDIDA"
    BY <2>1, TransitionFrame
  <2> QED BY <1>3, <2>3, <2>4 DEF Lose, Free
<1>4. ASSUME Delete(o)
      PROVE  /\ o \in Created /\ ~Locked(o)
             /\ customer' = customer /\ source' = source /\ pending' = pending /\ request' = request
             /\ \A p \in Opportunities \ {o} : Untouched(p)
             /\ status' = status /\ deleted \subseteq deleted'
  BY <1>4 DEF Delete, Untouched, TypeOK
<1>5. ASSUME NEW k \in Clients, seen[k] # Nobody, seen[k].opportunity = o,
             \/ \E P \in SUBSET Products : EditQuote(k, P)
             \/ \E u \in Assignees \cup {Nobody} : Assign(k, u)
      PROVE  /\ o \in Created /\ ~Locked(o)
             /\ customer' = customer /\ source' = source /\ pending' = pending /\ request' = request
             /\ \A p \in Opportunities \ {o} : Untouched(p)
             /\ status' = status /\ deleted' = deleted
  <2>1. /\ Fresh(k) /\ Bump(o)
        /\ UNCHANGED <<status, customer, source, deleted, eventVars, pending, request>>
    BY <1>5 DEF EditQuote, Assign
  <2>2. \A p \in Opportunities \ {o} : version'[p] = version[p]
    BY <2>1 DEF Bump, TypeOK
  <2>3. \A p \in Opportunities \ {o} : products'[p] = products[p] /\ assignee'[p] = assignee[p]
    BY <1>5 DEF EditQuote, Assign, TypeOK
  <2> QED BY <1>5, <2>1, <2>2, <2>3 DEF Fresh, Free, Untouched
<1>6. status' = status /\ o \in Created => status'[o] # "none"
  BY DEF Created
<1> QED BY <1>1, <1>2, <1>3, <1>4, <1>5, <1>6 DEF RowStep

\* The commit of a transaction that makes its opportunity active.
LEMMA CommitFrame ==
  ASSUME TypeInv, NEW c \in Customers, CommitStep(c)
  PROVE  LET o == pending[c].opportunity IN
         /\ pending[c] # Nobody /\ o \in Opportunities
         /\ pending' = [pending EXCEPT ![c] = Nobody]
         /\ \A p \in Opportunities \ {o} : Untouched(p)
         /\ status'[o] # "none" /\ deleted' = deleted
         /\ customer'[o] = c
         /\ source'[o] = IF pending[c].op = "create" THEN pending[c].arg ELSE source[o]
         /\ \A q \in Requests : request'[q] # request[q]
              => pending[c].op = "reopen" /\ q = pending[c].arg
<1> DEFINE o == pending[c].opportunity
<1> TypeOK BY DEF TypeInv
<1>1. /\ pending[c] # Nobody /\ o \in Opportunities /\ HeldOK(c)
      /\ pending' = [pending EXCEPT ![c] = Nobody]
  BY DEF CommitStep, CommitCreate, CommitRegress, CommitReopen, Unheld, TypeOK, TypeInv, PendingOK
<1>2. CASE CommitCreate(c)
  <2>1. \A p \in Opportunities \ {o} : Untouched(p)
    BY <1>1, <1>2 DEF CommitCreate, Untouched, TypeOK
  <2> QED BY <1>1, <1>2, <2>1 DEF CommitCreate, TypeOK
<1>3. CASE CommitRegress(c)
  <2>1. Transition(o, Regressed(status[o]), "STATUS_CHANGED")
    BY <1>3 DEF CommitRegress
  <2>2. \A p \in Opportunities \ {o} : Untouched(p)
    BY <1>1, <1>3, <2>1, TransitionFrame DEF CommitRegress, Untouched
  <2>3. status'[o] = Regressed(status[o])
    BY <1>1, <2>1, TransitionFrame
  <2> QED BY <1>1, <1>3, <2>2, <2>3 DEF CommitRegress, Regressed, HeldOK
<1>4. CASE CommitReopen(c)
  <2>1. \A q \in Requests : request'[q] # request[q] => q = pending[c].arg
    BY <1>4 DEF CommitReopen, TypeOK
  <2>2. CASE Reopened(request[pending[c].arg].command) = {}
    <3>1. Transition(o, "NEGOCIACION", "REOPENED")
      BY <1>4, <2>2 DEF CommitReopen
    <3>2. \A p \in Opportunities \ {o} : reopens'[p] = reopens[p]
      BY <1>1, <1>4, <2>2 DEF CommitReopen, TypeOK
    <3>3. \A p \in Opportunities \ {o} : Untouched(p)
      BY <1>1, <1>4, <3>1, <3>2, TransitionFrame DEF CommitReopen, Untouched
    <3>4. status'[o] = "NEGOCIACION"
      BY <1>1, <3>1, TransitionFrame
    <3> QED BY <1>1, <1>4, <2>1, <3>3, <3>4 DEF CommitReopen, HeldOK
  <2>3. CASE Reopened(request[pending[c].arg].command) # {}
    BY <1>1, <1>4, <2>1, <2>3 DEF CommitReopen, Untouched, HeldOK, Created
  <2> QED BY <2>2, <2>3
<1> QED BY <1>2, <1>3, <1>4 DEF CommitStep
-----------------------------------------------------------------------------
(* Pending transactions.                                                   *)

\* A transaction that goes on holding its rows, which nobody touches.
LEMMA HeldKept ==
  ASSUME TypeInv, NEW c \in Customers, pending[c] # Nobody, pending'[c] = pending[c],
         Untouched(pending[c].opportunity),
         pending[c].op = "reopen" => request'[pending[c].arg] = request[pending[c].arg]
  PROVE  HeldOK(c)'
<1>1. pending[c] \in Transactions /\ HeldOK(c)
  BY DEF TypeInv, TypeOK, PendingOK
<1> QED BY <1>1 DEF HeldOK, Untouched, Created

\* Two requests are never held by one transaction, nor one by two.
LEMMA RequestsDistinct ==
  ASSUME TypeInv, NEW c \in Customers, NEW d \in Customers,
         pending[c] # Nobody, pending[c].op = "reopen",
         pending[d] # Nobody, pending[d].op = "reopen", pending[c].arg = pending[d].arg
  PROVE  c = d
BY DEF TypeInv, PendingOK, HeldOK, DistinctOK

\* Nobody else answers the request a transaction works for.
LEMMA RequestKept ==
  ASSUME TypeInv, [Next]_vars, NEW c \in Customers, pending[c] # Nobody, pending[c].op = "reopen",
         pending'[c] = pending[c]
  PROVE  request'[pending[c].arg] = request[pending[c].arg]
<1> DEFINE q == pending[c].arg
<1> TypeOK BY DEF TypeInv
<1>1. q \in Requests /\ request[q] # Nobody /\ request[q].result = "holding"
  BY DEF TypeInv, PendingOK, HeldOK
<1>2. ASSUME NEW d \in Customers, CommitStep(d) PROVE request'[q] = request[q]
  <2>1. pending[d] # Nobody /\ pending' = [pending EXCEPT ![d] = Nobody]
    BY <1>2, CommitFrame
  <2>2. d # c
    BY <2>1 DEF TypeOK
  <2>3. pending[d].op = "reopen" => pending[d].arg # q
    BY <2>1, <2>2, RequestsDistinct
  <2> QED BY <1>1, <1>2, <2>3, CommitFrame
<1>3. ASSUME NEW d \in Customers, RollBack(d) PROVE request'[q] = request[q]
  <2>1. pending[d] # Nobody /\ d # c
    BY <1>3 DEF RollBack, Unheld, TypeOK
  <2>2. pending[d].op = "reopen" => pending[d].arg # q
    BY <2>1, RequestsDistinct
  <2> QED BY <1>1, <1>3, <2>2 DEF RollBack, TypeOK
<1>4. ASSUME NEW r \in Requests, BeginReopen(r) \/ RefuseReopen(r) \/ Forget(r)
      PROVE  request'[q] = request[q]
  BY <1>1, <1>4 DEF BeginReopen, RefuseReopen, Forget, TypeOK
<1>5. ASSUME NEW r \in Requests, NEW o \in Opportunities, NEW k \in Commands, LookUpReopen(r, o, k)
      PROVE  request'[q] = request[q]
  BY <1>1, <1>5 DEF LookUpReopen, TypeOK
<1>6. ASSUME NEW o \in Opportunities, RowStep(o) PROVE request'[q] = request[q]
  BY <1>6, RowFrame
<1>7. ASSUME NEW d \in Customers, NEW s \in Sources, BeginCreate(d, s) PROVE request'[q] = request[q]
  BY <1>7 DEF BeginCreate
<1>8. ASSUME NEW d \in Customers, ArchiveCustomer(d) \/ RecomputeJob(d) PROVE request'[q] = request[q]
  BY <1>8 DEF ArchiveCustomer, RecomputeJob
<1>9. ASSUME NEW o \in Opportunities, BeginRegress(o) \/ BecomesOverdue(o) \/ Matures(o)
      PROVE  request'[q] = request[q]
  BY <1>9 DEF BeginRegress, BecomesOverdue, Matures
<1>10. ASSUME NEW k \in Clients, NEW o \in Opportunities, Read(k, o) PROVE request'[q] = request[q]
  BY <1>10 DEF Read
<1>11. ASSUME NEW k \in Clients,
              \/ \E P \in SUBSET Products : EditQuote(k, P)
              \/ \E u \in Assignees \cup {Nobody} : Assign(k, u)
       PROVE  request'[q] = request[q]
  BY <1>11 DEF EditQuote, Assign
<1>12. ASSUME NEW p \in Withdrawable, ToggleProduct(p) PROVE request'[q] = request[q]
  BY <1>12 DEF ToggleProduct
<1>13. ASSUME SelectStale \/ InsertStale PROVE request'[q] = request[q]
  BY <1>13 DEF SelectStale, InsertStale
<1>14. CASE UNCHANGED vars
  BY <1>14
<1> QED
  BY <1>2, <1>3, <1>4, <1>5, <1>6, <1>7, <1>8, <1>9, <1>10, <1>11, <1>12, <1>13, <1>14
     DEF Next, CommitStep, RowStep

\* What changes the transaction that holds a customer: its start, by one of
\* the three commands, or its end.
Begins(c) ==
  \/ \E s \in Sources : BeginCreate(c, s)
  \/ \E o \in Opportunities : BeginRegress(o) /\ customer[o] = c
  \/ \E q \in Requests : BeginReopen(q) /\ customer[request[q].opportunity] = c

LEMMA PendingSteps ==
  ASSUME TypeInv, [Next]_vars, NEW c \in Customers, pending'[c] # Nobody, pending'[c] # pending[c]
  PROVE  Begins(c)
<1> TypeOK BY DEF TypeInv
<1>1. ASSUME NEW d \in Customers, CommitStep(d) PROVE FALSE
  BY <1>1, CommitFrame DEF TypeOK
<1>2. ASSUME NEW d \in Customers, RollBack(d) PROVE FALSE
  BY <1>2 DEF RollBack, TypeOK
<1>3. ASSUME NEW q \in Requests, BeginReopen(q) PROVE Begins(c)
  BY <1>3 DEF BeginReopen, TypeOK, Begins
<1>4. ASSUME NEW o \in Opportunities, BeginRegress(o) PROVE Begins(c)
  BY <1>4 DEF BeginRegress, TypeOK, Begins
<1>5. ASSUME NEW d \in Customers, NEW s \in Sources, BeginCreate(d, s) PROVE Begins(c)
  <2>1. \E x : pending' = [pending EXCEPT ![d] = x]
    BY <1>5 DEF BeginCreate
  <2>2. c = d
    BY <2>1 DEF TypeOK
  <2> QED BY <1>5, <2>2 DEF Begins
<1>6. ASSUME NEW q \in Requests, RefuseReopen(q) \/ Forget(q) PROVE FALSE
  BY <1>6 DEF RefuseReopen, Forget
<1>7. ASSUME NEW q \in Requests, NEW o \in Opportunities, NEW k \in Commands, LookUpReopen(q, o, k)
      PROVE  FALSE
  BY <1>7 DEF LookUpReopen
<1>8. ASSUME NEW o \in Opportunities, RowStep(o) PROVE FALSE
  BY <1>8, RowFrame
<1>9. ASSUME NEW d \in Customers, ArchiveCustomer(d) \/ RecomputeJob(d) PROVE FALSE
  BY <1>9 DEF ArchiveCustomer, RecomputeJob
<1>10. ASSUME NEW o \in Opportunities, BecomesOverdue(o) \/ Matures(o) PROVE FALSE
  BY <1>10 DEF BecomesOverdue, Matures
<1>11. ASSUME NEW k \in Clients, NEW o \in Opportunities, Read(k, o) PROVE FALSE
  BY <1>11 DEF Read
<1>12. ASSUME NEW k \in Clients,
              \/ \E P \in SUBSET Products : EditQuote(k, P)
              \/ \E u \in Assignees \cup {Nobody} : Assign(k, u)
       PROVE  FALSE
  BY <1>12 DEF EditQuote, Assign
<1>13. ASSUME NEW p \in Withdrawable, ToggleProduct(p) PROVE FALSE
  BY <1>13 DEF ToggleProduct
<1>14. ASSUME SelectStale \/ InsertStale PROVE FALSE
  BY <1>14 DEF SelectStale, InsertStale
<1>15. CASE UNCHANGED vars
  BY <1>15
<1> QED
  BY <1>1, <1>2, <1>3, <1>4, <1>5, <1>6, <1>7, <1>8, <1>9, <1>10, <1>11, <1>12, <1>13, <1>14, <1>15
     DEF Next, CommitStep, RowStep
\* What a transaction has checked when it begins.
LEMMA BeginFrame ==
  ASSUME TypeInv, NEW c \in Customers, Begins(c)
  PROVE  /\ Still
         /\ \E t \in Transactions :
              /\ pending' = [pending EXCEPT ![c] = t]
              /\ \A d \in Customers : pending[d] # Nobody => pending[d].opportunity # t.opportunity
              /\ (IF t.op = "create" THEN t.arg ELSE source[t.opportunity]) = "WHATSAPP"
                 => OtherActiveWhatsApp(c, t.opportunity) = {}
         /\ HeldOK(c)'
<1> TypeOK BY DEF TypeInv
<1>1. ASSUME NEW s \in Sources, BeginCreate(c, s)
      PROVE  /\ Still
             /\ \E t \in Transactions :
                  /\ pending' = [pending EXCEPT ![c] = t]
                  /\ \A d \in Customers : pending[d] # Nobody => pending[d].opportunity # t.opportunity
                  /\ (IF t.op = "create" THEN t.arg ELSE source[t.opportunity]) = "WHATSAPP"
                     => OtherActiveWhatsApp(c, t.opportunity) = {}
             /\ HeldOK(c)'
  <2>1. PICK o \in Opportunities \ Created :
          /\ ~Locked(o)
          /\ s = "WHATSAPP" => OtherActiveWhatsApp(c, o) = {}
          /\ pending' = [pending EXCEPT ![c] = [op |-> "create", opportunity |-> o, arg |-> s]]
    BY <1>1 DEF BeginCreate
  <2> DEFINE t == [op |-> "create", opportunity |-> o, arg |-> s]
  <2>2. t \in Transactions /\ t.op = "create" /\ t.opportunity = o /\ t.arg = s
    OBVIOUS
  <2>3. Still /\ pending'[c] = t
    BY <1>1, <2>1 DEF BeginCreate, Still, TypeOK
  <2>4. HeldOK(c)'
    BY <2>1, <2>2, <2>3 DEF HeldOK, Still, Created
  <2> QED BY <2>1, <2>2, <2>3, <2>4 DEF Locked
<1>2. ASSUME NEW o \in Opportunities, BeginRegress(o), customer[o] = c
      PROVE  /\ Still
             /\ \E t \in Transactions :
                  /\ pending' = [pending EXCEPT ![c] = t]
                  /\ \A d \in Customers : pending[d] # Nobody => pending[d].opportunity # t.opportunity
                  /\ (IF t.op = "create" THEN t.arg ELSE source[t.opportunity]) = "WHATSAPP"
                     => OtherActiveWhatsApp(c, t.opportunity) = {}
             /\ HeldOK(c)'
  <2> DEFINE t == [op |-> "regress", opportunity |-> o, arg |-> Nobody]
  <2>1. /\ o \in Created \ deleted /\ ~Locked(o)
        /\ status[o] \in {"GANADA", "NEGOCIACION"} /\ products[o] # {}
        /\ source[o] = "WHATSAPP" => OtherActiveWhatsApp(c, o) = {}
        /\ pending' = [pending EXCEPT ![c] = t]
    BY <1>2 DEF BeginRegress, Free
  <2>2. t \in Transactions /\ t.op = "regress" /\ t.opportunity = o
    OBVIOUS
  <2>3. Still /\ pending'[c] = t
    BY <1>2, <2>1 DEF BeginRegress, Still, TypeOK
  <2>4. HeldOK(c)'
    BY <1>2, <2>1, <2>2, <2>3 DEF HeldOK, Still, Created
  <2> QED BY <2>1, <2>2, <2>3, <2>4 DEF Locked
<1>3. ASSUME NEW q \in Requests, BeginReopen(q), customer[request[q].opportunity] = c
      PROVE  /\ Still
             /\ \E t \in Transactions :
                  /\ pending' = [pending EXCEPT ![c] = t]
                  /\ \A d \in Customers : pending[d] # Nobody => pending[d].opportunity # t.opportunity
                  /\ (IF t.op = "create" THEN t.arg ELSE source[t.opportunity]) = "WHATSAPP"
                     => OtherActiveWhatsApp(c, t.opportunity) = {}
             /\ HeldOK(c)'
  <2> DEFINE o == request[q].opportunity
             t == [op |-> "reopen", opportunity |-> o, arg |-> q]
  <2>1. request[q] \in ReopenRequests /\ o \in Opportunities
    BY <1>3 DEF BeginReopen, TypeOK
  <2>2. /\ ~Locked(o) /\ MayReopen(o)
        /\ pending' = [pending EXCEPT ![c] = t]
        /\ request' = [request EXCEPT ![q] = [request[q] EXCEPT !.result = "holding"]]
    BY <1>3 DEF BeginReopen
  <2>3. t \in Transactions /\ t.op = "reopen" /\ t.opportunity = o /\ t.arg = q
    BY <2>1
  <2>4. Still /\ pending'[c] = t
    BY <1>3, <2>2 DEF BeginReopen, Still, TypeOK
  <2>5. /\ request'[q] = [request[q] EXCEPT !.result = "holding"]
        /\ request'[q].result = "holding" /\ request'[q].opportunity = o
        /\ request'[q] \in ReopenRequests
    BY <2>1, <2>2 DEF TypeOK
  <2>6. request'[q] # Nobody
    BY <2>5, OpportunityAssumption
  <2>7. HeldOK(c)'
    <3> HIDE DEF o, t
    <3> QED BY <1>3, <2>1, <2>2, <2>3, <2>4, <2>5, <2>6 DEF HeldOK, Still, Created, MayReopen, o
  <2>8. source[o] = "WHATSAPP" => OtherActiveWhatsApp(c, o) = {}
    BY <1>3, <2>2 DEF MayReopen
  <2> QED BY <2>2, <2>3, <2>4, <2>7, <2>8 DEF Locked
<1> QED BY <1>1, <1>2, <1>3 DEF Begins

\* The rows of a transaction that goes on are nobody else's.
LEMMA HeldUntouched ==
  ASSUME TypeInv, [Next]_vars, NEW c \in Customers, pending[c] # Nobody, pending'[c] = pending[c]
  PROVE  Untouched(pending[c].opportunity)
<1> DEFINE p == pending[c].opportunity
<1> TypeOK BY DEF TypeInv
<1>1. p \in Opportunities
  BY DEF TypeOK
<1>2. ASSUME NEW o \in Opportunities, RowStep(o) PROVE Untouched(p)
  <2>1. o # p
    BY <1>2, RowFrame DEF Locked
  <2> QED BY <1>1, <1>2, <2>1, RowFrame
<1>3. ASSUME NEW d \in Customers, CommitStep(d) PROVE Untouched(p)
  <2>1. pending[d] # Nobody /\ d # c
    BY <1>3, CommitFrame DEF TypeOK
  <2>2. pending[d].opportunity # p
    BY <2>1 DEF TypeInv, DistinctOK
  <2> QED BY <1>1, <1>3, <2>2, CommitFrame
<1> QED BY <1>1, <1>2, <1>3, StepKinds, StillFrame

LEMMA TypeInvStep == TypeInv /\ [Next]_vars => TypeInv'
<1> SUFFICES ASSUME TypeInv, [Next]_vars PROVE TypeInv'
  OBVIOUS
<1> TypeOK /\ TypeOK' BY TypeStep DEF TypeInv
<1>1. RowsOK'
  <2>1. ASSUME NEW p \in Opportunities, Untouched(p), p \in Created'
        PROVE  customer'[p] \in Customers /\ source'[p] \in Sources
    BY <2>1 DEF Untouched, TypeInv, RowsOK, Created
  <2>2. CASE Still
    BY <2>1, <2>2, StillFrame DEF RowsOK, Created
  <2>3. ASSUME NEW o \in Opportunities, RowStep(o) PROVE RowsOK'
    <3>1. customer'[o] \in Customers /\ source'[o] \in Sources
      BY <2>3, RowFrame DEF TypeInv, RowsOK
    <3> QED BY <2>1, <2>3, <3>1, RowFrame DEF RowsOK, Created
  <2>4. ASSUME NEW c \in Customers, CommitStep(c) PROVE RowsOK'
    <3> DEFINE o == pending[c].opportunity
    <3>1. customer'[o] \in Customers /\ source'[o] \in Sources
      BY <2>4, CommitFrame DEF TypeInv, RowsOK, PendingOK, HeldOK
    <3> QED BY <2>1, <2>4, <3>1, CommitFrame DEF RowsOK, Created
  <2> QED BY <2>2, <2>3, <2>4, StepKinds
<1>2. PendingOK'
  <2>1. ASSUME NEW c \in Customers, pending'[c] # Nobody PROVE HeldOK(c)'
    <3>1. CASE pending'[c] = pending[c]
      BY <2>1, <3>1, HeldUntouched, RequestKept, HeldKept
    <3>2. CASE pending'[c] # pending[c]
      BY <2>1, <3>2, PendingSteps, BeginFrame
    <3> QED BY <3>1, <3>2
  <2> QED BY <2>1 DEF PendingOK
<1>3. DistinctOK'
  <2>1. CASE \E c \in Customers : Begins(c)
    <3>1. PICK c \in Customers : Begins(c)
      BY <2>1
    <3>2. PICK t \in Transactions :
            /\ pending' = [pending EXCEPT ![c] = t]
            /\ \A d \in Customers : pending[d] # Nobody => pending[d].opportunity # t.opportunity
      BY <3>1, BeginFrame
    <3> QED BY <3>2 DEF TypeInv, TypeOK, DistinctOK
  <2>2. CASE ~\E c \in Customers : Begins(c)
    <3>1. \A c \in Customers : pending'[c] # Nobody => pending'[c] = pending[c]
      BY <2>2, PendingSteps
    <3> QED BY <3>1 DEF TypeInv, DistinctOK
  <2> QED BY <2>1, <2>2
<1> QED BY <1>1, <1>2, <1>3 DEF TypeInv

\* In every behaviour, every variable keeps its type; what a transaction has
\* checked under the customer's and the opportunity's row locks stays true until
\* it commits, and no two transactions hold the same opportunity.
THEOREM TypeCorrect == Spec => []TypeOK
<1>1. TypeInv => TypeOK
  BY DEF TypeInv
<1> QED BY <1>1, InitType, TypeInvStep, PTL DEF Spec
-----------------------------------------------------------------------------
(* One active WhatsApp opportunity per customer.                           *)

AloneInv == TypeInv /\ AloneOK /\ OneActiveWhatsApp

LEMMA AloneInit == Init => AloneInv
<1> SUFFICES ASSUME Init PROVE AloneInv
  OBVIOUS
<1>1. TypeInv
  BY InitType
<1> QED BY <1>1 DEF Init, AloneInv, AloneOK, OneActiveWhatsApp, Created

\* A step that makes no other opportunity of c active keeps o alone.
LEMMA AloneKept ==
  ASSUME NEW c \in Customers, NEW o \in Opportunities, OtherActiveWhatsApp(c, o) = {},
         \A p \in Opportunities \ {o} :
           customer'[p] = c /\ source'[p] = "WHATSAPP" /\ IsActive(p)'
           => customer[p] = c /\ source[p] = "WHATSAPP" /\ IsActive(p)
  PROVE  OtherActiveWhatsApp(c, o)' = {}
BY DEF OtherActiveWhatsApp

\* No step but the commit of a transaction of c gives c another active one.
LEMMA NoneActivated ==
  ASSUME TypeInv, [Next]_vars, NEW p \in Opportunities, IsActive(p)'
  PROVE  \/ \E c \in Customers : CommitStep(c) /\ pending[c].opportunity = p
         \/ customer'[p] = customer[p] /\ source'[p] = source[p] /\ IsActive(p)
<1>1. Untouched(p) => customer'[p] = customer[p] /\ source'[p] = source[p] /\ IsActive(p)
  BY DEF Untouched, IsActive
<1>2. ASSUME NEW o \in Opportunities, RowStep(o)
      PROVE  customer'[p] = customer[p] /\ source'[p] = source[p] /\ IsActive(p)
  <2>1. CASE p = o
    BY <1>2, <2>1, RowFrame DEF IsActive
  <2>2. CASE p # o
    BY <1>1, <1>2, <2>2, RowFrame
  <2> QED BY <2>1, <2>2
<1>3. ASSUME NEW c \in Customers, CommitStep(c), pending[c].opportunity # p
      PROVE  Untouched(p)
  BY <1>3, CommitFrame
<1> QED BY <1>1, <1>2, <1>3, StepKinds, StillFrame

LEMMA AloneStep == AloneInv /\ [Next]_vars => AloneInv'
<1> SUFFICES ASSUME AloneInv, [Next]_vars PROVE AloneInv'
  OBVIOUS
<1> TypeInv /\ TypeInv' BY TypeInvStep DEF AloneInv
<1> TypeOK /\ TypeOK' BY DEF TypeInv
<1>1. ASSUME NEW c \in Customers, pending'[c] # Nobody,
             (IF pending'[c].op = "create" THEN pending'[c].arg
              ELSE source'[pending'[c].opportunity]) = "WHATSAPP"
      PROVE  (OtherActiveWhatsApp(c, pending[c].opportunity) = {})'
  <2>1. PICK o \in Opportunities : o = pending'[c].opportunity
    BY <1>1 DEF TypeOK
  <2>2. OtherActiveWhatsApp(c, o) = {}
    <3>1. CASE pending'[c] = pending[c]
      <4>1. Untouched(pending[c].opportunity)
        BY <1>1, <3>1, HeldUntouched
      <4> QED BY <1>1, <2>1, <3>1, <4>1 DEF AloneInv, AloneOK, Untouched
    <3>2. CASE pending'[c] # pending[c]
      <4>1. Begins(c)
        BY <1>1, <3>2, PendingSteps
      <4>2. PICK t \in Transactions :
              /\ pending' = [pending EXCEPT ![c] = t]
              /\ (IF t.op = "create" THEN t.arg ELSE source[t.opportunity]) = "WHATSAPP"
                 => OtherActiveWhatsApp(c, t.opportunity) = {}
        BY <4>1, BeginFrame
      <4>3. pending'[c] = t /\ source' = source
        BY <4>1, <4>2, BeginFrame DEF TypeOK, Still
      <4> QED BY <1>1, <2>1, <4>2, <4>3
    <3> QED BY <3>1, <3>2
  <2>3. ASSUME NEW p \in Opportunities \ {o}, customer'[p] = c, source'[p] = "WHATSAPP", IsActive(p)'
        PROVE  customer[p] = c /\ source[p] = "WHATSAPP" /\ IsActive(p)
    <3>1. ASSUME NEW d \in Customers, CommitStep(d), pending[d].opportunity = p PROVE FALSE
      <4>1. customer'[p] = d /\ pending' = [pending EXCEPT ![d] = Nobody]
        BY <3>1, CommitFrame
      <4> QED BY <1>1, <2>3, <4>1 DEF TypeOK
    <3> QED BY <2>3, <3>1, NoneActivated
  <2>4. OtherActiveWhatsApp(c, o)' = {}
    BY <2>2, <2>3, AloneKept
  <2> QED BY <2>1, <2>4 DEF OtherActiveWhatsApp, IsActive
<1>2. AloneOK'
  BY <1>1 DEF AloneOK
<1>3. OneActiveWhatsApp'
  <2> SUFFICES ASSUME NEW p \in Opportunities, NEW r \in Opportunities, p # r,
                      IsActive(p)', IsActive(r)', source'[p] = "WHATSAPP", source'[r] = "WHATSAPP",
                      customer'[p] = customer'[r]
               PROVE  FALSE
    BY DEF OneActiveWhatsApp, Created, IsActive
  <2>1. ASSUME NEW c \in Customers, CommitStep(c), NEW a \in Opportunities, NEW b \in Opportunities,
               a # b, pending[c].opportunity = a, IsActive(b)', source'[a] = "WHATSAPP",
               source'[b] = "WHATSAPP", customer'[a] = customer'[b]
        PROVE  FALSE
    <3>1. /\ pending[c] # Nobody /\ customer'[a] = c /\ Untouched(b)
          /\ (IF pending[c].op = "create" THEN pending[c].arg ELSE source[a]) = "WHATSAPP"
      BY <2>1, CommitFrame
    <3>2. OtherActiveWhatsApp(c, a) = {}
      BY <2>1, <3>1 DEF AloneInv, AloneOK
    <3>3. customer[b] = c /\ source[b] = "WHATSAPP" /\ IsActive(b)
      BY <2>1, <3>1 DEF Untouched, IsActive
    <3> QED BY <2>1, <3>2, <3>3 DEF OtherActiveWhatsApp
  <2>2. /\ customer'[p] = customer[p] /\ source'[p] = source[p] /\ IsActive(p)
        /\ customer'[r] = customer[r] /\ source'[r] = source[r] /\ IsActive(r)
    BY <2>1, NoneActivated
  <2> QED BY <2>2 DEF AloneInv, OneActiveWhatsApp, Created, IsActive
<1> QED BY <1>2, <1>3 DEF AloneInv

\* However creations, regressions and reopenings interleave with each other and
\* with the commands that do not lock the customer, a customer never has two
\* active WhatsApp opportunities.
THEOREM OneActiveWhatsAppCorrect == Spec => []OneActiveWhatsApp
<1>1. AloneInv => OneActiveWhatsApp
  BY DEF AloneInv
<1> QED BY <1>1, AloneInit, AloneStep, PTL DEF Spec
-----------------------------------------------------------------------------
(* The Legendary flag is earned.                                           *)

EarnedInv == TypeInv /\ LegendaryIsEarned

\* A step that recomputes no flag and takes no win back.
LEMMA EarnedKept ==
  ASSUME LegendaryIsEarned, legendary' = legendary, mature \subseteq mature',
         \A o \in mature : status[o] = "GANADA" => status'[o] = "GANADA" /\ customer'[o] = customer[o]
  PROVE  LegendaryIsEarned'
BY DEF LegendaryIsEarned

\* A step that recomputes the flag of c, on statuses it does not change after.
LEMMA EarnedRecomputed ==
  ASSUME LegendaryIsEarned, NEW c \in Customers, NEW st, NEW del, Recompute(c, st, del),
         mature' = mature, mature \subseteq Opportunities,
         \A o \in Opportunities : status[o] = "GANADA" /\ customer[o] # c
           => status'[o] = "GANADA" /\ customer'[o] = customer[o],
         \A o \in Opportunities : st[o] = "GANADA" /\ customer[o] = c
           => status'[o] = "GANADA" /\ customer'[o] = c
  PROVE  LegendaryIsEarned'
<1> SUFFICES ASSUME NEW d \in legendary'
             PROVE  \E o \in mature : customer'[o] = d /\ status'[o] = "GANADA"
  BY DEF LegendaryIsEarned
<1>1. CASE d = c
  <2>1. Qualifies(c, st, del)
    BY <1>1 DEF Recompute
  <2> QED BY <1>1, <2>1 DEF Qualifies, Won
<1>2. CASE d # c
  <2>1. d \in legendary
    BY <1>2 DEF Recompute
  <2> QED BY <1>2, <2>1 DEF LegendaryIsEarned
<1> QED BY <1>1, <1>2

LEMMA EarnedStep == EarnedInv /\ [Next]_vars => EarnedInv'
<1> SUFFICES ASSUME EarnedInv, [Next]_vars PROVE LegendaryIsEarned'
  BY TypeInvStep DEF EarnedInv
<1> TypeInv /\ LegendaryIsEarned BY DEF EarnedInv
<1> TypeOK BY DEF TypeInv
<1> mature \subseteq Opportunities BY DEF TypeOK
<1>1. ASSUME UNCHANGED <<status, customer, legendary>>, mature \subseteq mature'
      PROVE  LegendaryIsEarned'
  BY <1>1, EarnedKept
<1>2. ASSUME NEW c \in Customers, NEW s \in Sources, BeginCreate(c, s) PROVE LegendaryIsEarned'
  BY <1>1, <1>2 DEF BeginCreate
<1>3. ASSUME NEW c \in Customers, RollBack(c) \/ ArchiveCustomer(c) PROVE LegendaryIsEarned'
  BY <1>1, <1>3 DEF RollBack, ArchiveCustomer
<1>4. ASSUME NEW q \in Requests, NEW o \in Opportunities, NEW k \in Commands, LookUpReopen(q, o, k)
      PROVE  LegendaryIsEarned'
  BY <1>1, <1>4 DEF LookUpReopen
<1>5. ASSUME NEW q \in Requests, BeginReopen(q) \/ RefuseReopen(q) \/ Forget(q)
      PROVE  LegendaryIsEarned'
  BY <1>1, <1>5 DEF BeginReopen, RefuseReopen, Forget
<1>6. ASSUME NEW o \in Opportunities, BeginRegress(o) \/ BecomesOverdue(o) \/ Matures(o)
      PROVE  LegendaryIsEarned'
  BY <1>1, <1>6 DEF BeginRegress, BecomesOverdue, Matures
<1>7. ASSUME NEW k \in Clients, NEW o \in Opportunities, Read(k, o) PROVE LegendaryIsEarned'
  BY <1>1, <1>7 DEF Read
<1>8. ASSUME NEW k \in Clients,
             \/ \E P \in SUBSET Products : EditQuote(k, P)
             \/ \E u \in Assignees \cup {Nobody} : Assign(k, u)
      PROVE  LegendaryIsEarned'
  BY <1>1, <1>8 DEF EditQuote, Assign
<1>9. ASSUME NEW p \in Withdrawable, ToggleProduct(p) PROVE LegendaryIsEarned'
  BY <1>1, <1>9 DEF ToggleProduct
<1>10. ASSUME SelectStale \/ InsertStale PROVE LegendaryIsEarned'
  BY <1>1, <1>10 DEF SelectStale, InsertStale
<1>11. CASE UNCHANGED vars
  BY <1>1, <1>11
<1>12. ASSUME NEW c \in Customers, RecomputeJob(c) PROVE LegendaryIsEarned'
  <2>1. Recompute(c, status, deleted) /\ mature' = mature /\ status' = status /\ customer' = customer
    BY <1>12 DEF RecomputeJob
  <2> QED BY <2>1, EarnedRecomputed
<1>13. ASSUME NEW o \in Opportunities, Delete(o) PROVE LegendaryIsEarned'
  <2>1. /\ Recompute(customer[o], status, deleted) /\ mature' = mature
        /\ status' = status /\ customer' = customer /\ customer[o] \in Customers
    BY <1>13 DEF Delete, TypeInv, RowsOK
  <2> QED BY <2>1, EarnedRecomputed
<1>14. ASSUME NEW o \in Opportunities, NEW P \in SUBSET Products, Quote(o, P)
       PROVE  LegendaryIsEarned'
  <2>1. /\ Recompute(customer[o], status', deleted) /\ mature' = mature
        /\ customer' = customer /\ customer[o] \in Customers /\ status[o] = "NUEVA"
        /\ Transition(o, "COTIZADA", "STATUS_CHANGED")
    BY <1>14 DEF Quote, Free, TypeInv, RowsOK
  <2>2. \A p \in Opportunities : status[p] = "GANADA" => status'[p] = "GANADA"
    BY <2>1, TransitionFrame
  <2> QED BY <2>1, <2>2, EarnedRecomputed
<1>15. ASSUME NEW o \in Opportunities, Advance(o) PROVE LegendaryIsEarned'
  <2>1. /\ customer' = customer /\ legendary' = legendary /\ mature' = mature
        /\ status[o] # "GANADA" /\ Transition(o, Advanced(status[o]), "STATUS_CHANGED")
    BY <1>15 DEF Advance
  <2>2. \A p \in Opportunities : status[p] = "GANADA" => status'[p] = "GANADA"
    BY <2>1, TransitionFrame
  <2> QED BY <2>1, <2>2, EarnedKept
<1>16. ASSUME NEW o \in Opportunities, Lose(o) PROVE LegendaryIsEarned'
  <2>1. /\ customer' = customer /\ legendary' = legendary /\ mature' = mature
        /\ status[o] # "GANADA" /\ Transition(o, "PERDIDA", "LOST")
    BY <1>16 DEF Lose
  <2>2. \A p \in Opportunities : status[p] = "GANADA" => status'[p] = "GANADA"
    BY <2>1, TransitionFrame
  <2> QED BY <2>1, <2>2, EarnedKept
<1>17. ASSUME NEW c \in Customers, CommitStep(c) PROVE LegendaryIsEarned'
  <2> DEFINE o == pending[c].opportunity
  <2>1. /\ HeldOK(c) /\ o \in Opportunities /\ mature' = mature /\ customer'[o] = c
        /\ \A p \in Opportunities \ {o} : status'[p] = status[p] /\ customer'[p] = customer[p]
    <3>1. mature' = mature
      BY <1>17 DEF CommitStep, CommitCreate, CommitRegress, CommitReopen
    <3> QED BY <1>17, <3>1, CommitFrame DEF TypeInv, PendingOK, Untouched
  <2>2. CASE CommitCreate(c)
    <3>1. Recompute(c, status, deleted) /\ status[o] = "none"
      BY <2>1, <2>2 DEF CommitCreate, HeldOK, Created
    <3> QED BY <2>1, <3>1, EarnedRecomputed
  <2>3. CASE CommitRegress(c)
    <3>1. Recompute(c, status', deleted) /\ customer[o] = c
      BY <2>1, <2>3 DEF CommitRegress, HeldOK
    <3> QED BY <2>1, <3>1, EarnedRecomputed
  <2>4. CASE CommitReopen(c)
    <3>1. legendary' = legendary /\ status[o] = "PERDIDA"
      BY <2>1, <2>4 DEF CommitReopen, HeldOK
    <3> QED BY <2>1, <3>1, EarnedKept
  <2> QED BY <1>17, <2>2, <2>3, <2>4 DEF CommitStep
<1> QED
  BY <1>2, <1>3, <1>4, <1>5, <1>6, <1>7, <1>8, <1>9, <1>10, <1>11, <1>12, <1>13, <1>14, <1>15,
     <1>16, <1>17 DEF Next, CommitStep

\* Only a customer with a won opportunity three years old is Legendary: a
\* regression that takes its last one back also takes the flag.
THEOREM LegendaryIsEarnedCorrect == Spec => []LegendaryIsEarned
<1>1. Init => EarnedInv
  BY InitType DEF Init, EarnedInv, LegendaryIsEarned
<1>2. EarnedInv => LegendaryIsEarned
  BY DEF EarnedInv
<1> QED BY <1>1, <1>2, EarnedStep, PTL DEF Spec
-----------------------------------------------------------------------------
(* Invariants of single rows.                                              *)

QuoteKept(o) ==
  /\ status[o] \in {"COTIZADA", "NEGOCIACION", "GANADA"} => products[o] # {}
  /\ status[o] = "PERDIDA" => losses[o][Len(losses[o])].products = products[o]

PipelineHistory(o) ==
  /\ Len(history[o]) > 0 /\ history[o][1].kind = "CREATED"
  /\ history[o][Len(history[o])].to = status[o]
  /\ \A i \in 1..Len(history[o]) : PipelineEntry(history[o][i])
  /\ \A i \in 2..Len(history[o]) : history[o][i].from = history[o][i - 1].to

RowsInv == TypeInv /\ \A o \in Created : QuoteKept(o) /\ PipelineHistory(o)

\* A legal change of status extends a legal history.
LEMMA PipelineExtended ==
  ASSUME TypeOK, NEW o \in Opportunities, NEW to \in Statuses, NEW kind \in Kinds,
         status[o] # "none", PipelineHistory(o), Transition(o, to, kind),
         PipelineEntry([from |-> status[o], to |-> to, kind |-> kind])
  PROVE  PipelineHistory(o)'
<1> DEFINE h == history[o]
           e == [from |-> status[o], to |-> to, kind |-> kind]
           g == Append(h, e)
<1>1. h \in Seq(HistoryEntries) /\ e \in HistoryEntries
  BY DEF TypeOK
<1>2. history'[o] = g /\ status'[o] = to
  BY TransitionFrame
<1>3. /\ Len(h) \in Nat /\ Len(g) = Len(h) + 1 /\ g[Len(h) + 1] = e
      /\ \A i \in 1..Len(h) : g[i] = h[i]
  <2> HIDE DEF e, h
  <2> QED BY <1>1 DEF g
<1>4. e.from = status[o] /\ e.to = to /\ e.kind = kind /\ PipelineEntry(e)
  OBVIOUS
<1>5. /\ Len(h) > 0 /\ h[1].kind = "CREATED" /\ h[Len(h)].to = status[o]
      /\ \A i \in 1..Len(h) : PipelineEntry(h[i])
      /\ \A i \in 2..Len(h) : h[i].from = h[i - 1].to
  BY DEF PipelineHistory
<1> HIDE DEF g, e, h
<1>6. \A i \in 1..Len(g) : PipelineEntry(g[i])
  BY <1>3, <1>4, <1>5
<1>7. \A i \in 2..Len(g) : g[i].from = g[i - 1].to
  BY <1>3, <1>4, <1>5
<1>8. Len(g) > 0 /\ g[1].kind = "CREATED" /\ g[Len(g)].to = to
  BY <1>3, <1>4, <1>5
<1> QED BY <1>2, <1>6, <1>7, <1>8 DEF PipelineHistory, PipelineEntry

LEMMA RowsStep == RowsInv /\ [Next]_vars => RowsInv'
<1> SUFFICES ASSUME RowsInv, [Next]_vars
             PROVE  \A p \in Created' : QuoteKept(p)' /\ PipelineHistory(p)'
  BY TypeInvStep DEF RowsInv
<1> TypeInv /\ TypeOK /\ TypeInv' BY TypeInvStep DEF RowsInv, TypeInv
<1> \A p \in Created : QuoteKept(p) /\ PipelineHistory(p)
  BY DEF RowsInv
<1> DEFINE Good(p) == QuoteKept(p)' /\ PipelineHistory(p)'
<1>1. ASSUME NEW p \in Opportunities, Untouched(p), p \in Created' PROVE Good(p)
  <2>1. p \in Created
    BY <1>1 DEF Untouched, Created
  <2> QED BY <1>1, <2>1 DEF Untouched, QuoteKept, PipelineHistory
<1>2. ASSUME NEW o \in Opportunities, RowStep(o) PROVE Good(o)
  <2>1. o \in Created /\ status[o] # "none" /\ QuoteKept(o) /\ PipelineHistory(o)
    BY <1>2, RowFrame DEF Created
  <2>2. ASSUME NEW P \in SUBSET Products, Quote(o, P) PROVE Good(o)
    <3>1. Transition(o, "COTIZADA", "STATUS_CHANGED") /\ status[o] = "NUEVA"
      BY <2>2 DEF Quote
    <3>2. PipelineHistory(o)'
      BY <2>1, <3>1, PipelineExtended DEF PipelineEntry
    <3>3. products'[o] # {} /\ status'[o] = "COTIZADA"
      BY <2>2, <3>1, TransitionFrame DEF Quote, ValidQuote, TypeOK
    <3> QED BY <3>2, <3>3 DEF QuoteKept
  <2>3. CASE Advance(o)
    <3>1. CASE status[o] = "COTIZADA"
      <4>1. Transition(o, "NEGOCIACION", "STATUS_CHANGED")
        BY <2>3, <3>1 DEF Advance, Advanced
      <4>2. PipelineHistory(o)'
        BY <2>1, <3>1, <4>1, PipelineExtended DEF PipelineEntry
      <4>3. products'[o] # {} /\ status'[o] = "NEGOCIACION"
        BY <2>3, <4>1, TransitionFrame DEF Advance
      <4> QED BY <4>2, <4>3 DEF QuoteKept
    <3>2. CASE status[o] = "NEGOCIACION"
      <4>1. Transition(o, "GANADA", "STATUS_CHANGED")
        BY <2>3, <3>2 DEF Advance, Advanced
      <4>2. PipelineHistory(o)'
        BY <2>1, <3>2, <4>1, PipelineExtended DEF PipelineEntry
      <4>3. products'[o] # {} /\ status'[o] = "GANADA"
        BY <2>3, <4>1, TransitionFrame DEF Advance
      <4> QED BY <4>2, <4>3 DEF QuoteKept
    <3> QED BY <2>3, <3>1, <3>2 DEF Advance
  <2>4. CASE Lose(o)
    <3>1. Transition(o, "PERDIDA", "LOST") /\ status[o] \in Active
      BY <2>4 DEF Lose
    <3>2. PipelineHistory(o)'
      BY <2>1, <3>1, PipelineExtended DEF PipelineEntry
    <3> DEFINE event == [entry |-> NextEntry(o), products |-> products[o]]
    <3>3. /\ losses[o] \in Seq(LossEvents) /\ losses'[o] = Append(losses[o], event)
          /\ products'[o] = products[o] /\ status'[o] = "PERDIDA"
      BY <2>4, <3>1, TransitionFrame DEF Lose, TypeOK
    <3>4. losses'[o][Len(losses'[o])] = event
      <4> HIDE DEF event
      <4>1. Len(losses'[o]) = Len(losses[o]) + 1
        BY <3>3
      <4> QED BY <3>3, <4>1
    <3>5. event.products = products[o]
      OBVIOUS
    <3> QED BY <3>2, <3>3, <3>4, <3>5 DEF QuoteKept
  <2>5. CASE Delete(o)
    BY <2>1, <2>5 DEF Delete, QuoteKept, PipelineHistory
  <2>6. ASSUME NEW k \in Clients, seen[k].opportunity = o, NEW P \in SUBSET Products, EditQuote(k, P)
        PROVE  Good(o)
    <3>1. /\ products'[o] # {} /\ Editable(o)
          /\ status' = status /\ history' = history
      BY <2>6 DEF EditQuote, ValidQuote, TypeOK
    <3> QED BY <2>1, <3>1 DEF QuoteKept, PipelineHistory, Editable
  <2>7. ASSUME NEW k \in Clients, NEW u \in Assignees \cup {Nobody}, Assign(k, u) PROVE Good(o)
    BY <2>1, <2>7 DEF Assign, QuoteKept, PipelineHistory
  <2> QED BY <1>2, <2>2, <2>3, <2>4, <2>5, <2>6, <2>7 DEF RowStep
<1>3. ASSUME NEW c \in Customers, CommitStep(c), NEW o \in Opportunities, o = pending[c].opportunity
      PROVE  Good(o)
  <2>1. pending[c] # Nobody /\ HeldOK(c)
    BY <1>3, CommitFrame DEF TypeInv, PendingOK
  <2>2. CASE CommitCreate(c)
    <3> DEFINE entry == [from |-> "none", to |-> "NUEVA", kind |-> "CREATED"]
    <3>1. history'[o] = <<entry>> /\ status'[o] = "NUEVA"
      BY <1>3, <2>2 DEF CommitCreate, TypeOK
    <3>2. PipelineEntry(entry) /\ entry.to = "NUEVA" /\ entry.kind = "CREATED"
      BY DEF PipelineEntry
    <3> HIDE DEF entry
    <3>3. Len(<<entry>>) = 1 /\ <<entry>>[1] = entry
      OBVIOUS
    <3> QED BY <3>1, <3>2, <3>3 DEF QuoteKept, PipelineHistory, PipelineEntry
  <2>3. CASE CommitRegress(c)
    <3>1. /\ o \in Created /\ products[o] # {} /\ status[o] \in {"GANADA", "NEGOCIACION"}
          /\ products' = products /\ Transition(o, Regressed(status[o]), "STATUS_CHANGED")
      BY <1>3, <2>1, <2>3 DEF CommitRegress, HeldOK
    <3>2. Regressed(status[o]) \in {"NEGOCIACION", "COTIZADA"}
      BY DEF Regressed
    <3>3. PipelineEntry([from |-> status[o], to |-> Regressed(status[o]), kind |-> "STATUS_CHANGED"])
      BY <3>1 DEF PipelineEntry, Regressed
    <3>4. PipelineHistory(o)'
      BY <2>1, <3>1, <3>2, <3>3, PipelineExtended DEF Created
    <3>5. status'[o] \in {"NEGOCIACION", "COTIZADA"}
      BY <2>1, <3>1, <3>2, TransitionFrame
    <3> QED BY <3>1, <3>4, <3>5 DEF QuoteKept
  <2>4. CASE CommitReopen(c)
    <3>1. o \in Created /\ products[o] # {} /\ status[o] = "PERDIDA" /\ products' = products
      BY <1>3, <2>1, <2>4 DEF CommitReopen, HeldOK
    <3>2. CASE Reopened(request[pending[c].arg].command) = {}
      <4>1. Transition(o, "NEGOCIACION", "REOPENED")
        BY <1>3, <2>4, <3>2 DEF CommitReopen
      <4>2. PipelineHistory(o)'
        BY <2>1, <3>1, <4>1, PipelineExtended DEF PipelineEntry
      <4>3. status'[o] = "NEGOCIACION"
        BY <2>1, <4>1, TransitionFrame
      <4> QED BY <3>1, <4>2, <4>3 DEF QuoteKept
    <3>3. CASE Reopened(request[pending[c].arg].command) # {}
      <4>1. /\ status' = status /\ history' = history /\ losses' = losses
            /\ o \in Created
        BY <2>4, <3>1, <3>3 DEF CommitReopen
      <4> QED BY <3>1, <4>1 DEF QuoteKept, PipelineHistory
    <3> QED BY <3>2, <3>3
  <2> QED BY <1>3, <2>2, <2>3, <2>4 DEF CommitStep
<1>4. SUFFICES ASSUME NEW p \in Created' PROVE Good(p)
  OBVIOUS
<1>5. p \in Opportunities
  BY DEF Created
<1>6. CASE Still
  BY <1>1, <1>5, <1>6, StillFrame
<1>7. ASSUME NEW o \in Opportunities, RowStep(o) PROVE Good(p)
  BY <1>1, <1>2, <1>5, <1>7, RowFrame
<1>8. ASSUME NEW c \in Customers, CommitStep(c) PROVE Good(p)
  <2>1. CASE p = pending[c].opportunity
    BY <1>3, <1>5, <1>8, <2>1
  <2>2. CASE p # pending[c].opportunity
    BY <1>1, <1>5, <1>8, <2>2, CommitFrame
  <2> QED BY <2>1, <2>2
<1> QED BY <1>6, <1>7, <1>8, StepKinds

LEMMA RowsInit == Init => RowsInv
<1> SUFFICES ASSUME Init PROVE RowsInv
  OBVIOUS
<1>1. TypeInv /\ Created = {}
  BY InitType DEF Init, Created
<1> QED BY <1>1 DEF RowsInv

\* Whatever commands, edits and withdrawals of products interleave, an
\* opportunity past NUEVA has a quote, and the last loss snapshot of a lost one
\* is the quote it still has.
THEOREM QuoteIsKeptCorrect == Spec => []QuoteIsKept
<1>1. RowsInv => QuoteIsKept
  BY DEF RowsInv, QuoteIsKept, QuoteKept
<1> QED BY <1>1, RowsInit, RowsStep, PTL DEF Spec

\* The history of an opportunity is a path of the pipeline that ends in its
\* status.
THEOREM HistoryIsPipelineCorrect == Spec => []HistoryIsPipeline
<1>1. RowsInv => HistoryIsPipeline
  BY DEF RowsInv, HistoryIsPipeline, PipelineHistory
<1> QED BY <1>1, RowsInit, RowsStep, PTL DEF Spec
-----------------------------------------------------------------------------
(* Optimistic edits, and the effect of a command.                          *)

ReadingOK(k) ==
  LET o == seen[k].opportunity IN
  /\ o \in Created /\ seen[k].version <= version[o]
  /\ version[o] = seen[k].version
       => products[o] = seen[k].products /\ assignee[o] = seen[k].assignee

ReadingInv == TypeInv /\ \A k \in Clients : seen[k] # Nobody => ReadingOK(k)

\* Every change of the quote or the assignee of a row moves its version on.
LEMMA VersionStep ==
  ASSUME TypeInv, [Next]_vars, NEW p \in Created
  PROVE  /\ p \in Created'
         /\ \/ version'[p] > version[p]
            \/ version'[p] = version[p] /\ products'[p] = products[p] /\ assignee'[p] = assignee[p]
<1> TypeOK BY DEF TypeInv
<1> p \in Opportunities /\ status[p] # "none" /\ version[p] \in Nat BY DEF Created, TypeOK
<1>1. Untouched(p) => /\ p \in Created'
                      /\ version'[p] = version[p] /\ products'[p] = products[p]
                      /\ assignee'[p] = assignee[p]
  BY DEF Untouched, Created
<1>2. ASSUME NEW o \in Opportunities, RowStep(o), p = o
      PROVE  \/ version'[p] > version[p]
             \/ version'[p] = version[p] /\ products'[p] = products[p] /\ assignee'[p] = assignee[p]
  <2>1. ASSUME NEW to, NEW kind, Transition(o, to, kind) PROVE version'[p] > version[p]
    <3>1. version'[p] = version[p] + 1
      BY <1>2, <2>1, TransitionFrame
    <3> QED BY <3>1
  <2>2. ASSUME NEW P \in SUBSET Products, Quote(o, P) PROVE version'[p] > version[p]
    BY <2>1, <2>2 DEF Quote
  <2>3. CASE Advance(o)
    BY <2>1, <2>3 DEF Advance
  <2>4. CASE Lose(o)
    BY <2>1, <2>4 DEF Lose
  <2>5. CASE Delete(o)
    BY <1>2, <2>5 DEF Delete, TypeOK
  <2>6. ASSUME NEW k \in Clients, seen[k].opportunity = o,
               \/ \E P \in SUBSET Products : EditQuote(k, P)
               \/ \E u \in Assignees \cup {Nobody} : Assign(k, u)
        PROVE  version'[p] > version[p]
    <3>1. Bump(o)
      BY <2>6 DEF EditQuote, Assign
    <3> QED BY <1>2, <3>1 DEF Bump, TypeOK
  <2> QED BY <1>2, <2>2, <2>3, <2>4, <2>5, <2>6 DEF RowStep
<1>3. ASSUME NEW c \in Customers, CommitStep(c), p = pending[c].opportunity
      PROVE  \/ version'[p] > version[p]
             \/ version'[p] = version[p] /\ products'[p] = products[p] /\ assignee'[p] = assignee[p]
  <2>1. HeldOK(c)
    BY <1>3, CommitFrame DEF TypeInv, PendingOK
  <2>2. ASSUME NEW to, NEW kind, Transition(p, to, kind) PROVE version'[p] > version[p]
    <3>1. version'[p] = version[p] + 1
      BY <2>2, TransitionFrame
    <3> QED BY <3>1
  <2>3. CASE CommitCreate(c)
    BY <1>3, <2>1, <2>3 DEF CommitCreate, HeldOK
  <2>4. CASE CommitRegress(c)
    BY <1>3, <2>2, <2>4 DEF CommitRegress
  <2>5. CASE CommitReopen(c)
    BY <1>3, <2>2, <2>5 DEF CommitReopen
  <2> QED BY <1>3, <2>3, <2>4, <2>5 DEF CommitStep
<1>4. ASSUME NEW o \in Opportunities, RowStep(o) PROVE p # o => Untouched(p)
  BY <1>4, RowFrame
<1>5. ASSUME NEW c \in Customers, CommitStep(c) PROVE p # pending[c].opportunity => Untouched(p)
  BY <1>5, CommitFrame
<1>6. ASSUME NEW o \in Opportunities, RowStep(o), p = o PROVE p \in Created'
  BY <1>6, RowFrame DEF Created
<1>7. ASSUME NEW c \in Customers, CommitStep(c), p = pending[c].opportunity PROVE p \in Created'
  BY <1>7, CommitFrame DEF Created
<1> QED BY <1>1, <1>2, <1>3, <1>4, <1>5, <1>6, <1>7, StepKinds, StillFrame

\* A client keeps what it read, uses it up, or reads again.
LEMMA SeenStep ==
  ASSUME TypeOK, [Next]_vars, NEW k \in Clients
  PROVE  seen'[k] = seen[k] \/ seen'[k] = Nobody \/ \E o \in Opportunities : Read(k, o)
<1>1. ASSUME NEW c \in Customers, NEW s \in Sources, BeginCreate(c, s) PROVE seen'[k] = seen[k]
  BY <1>1 DEF BeginCreate
<1>2. ASSUME NEW c \in Customers,
             \/ CommitStep(c) \/ RollBack(c) \/ ArchiveCustomer(c) \/ RecomputeJob(c)
      PROVE  seen'[k] = seen[k]
  BY <1>2 DEF CommitStep, CommitCreate, CommitRegress, CommitReopen, RollBack, ArchiveCustomer,
              RecomputeJob
<1>3. ASSUME NEW q \in Requests, NEW o \in Opportunities, NEW m \in Commands, LookUpReopen(q, o, m)
      PROVE  seen'[k] = seen[k]
  BY <1>3 DEF LookUpReopen
<1>4. ASSUME NEW q \in Requests, BeginReopen(q) \/ RefuseReopen(q) \/ Forget(q)
      PROVE  seen'[k] = seen[k]
  BY <1>4 DEF BeginReopen, RefuseReopen, Forget
<1>5. ASSUME NEW o \in Opportunities,
             \/ BeginRegress(o) \/ Advance(o) \/ Lose(o) \/ Delete(o)
             \/ BecomesOverdue(o) \/ Matures(o)
      PROVE  seen'[k] = seen[k]
  BY <1>5 DEF BeginRegress, Advance, Lose, Delete, BecomesOverdue, Matures
<1>6. ASSUME NEW o \in Opportunities, NEW P \in SUBSET Products, Quote(o, P)
      PROVE  seen'[k] = seen[k]
  BY <1>6 DEF Quote
<1>7. ASSUME NEW m \in Clients, NEW o \in Opportunities, Read(m, o)
      PROVE  seen'[k] = seen[k] \/ Read(k, o)
  BY <1>7 DEF Read, TypeOK
<1>8. ASSUME NEW m \in Clients,
             \/ \E P \in SUBSET Products : EditQuote(m, P)
             \/ \E u \in Assignees \cup {Nobody} : Assign(m, u)
      PROVE  seen'[k] = seen[k] \/ seen'[k] = Nobody
  BY <1>8 DEF EditQuote, Assign, TypeOK
<1>9. ASSUME NEW p \in Withdrawable, ToggleProduct(p) PROVE seen'[k] = seen[k]
  BY <1>9 DEF ToggleProduct
<1>10. ASSUME SelectStale \/ InsertStale PROVE seen'[k] = seen[k]
  BY <1>10 DEF SelectStale, InsertStale
<1>11. CASE UNCHANGED vars
  BY <1>11
<1> QED
  BY <1>1, <1>2, <1>3, <1>4, <1>5, <1>6, <1>7, <1>8, <1>9, <1>10, <1>11 DEF Next, CommitStep

LEMMA ReadingStep == ReadingInv /\ [Next]_vars => ReadingInv'
<1> SUFFICES ASSUME ReadingInv, [Next]_vars, NEW k \in Clients, seen'[k] # Nobody
             PROVE  ReadingOK(k)'
  BY TypeInvStep DEF ReadingInv
<1> TypeInv /\ TypeOK /\ TypeOK' BY TypeInvStep DEF ReadingInv, TypeInv
<1>1. CASE seen'[k] = seen[k]
  <2> DEFINE o == seen[k].opportunity
  <2>1. ReadingOK(k) /\ seen[k] \in Readings
    BY <1>1 DEF ReadingInv, TypeOK
  <2>2. o \in Created /\ version[o] \in Nat /\ version'[o] \in Nat
    BY <2>1 DEF ReadingOK, TypeOK
  <2>3. /\ o \in Created'
        /\ \/ version'[o] > version[o]
           \/ version'[o] = version[o] /\ products'[o] = products[o] /\ assignee'[o] = assignee[o]
    BY <2>2, VersionStep
  <2> QED BY <1>1, <2>1, <2>2, <2>3 DEF ReadingOK
<1>2. ASSUME NEW o \in Opportunities, Read(k, o) PROVE ReadingOK(k)'
  <2>1. /\ seen'[k] = [opportunity |-> o, version |-> version[o], products |-> products[o],
                       assignee |-> assignee[o]]
        /\ o \in Created /\ status' = status
        /\ version' = version /\ products' = products /\ assignee' = assignee
    BY <1>2 DEF Read, TypeOK
  <2>2. version[o] \in Nat
    BY DEF TypeOK
  <2> QED BY <2>1, <2>2 DEF ReadingOK, Created
<1> QED BY <1>1, <1>2, SeenStep

\* An edit is accepted only on the row its client saw: no quote, assignment or
\* change of status of another is lost under it.
THEOREM ReadingsAreExactCorrect == Spec => []ReadingsAreExact
<1>1. Init => ReadingInv
  BY InitType DEF Init, ReadingInv
<1>2. ReadingInv => ReadingsAreExact
  BY DEF ReadingInv, ReadingsAreExact, ReadingOK
<1> QED BY <1>1, <1>2, ReadingStep, PTL DEF Spec
\* Only a reopening adds a reopen event, of a command without one.
LEMMA ReopensStep ==
  ASSUME TypeInv, [Next]_vars
  PROVE  \/ reopens' = reopens
         \/ \E o \in Opportunities, e \in ReopenEvents :
              reopens' = [reopens EXCEPT ![o] = Append(@, e)] /\ Reopened(e.command) = {}
<1> TypeOK BY DEF TypeInv
<1>1. CASE Still
  BY <1>1 DEF Still
<1>2. ASSUME NEW o \in Opportunities, RowStep(o) PROVE reopens' = reopens
  BY <1>2 DEF RowStep, Quote, Advance, Lose, Delete, EditQuote, Assign
<1>3. ASSUME NEW c \in Customers, CommitCreate(c) \/ CommitRegress(c) PROVE reopens' = reopens
  BY <1>3 DEF CommitCreate, CommitRegress
<1>4. ASSUME NEW c \in Customers, CommitReopen(c)
      PROVE  \/ reopens' = reopens
             \/ \E o \in Opportunities, e \in ReopenEvents :
                  reopens' = [reopens EXCEPT ![o] = Append(@, e)] /\ Reopened(e.command) = {}
  <2> DEFINE o == pending[c].opportunity
             k == request[pending[c].arg].command
             e == [entry |-> NextEntry(o), loss |-> Len(losses[o]), command |-> k]
  <2>1. CASE Reopened(k) # {}
    BY <1>4, <2>1 DEF CommitReopen
  <2>2. CASE Reopened(k) = {}
    <3>1. o \in Opportunities /\ k \in Commands
      BY <1>4 DEF CommitReopen, Unheld, TypeInv, TypeOK, PendingOK, HeldOK
    <3>2. history[o] \in Seq(HistoryEntries) /\ losses[o] \in Seq(LossEvents)
      BY <3>1 DEF TypeOK
    <3>3. Len(history[o]) \in Nat /\ Len(losses[o]) \in Nat
      BY <3>2
    <3>4. e \in ReopenEvents /\ e.command = k
      BY <3>1, <3>3 DEF NextEntry
    <3>5. reopens' = [reopens EXCEPT ![o] = Append(@, e)]
      BY <1>4, <2>2 DEF CommitReopen
    <3> QED BY <2>2, <3>1, <3>4, <3>5
  <2> QED BY <2>1, <2>2
<1> QED BY <1>1, <1>2, <1>3, <1>4, StepKinds DEF CommitStep

CommandInv == TypeInv /\ OneReopenPerCommand

LEMMA CommandStep == CommandInv /\ [Next]_vars => CommandInv'
<1> SUFFICES ASSUME CommandInv, [Next]_vars PROVE OneReopenPerCommand'
  BY TypeInvStep DEF CommandInv
<1> TypeInv /\ TypeOK BY DEF CommandInv, TypeInv
<1>1. CASE reopens' = reopens
  BY <1>1 DEF CommandInv, OneReopenPerCommand
<1>2. ASSUME NEW o \in Opportunities, NEW e \in ReopenEvents,
             reopens' = [reopens EXCEPT ![o] = Append(@, e)], Reopened(e.command) = {}
      PROVE  OneReopenPerCommand'
  <2>1. reopens[o] \in Seq(ReopenEvents) /\ reopens \in [Opportunities -> Seq(ReopenEvents)]
    BY DEF TypeOK
  <2>2. /\ Len(reopens[o]) \in Nat /\ Len(Append(reopens[o], e)) = Len(reopens[o]) + 1
        /\ Append(reopens[o], e)[Len(reopens[o]) + 1] = e
        /\ \A i \in 1..Len(reopens[o]) : Append(reopens[o], e)[i] = reopens[o][i]
    BY <2>1
  <2>3. /\ \A p \in Opportunities \ {o} : reopens'[p] = reopens[p]
        /\ Len(reopens'[o]) = Len(reopens[o]) + 1 /\ reopens'[o][Len(reopens[o]) + 1] = e
        /\ \A i \in 1..Len(reopens[o]) : reopens'[o][i] = reopens[o][i]
    BY <1>2, <2>1, <2>2
  <2>4. \A p \in Opportunities : \A i \in 1..Len(reopens[p]) : reopens[p][i].command # e.command
    BY <1>2 DEF Reopened
  <2>5. \A p \in Opportunities : \A i \in 1..Len(reopens'[p]) :
          \/ i \in 1..Len(reopens[p]) /\ reopens'[p][i] = reopens[p][i]
          \/ p = o /\ i = Len(reopens[o]) + 1 /\ reopens'[p][i] = e
    BY <2>2, <2>3
  <2> SUFFICES ASSUME NEW p \in Opportunities, NEW r \in Opportunities,
                      NEW i \in 1..Len(reopens'[p]), NEW j \in 1..Len(reopens'[r]),
                      reopens'[p][i].command = reopens'[r][j].command
               PROVE  p = r /\ i = j
    BY DEF OneReopenPerCommand
  <2>6. CASE i \in 1..Len(reopens[p]) /\ reopens'[p][i] = reopens[p][i]
    <3>1. j \in 1..Len(reopens[r]) /\ reopens'[r][j] = reopens[r][j]
      BY <2>4, <2>5, <2>6
    <3> QED BY <2>6, <3>1 DEF CommandInv, OneReopenPerCommand
  <2>7. CASE p = o /\ i = Len(reopens[o]) + 1 /\ reopens'[p][i] = e
    <3>1. ~(j \in 1..Len(reopens[r]) /\ reopens'[r][j] = reopens[r][j])
      BY <2>4, <2>7
    <3> QED BY <2>5, <2>7, <3>1
  <2> QED BY <2>5, <2>6, <2>7
<1> QED BY <1>1, <1>2, ReopensStep

\* However often and concurrently a reopen command is delivered, whether for one
\* opportunity or for several, it takes effect once.
THEOREM OneReopenPerCommandCorrect == Spec => []OneReopenPerCommand
<1>1. Init => CommandInv
  <2> SUFFICES ASSUME Init PROVE OneReopenPerCommand
    BY InitType DEF CommandInv
  <2>1. \A o \in Opportunities : reopens[o] = <<>>
    BY DEF Init
  <2>2. Len(<<>>) = 0
    OBVIOUS
  <2> QED BY <2>1, <2>2 DEF OneReopenPerCommand
<1>2. CommandInv => OneReopenPerCommand
  BY DEF CommandInv
<1> QED BY <1>1, <1>2, CommandStep, PTL DEF Spec
-----------------------------------------------------------------------------
(* Losses and reopenings.                                                  *)

Entries(es) == {es[i].entry : i \in 1..Len(es)}
Places(h, kind) == {i \in 1..Len(h) : h[i].kind = kind}

\* A row's loss and reopen events match its history, and the last loss of a lost
\* row is its last change of status.
Episode(o) ==
  /\ Entries(losses[o]) = Places(history[o], "LOST")
  /\ Entries(reopens[o]) = Places(history[o], "REOPENED")
  /\ \A i \in 1..Len(reopens[o]) :
       /\ reopens[o][i].loss \in 1..Len(losses[o])
       /\ losses[o][reopens[o][i].loss].entry = reopens[o][i].entry - 1
  /\ status[o] = "PERDIDA" =>
       losses[o] # <<>> /\ losses[o][Len(losses[o])].entry = Len(history[o])

EpisodeOK(o) ==
  IF status[o] = "none" THEN losses[o] = <<>> /\ reopens[o] = <<>> ELSE Episode(o)
EpisodesInv == TypeInv /\ \A o \in Opportunities : EpisodeOK(o)

LEMMA AppendedElements ==
  ASSUME NEW S, NEW s \in Seq(S), NEW e \in S
  PROVE  /\ Len(s) \in Nat /\ Len(Append(s, e)) = Len(s) + 1
         /\ Append(s, e)[Len(s) + 1] = e
         /\ \A i \in 1..Len(s) : Append(s, e)[i] = s[i]
         /\ 1..Len(Append(s, e)) = 1..Len(s) \cup {Len(s) + 1}
         /\ Append(s, e) # <<>>
OBVIOUS

LEMMA PlacesAppended ==
  ASSUME NEW S, NEW h \in Seq(S), NEW e \in S, NEW kind
  PROVE  Places(Append(h, e), kind)
           = Places(h, kind) \cup (IF e.kind = kind THEN {Len(h) + 1} ELSE {})
<1> DEFINE g == Append(h, e)
<1>1. /\ Len(h) \in Nat /\ g[Len(h) + 1] = e
      /\ \A i \in 1..Len(h) : g[i] = h[i]
      /\ 1..Len(g) = 1..Len(h) \cup {Len(h) + 1}
  BY AppendedElements
<1> HIDE DEF g
<1>2. Places(g, kind) = Places(h, kind) \cup (IF e.kind = kind THEN {Len(h) + 1} ELSE {})
  BY <1>1 DEF Places
<1> QED BY <1>2 DEF g

LEMMA EntriesAppended ==
  ASSUME NEW S, NEW s \in Seq(S), NEW e \in S
  PROVE  Entries(Append(s, e)) = Entries(s) \cup {e.entry}
<1> DEFINE g == Append(s, e)
<1>1. /\ Len(s) \in Nat /\ g[Len(s) + 1] = e
      /\ \A i \in 1..Len(s) : g[i] = s[i]
      /\ 1..Len(g) = 1..Len(s) \cup {Len(s) + 1}
  BY AppendedElements
<1> HIDE DEF g
<1>2. ASSUME NEW x \in Entries(g) PROVE x \in Entries(s) \cup {e.entry}
  <2>1. PICK i \in 1..Len(g) : x = g[i].entry
    BY <1>2 DEF Entries
  <2> QED BY <1>1, <2>1 DEF Entries
<1>3. ASSUME NEW x \in Entries(s) \cup {e.entry} PROVE x \in Entries(g)
  <2>1. CASE x = e.entry
    BY <1>1, <2>1 DEF Entries
  <2>2. CASE x \in Entries(s)
    <3>1. PICK i \in 1..Len(s) : x = s[i].entry
      BY <2>2 DEF Entries
    <3> QED BY <1>1, <3>1 DEF Entries
  <2> QED BY <1>3, <2>1, <2>2
<1> QED BY <1>2, <1>3 DEF g

\* A change of status that is neither a loss nor a reopening.
LEMMA EpisodeChanged ==
  ASSUME TypeOK, NEW o \in Opportunities, Episode(o), NEW to \in Statuses, to # "PERDIDA",
         Transition(o, to, "STATUS_CHANGED"), losses' = losses, reopens' = reopens
  PROVE  Episode(o)'
<1> DEFINE e == [from |-> status[o], to |-> to, kind |-> "STATUS_CHANGED"]
<1>1. history[o] \in Seq(HistoryEntries) /\ e \in HistoryEntries
  BY DEF TypeOK
<1>2. history'[o] = Append(history[o], e) /\ status'[o] = to
  BY TransitionFrame
<1>3. e.kind = "STATUS_CHANGED"
  OBVIOUS
<1> HIDE DEF e, HistoryEntries
<1>4. \A kind \in {"LOST", "REOPENED"} : Places(history'[o], kind) = Places(history[o], kind)
  <2>1. \A kind : Places(Append(history[o], e), kind)
          = Places(history[o], kind) \cup (IF e.kind = kind THEN {Len(history[o]) + 1} ELSE {})
    BY <1>1, PlacesAppended
  <2> QED BY <1>2, <1>3, <2>1
<1> QED BY <1>2, <1>4 DEF Episode

\* A loss refers to the entry it makes, and the reopenings to earlier losses.
LEMMA EpisodeLost ==
  ASSUME TypeOK, NEW o \in Opportunities, Episode(o), Lose(o)
  PROVE  Episode(o)'
<1> DEFINE e == [from |-> status[o], to |-> "PERDIDA", kind |-> "LOST"]
           x == [entry |-> NextEntry(o), products |-> products[o]]
<1>1. history[o] \in Seq(HistoryEntries) /\ losses[o] \in Seq(LossEvents)
  BY DEF TypeOK
<1>2. e \in HistoryEntries /\ e.kind = "LOST"
  BY DEF Lose
<1>3. x \in LossEvents /\ x.entry = Len(history[o]) + 1
  BY <1>1 DEF NextEntry, TypeOK
<1>4. /\ history'[o] = Append(history[o], e) /\ losses'[o] = Append(losses[o], x)
      /\ reopens' = reopens
  BY TransitionFrame DEF Lose, TypeOK
<1> HIDE DEF e, x, HistoryEntries, LossEvents, ReopenEvents
<1>5. /\ Places(history'[o], "LOST") = Places(history[o], "LOST") \cup {Len(history[o]) + 1}
      /\ Places(history'[o], "REOPENED") = Places(history[o], "REOPENED")
  <2>1. \A kind : Places(Append(history[o], e), kind)
          = Places(history[o], kind) \cup (IF e.kind = kind THEN {Len(history[o]) + 1} ELSE {})
    BY <1>1, <1>2, PlacesAppended
  <2> QED BY <1>2, <1>4, <2>1
<1>6. Entries(losses'[o]) = Entries(losses[o]) \cup {Len(history[o]) + 1}
  <2>1. Entries(Append(losses[o], x)) = Entries(losses[o]) \cup {x.entry}
    BY <1>1, <1>3, EntriesAppended
  <2> QED BY <1>3, <1>4, <2>1
<1>7. /\ Len(losses[o]) \in Nat /\ Len(losses'[o]) = Len(losses[o]) + 1
      /\ losses'[o][Len(losses[o]) + 1] = x /\ losses'[o] # <<>>
      /\ \A i \in 1..Len(losses[o]) : losses'[o][i] = losses[o][i]
  BY <1>1, <1>3, <1>4, AppendedElements
<1>8. Len(history'[o]) = Len(history[o]) + 1
  BY <1>1, <1>2, <1>4, AppendedElements
<1>9. \A i \in 1..Len(reopens'[o]) :
        /\ reopens'[o][i].loss \in 1..Len(losses'[o])
        /\ losses'[o][reopens'[o][i].loss].entry = reopens'[o][i].entry - 1
  BY <1>4, <1>7 DEF Episode
<1>10. losses'[o][Len(losses'[o])].entry = Len(history'[o])
  BY <1>3, <1>7, <1>8
<1> QED BY <1>4, <1>5, <1>6, <1>7, <1>9, <1>10 DEF Episode

\* A reopening refers to the last loss, whose entry is the one before its own.
LEMMA EpisodeReopened ==
  ASSUME TypeOK, NEW o \in Opportunities, Episode(o), status[o] = "PERDIDA", NEW k \in Commands,
         Transition(o, "NEGOCIACION", "REOPENED"), losses' = losses,
         reopens' = [reopens EXCEPT ![o] =
           Append(@, [entry |-> NextEntry(o), loss |-> Len(losses[o]), command |-> k])]
  PROVE  Episode(o)'
<1> DEFINE e == [from |-> status[o], to |-> "NEGOCIACION", kind |-> "REOPENED"]
           x == [entry |-> NextEntry(o), loss |-> Len(losses[o]), command |-> k]
<1>1. /\ history[o] \in Seq(HistoryEntries) /\ losses[o] \in Seq(LossEvents)
      /\ reopens[o] \in Seq(ReopenEvents)
  BY DEF TypeOK
<1>2. e \in HistoryEntries /\ e.kind = "REOPENED"
  OBVIOUS
<1>3. /\ x \in ReopenEvents /\ x.entry = Len(history[o]) + 1
      /\ x.loss = Len(losses[o])
  BY <1>1 DEF NextEntry
<1>4. /\ history'[o] = Append(history[o], e) /\ reopens'[o] = Append(reopens[o], x)
      /\ status'[o] = "NEGOCIACION"
  BY TransitionFrame DEF TypeOK
<1> HIDE DEF e, x, HistoryEntries, LossEvents, ReopenEvents
<1>5. /\ Places(history'[o], "LOST") = Places(history[o], "LOST")
      /\ Places(history'[o], "REOPENED")
           = Places(history[o], "REOPENED") \cup {Len(history[o]) + 1}
  <2>1. \A kind : Places(Append(history[o], e), kind)
          = Places(history[o], kind) \cup (IF e.kind = kind THEN {Len(history[o]) + 1} ELSE {})
    BY <1>1, <1>2, PlacesAppended
  <2> QED BY <1>2, <1>4, <2>1
<1>6. Entries(reopens'[o]) = Entries(reopens[o]) \cup {Len(history[o]) + 1}
  <2>1. Entries(Append(reopens[o], x)) = Entries(reopens[o]) \cup {x.entry}
    BY <1>1, <1>3, EntriesAppended
  <2> QED BY <1>3, <1>4, <2>1
<1>7. /\ Len(reopens[o]) \in Nat /\ 1..Len(reopens'[o]) = 1..Len(reopens[o]) \cup {Len(reopens[o]) + 1}
      /\ reopens'[o][Len(reopens[o]) + 1] = x
      /\ \A i \in 1..Len(reopens[o]) : reopens'[o][i] = reopens[o][i]
  BY <1>1, <1>3, <1>4, AppendedElements
<1>8. Len(losses[o]) \in 1..Len(losses[o]) /\ losses[o][Len(losses[o])].entry = Len(history[o])
  BY <1>1 DEF Episode
<1>9. x.loss \in 1..Len(losses[o]) /\ losses[o][x.loss].entry = x.entry - 1
  <2>1. Len(history[o]) \in Nat
    BY <1>1
  <2> QED BY <1>3, <1>8, <2>1
<1>10. \A i \in 1..Len(reopens'[o]) :
         /\ reopens'[o][i].loss \in 1..Len(losses[o])
         /\ losses[o][reopens'[o][i].loss].entry = reopens'[o][i].entry - 1
  BY <1>7, <1>9 DEF Episode
<1> QED BY <1>4, <1>5, <1>6, <1>10 DEF Episode

LEMMA EpisodeRow ==
  ASSUME TypeInv, NEW o \in Opportunities, RowStep(o), Episode(o)
  PROVE  Episode(o)'
<1> TypeOK BY DEF TypeInv
<1>1. ASSUME NEW P \in SUBSET Products, Quote(o, P) PROVE Episode(o)'
  <2>1. Transition(o, "COTIZADA", "STATUS_CHANGED") /\ losses' = losses /\ reopens' = reopens
    BY <1>1 DEF Quote
  <2> QED BY <2>1, EpisodeChanged
<1>2. CASE Advance(o)
  <2>1. /\ Transition(o, Advanced(status[o]), "STATUS_CHANGED")
        /\ losses' = losses /\ reopens' = reopens
    BY <1>2 DEF Advance
  <2>2. Advanced(status[o]) \in {"NEGOCIACION", "GANADA"}
    BY DEF Advanced
  <2> QED BY <2>1, <2>2, EpisodeChanged
<1>3. CASE Lose(o)
  BY <1>3, EpisodeLost
<1>4. CASE Delete(o)
  BY <1>4 DEF Delete, Episode
<1>5. ASSUME NEW k \in Clients,
             \/ \E P \in SUBSET Products : EditQuote(k, P)
             \/ \E u \in Assignees \cup {Nobody} : Assign(k, u)
      PROVE  Episode(o)'
  <2>1. status' = status /\ history' = history /\ losses' = losses /\ reopens' = reopens
    BY <1>5 DEF EditQuote, Assign
  <2> QED BY <2>1 DEF Episode
<1> QED BY <1>1, <1>2, <1>3, <1>4, <1>5 DEF RowStep

LEMMA EpisodeCommit ==
  ASSUME TypeInv, NEW c \in Customers, CommitStep(c), NEW o, o = pending[c].opportunity,
         EpisodeOK(o)
  PROVE  EpisodeOK(o)'
<1> TypeOK BY DEF TypeInv
<1>1. /\ pending[c] # Nobody /\ HeldOK(c) /\ o \in Opportunities /\ status'[o] # "none"
  BY CommitFrame DEF TypeInv, PendingOK
<1>2. CASE CommitCreate(c)
  <2> DEFINE e == [from |-> "none", to |-> "NUEVA", kind |-> "CREATED"]
  <2>1. losses[o] = <<>> /\ reopens[o] = <<>>
    BY <1>1, <1>2 DEF CommitCreate, HeldOK, EpisodeOK, Created
  <2>2. /\ history'[o] = <<e>> /\ status'[o] = "NUEVA"
        /\ losses' = losses /\ reopens' = reopens
    BY <1>1, <1>2 DEF CommitCreate, TypeOK
  <2>3. e.kind = "CREATED"
    OBVIOUS
  <2> HIDE DEF e
  <2>4. \A kind \in {"LOST", "REOPENED"} : Places(<<e>>, kind) = {}
    <3>1. Len(<<e>>) = 1 /\ <<e>>[1] = e
      OBVIOUS
    <3> QED BY <2>3, <3>1 DEF Places
  <2>5. Entries(<<>>) = {} /\ Len(<<>>) = 0
    BY DEF Entries
  <2>6. /\ losses'[o] = <<>> /\ reopens'[o] = <<>>
        /\ \A kind \in {"LOST", "REOPENED"} : Places(history'[o], kind) = {}
    BY <2>1, <2>2, <2>4
  <2>7. /\ Entries(losses'[o]) = Places(history'[o], "LOST")
        /\ Entries(reopens'[o]) = Places(history'[o], "REOPENED")
        /\ 1..Len(reopens'[o]) = {} /\ status'[o] # "PERDIDA"
    <3>1. Entries(losses'[o]) = {} /\ Entries(reopens'[o]) = {}
      BY <2>5, <2>6
    <3>2. 1..Len(reopens'[o]) = {}
      <4>1. Len(reopens'[o]) = 0
        BY <2>5, <2>6
      <4> QED BY <4>1
    <3> QED BY <2>2, <2>6, <3>1, <3>2
  <2>8. Episode(o)'
    BY <2>7 DEF Episode
  <2> QED BY <1>1, <2>8 DEF EpisodeOK
<1>3. CASE CommitRegress(c)
  <2>1. /\ o \in Created /\ status[o] \in {"GANADA", "NEGOCIACION"}
        /\ Transition(o, Regressed(status[o]), "STATUS_CHANGED")
        /\ losses' = losses /\ reopens' = reopens
    BY <1>1, <1>3 DEF CommitRegress, HeldOK
  <2>2. Regressed(status[o]) \in {"NEGOCIACION", "COTIZADA"}
    BY DEF Regressed
  <2> QED BY <1>1, <2>1, <2>2, EpisodeChanged DEF EpisodeOK, Created
<1>4. CASE CommitReopen(c)
  <2> DEFINE q == pending[c].arg
  <2>1. /\ o \in Created /\ status[o] = "PERDIDA" /\ q \in Requests /\ request[q] # Nobody
        /\ Episode(o)
    BY <1>1, <1>4 DEF CommitReopen, HeldOK, EpisodeOK, Created
  <2>2. request[q].command \in Commands /\ losses' = losses
    BY <1>4, <2>1 DEF TypeOK, CommitReopen
  <2>3. CASE Reopened(request[q].command) = {}
    <3>1. /\ Transition(o, "NEGOCIACION", "REOPENED")
          /\ reopens' = [reopens EXCEPT ![o] =
               Append(@, [entry |-> NextEntry(o), loss |-> Len(losses[o]),
                          command |-> request[q].command])]
      BY <1>4, <2>3 DEF CommitReopen
    <3>2. Episode(o)'
      BY <1>1, <2>1, <2>2, <3>1, EpisodeReopened
    <3> QED BY <1>1, <3>2 DEF EpisodeOK
  <2>4. CASE Reopened(request[q].command) # {}
    <3>1. status' = status /\ history' = history /\ losses' = losses /\ reopens' = reopens
      BY <1>4, <2>4 DEF CommitReopen
    <3>2. Episode(o)'
      BY <2>1, <3>1 DEF Episode
    <3> QED BY <1>1, <3>2 DEF EpisodeOK
  <2> QED BY <2>3, <2>4
<1> QED BY <1>2, <1>3, <1>4 DEF CommitStep

LEMMA EpisodesStep == EpisodesInv /\ [Next]_vars => EpisodesInv'
<1> SUFFICES ASSUME EpisodesInv, [Next]_vars, NEW p \in Opportunities PROVE EpisodeOK(p)'
  BY TypeInvStep DEF EpisodesInv
<1> TypeInv /\ EpisodeOK(p) BY DEF EpisodesInv
<1>1. ASSUME Untouched(p) PROVE EpisodeOK(p)'
  BY <1>1 DEF Untouched, EpisodeOK, Episode
<1>2. CASE Still
  BY <1>1, <1>2, StillFrame
<1>3. ASSUME NEW o \in Opportunities, RowStep(o) PROVE EpisodeOK(p)'
  <2>1. CASE p = o
    <3>1. status[p] # "none" /\ status'[p] # "none"
      BY <1>3, <2>1, RowFrame DEF Created
    <3>2. Episode(p)'
      BY <1>3, <2>1, <3>1, EpisodeRow DEF EpisodeOK
    <3> QED BY <3>1, <3>2 DEF EpisodeOK
  <2>2. CASE p # o
    BY <1>1, <1>3, <2>2, RowFrame
  <2> QED BY <2>1, <2>2
<1>4. ASSUME NEW c \in Customers, CommitStep(c) PROVE EpisodeOK(p)'
  <2>1. CASE p = pending[c].opportunity
    BY <1>4, <2>1, EpisodeCommit
  <2>2. CASE p # pending[c].opportunity
    BY <1>1, <1>4, <2>2, CommitFrame
  <2> QED BY <2>1, <2>2
<1> QED BY <1>2, <1>3, <1>4, StepKinds

\* However losses and reopenings alternate, and whatever fails before its commit,
\* each entry of the history has its event, and a reopening refers to the loss
\* right before it.
THEOREM LossEpisodesCorrect == Spec => []LossEpisodes
<1>1. Init => EpisodesInv
  BY InitType DEF Init, EpisodesInv, EpisodeOK
<1>2. EpisodesInv => LossEpisodes
  BY DEF EpisodesInv, EpisodeOK, Episode, Entries, Places, LossEpisodes, Created
<1> QED BY <1>1, <1>2, EpisodesStep, PTL DEF Spec
-----------------------------------------------------------------------------
(* Stale notices.                                                          *)

\* While no command committed under the generator's statement, its selection is
\* as good as the notices themselves.
DueInv ==
  /\ TypeInv
  /\ overlaps = 0 =>
       /\ NoticesAreAlwaysDue
       /\ scan # Nobody => \A o \in scan : IsActive(o) /\ o \in overdue

\* Steps that close no opportunity and take no overdue mark.
LEMMA DueKept ==
  ASSUME DueInv, overlaps' = overlaps, notices' = notices, scan' = scan,
         overdue \subseteq overdue',
         \A o \in Opportunities : IsActive(o) => IsActive(o)'
  PROVE  overlaps' = 0 => /\ NoticesAreAlwaysDue'
                          /\ scan' # Nobody => \A o \in scan' : IsActive(o)' /\ o \in overdue'
<1> SUFFICES ASSUME overlaps = 0
             PROVE  /\ NoticesAreAlwaysDue'
                    /\ scan # Nobody => \A o \in scan : IsActive(o)' /\ o \in overdue'
  OBVIOUS
<1>1. notices \subseteq Opportunities /\ (scan # Nobody => scan \subseteq Opportunities)
  BY DEF DueInv, TypeInv, TypeOK
<1>2. \A o \in notices : IsActive(o)' /\ o \in overdue'
  BY <1>1 DEF DueInv, NoticesAreAlwaysDue
<1>3. scan # Nobody => \A o \in scan : IsActive(o)' /\ o \in overdue'
  BY <1>1 DEF DueInv
<1> QED BY <1>2, <1>3 DEF NoticesAreAlwaysDue, IsActive

\* A command that changes a status or deletes resolves the notice of its own
\* row, and counts as an overlap if the generator runs.
LEMMA DueResolved ==
  ASSUME DueInv, NEW o \in Opportunities, Resolve(o), Overlap, scan' = scan,
         overdue \ {o} \subseteq overdue',
         \A p \in Opportunities \ {o} : IsActive(p) => IsActive(p)'
  PROVE  overlaps' = 0 => /\ NoticesAreAlwaysDue'
                          /\ scan' # Nobody => \A p \in scan' : IsActive(p)' /\ p \in overdue'
<1> SUFFICES ASSUME overlaps' = 0
             PROVE  /\ NoticesAreAlwaysDue'
                    /\ scan' # Nobody => \A p \in scan' : IsActive(p)' /\ p \in overdue'
  OBVIOUS
<1>1. scan = Nobody /\ overlaps = 0
  BY DEF Overlap, DueInv, TypeInv, TypeOK
<1>2. notices' = notices \ {o} /\ notices \subseteq Opportunities
  BY DEF Resolve, DueInv, TypeInv, TypeOK
<1>3. \A p \in notices : IsActive(p) /\ p \in overdue
  BY <1>1 DEF DueInv, NoticesAreAlwaysDue
<1>4. \A p \in notices' : IsActive(p)' /\ p \in overdue'
  BY <1>2, <1>3
<1> QED BY <1>1, <1>4 DEF NoticesAreAlwaysDue, IsActive

LEMMA DueTransition ==
  ASSUME DueInv, NEW o \in Opportunities, NEW to, NEW kind, Transition(o, to, kind),
         deleted' = deleted
  PROVE  overlaps' = 0 => /\ NoticesAreAlwaysDue'
                          /\ scan' # Nobody => \A p \in scan' : IsActive(p)' /\ p \in overdue'
<1>1. \A p \in Opportunities \ {o} : IsActive(p) => IsActive(p)'
  BY TransitionFrame DEF IsActive, DueInv, TypeInv
<1>2. Resolve(o) /\ Overlap /\ scan' = scan /\ overdue' = overdue \ {o}
  BY DEF Transition
<1> QED BY <1>1, <1>2, DueResolved

LEMMA DueStep == DueInv /\ [Next]_vars => DueInv'
<1> DEFINE Due == overlaps' = 0 =>
             /\ NoticesAreAlwaysDue'
             /\ scan' # Nobody => \A o \in scan' : IsActive(o)' /\ o \in overdue'
<1> SUFFICES ASSUME DueInv, [Next]_vars PROVE Due
  BY TypeInvStep DEF DueInv
<1> TypeInv /\ TypeOK BY DEF DueInv, TypeInv
<1>1. ASSUME UNCHANGED <<status, deleted, noticeVars>> PROVE Due
  BY <1>1, DueKept DEF IsActive
<1>2. ASSUME NEW c \in Customers, NEW s \in Sources, BeginCreate(c, s) PROVE Due
  BY <1>1, <1>2 DEF BeginCreate
<1>3. ASSUME NEW c \in Customers, RollBack(c) \/ ArchiveCustomer(c) \/ RecomputeJob(c) PROVE Due
  BY <1>1, <1>3 DEF RollBack, ArchiveCustomer, RecomputeJob
<1>4. ASSUME NEW q \in Requests, NEW o \in Opportunities, NEW k \in Commands, LookUpReopen(q, o, k)
      PROVE  Due
  BY <1>1, <1>4 DEF LookUpReopen
<1>5. ASSUME NEW q \in Requests, BeginReopen(q) \/ RefuseReopen(q) \/ Forget(q) PROVE Due
  BY <1>1, <1>5 DEF BeginReopen, RefuseReopen, Forget
<1>6. ASSUME NEW o \in Opportunities, BeginRegress(o) \/ Matures(o) PROVE Due
  BY <1>1, <1>6 DEF BeginRegress, Matures
<1>7. ASSUME NEW k \in Clients, NEW o \in Opportunities, Read(k, o) PROVE Due
  BY <1>1, <1>7 DEF Read
<1>8. ASSUME NEW k \in Clients,
             \/ \E P \in SUBSET Products : EditQuote(k, P)
             \/ \E u \in Assignees \cup {Nobody} : Assign(k, u)
      PROVE  Due
  BY <1>1, <1>8 DEF EditQuote, Assign
<1>9. ASSUME NEW p \in Withdrawable, ToggleProduct(p) PROVE Due
  BY <1>1, <1>9 DEF ToggleProduct
<1>10. CASE UNCHANGED vars
  BY <1>1, <1>10
<1>11. ASSUME NEW o \in Opportunities, BecomesOverdue(o) PROVE Due
  BY <1>11, DueKept DEF BecomesOverdue, IsActive
<1>12. ASSUME NEW o \in Opportunities, NEW P \in SUBSET Products, Quote(o, P) PROVE Due
  BY <1>12, DueTransition DEF Quote
<1>13. ASSUME NEW o \in Opportunities, Advance(o) PROVE Due
  BY <1>13, DueTransition DEF Advance
<1>14. ASSUME NEW o \in Opportunities, Lose(o) PROVE Due
  BY <1>14, DueTransition DEF Lose
<1>15. ASSUME NEW o \in Opportunities, Delete(o) PROVE Due
  <2>1. \A p \in Opportunities \ {o} : IsActive(p) => IsActive(p)'
    BY <1>15 DEF Delete, IsActive
  <2>2. Resolve(o) /\ Overlap /\ scan' = scan /\ overdue' = overdue
    BY <1>15 DEF Delete
  <2> QED BY <2>1, <2>2, DueResolved
<1>16. ASSUME NEW c \in Customers, CommitCreate(c) PROVE Due
  <2>1. /\ overlaps' = overlaps /\ notices' = notices /\ scan' = scan /\ overdue' = overdue
        /\ deleted' = deleted
    BY <1>16 DEF CommitCreate
  <2>2. \A p \in Opportunities : status'[p] = status[p] \/ status'[p] = "NUEVA"
    BY <1>16 DEF CommitCreate, TypeOK
  <2>3. \A p \in Opportunities : IsActive(p) => IsActive(p)'
    BY <2>1, <2>2 DEF IsActive
  <2> QED BY <2>1, <2>3, DueKept
<1>17. ASSUME NEW c \in Customers, CommitRegress(c) PROVE Due
  <2>1. pending[c].opportunity \in Opportunities
    BY <1>17, CommitFrame DEF CommitStep
  <2> QED BY <1>17, <2>1, DueTransition DEF CommitRegress
<1>18. ASSUME NEW c \in Customers, CommitReopen(c) PROVE Due
  <2>1. pending[c].opportunity \in Opportunities
    BY <1>18, CommitFrame DEF CommitStep
  <2>2. CASE Reopened(request[pending[c].arg].command) = {}
    BY <1>18, <2>1, <2>2, DueTransition DEF CommitReopen
  <2>3. CASE Reopened(request[pending[c].arg].command) # {}
    BY <1>1, <1>18, <2>3 DEF CommitReopen
  <2> QED BY <2>2, <2>3
<1>19. CASE SelectStale
  <2>1. /\ overlaps' = overlaps /\ notices' = notices /\ scan' = Stale /\ overdue' = overdue
        /\ status' = status /\ deleted' = deleted
    BY <1>19 DEF SelectStale
  <2>2. \A o \in Stale : IsActive(o) /\ o \in overdue
    BY DEF Stale
  <2> QED BY <2>1, <2>2 DEF DueInv, NoticesAreAlwaysDue, IsActive
<1>20. CASE InsertStale
  <2>1. /\ overlaps' = overlaps /\ scan # Nobody /\ notices' = notices \cup scan
        /\ scan' = Nobody /\ overdue' = overdue /\ status' = status /\ deleted' = deleted
    BY <1>20 DEF InsertStale
  <2> QED BY <2>1 DEF DueInv, NoticesAreAlwaysDue, IsActive
<1> HIDE DEF Due
<1> QED
  BY <1>2, <1>3, <1>4, <1>5, <1>6, <1>7, <1>8, <1>9, <1>10, <1>11, <1>12, <1>13, <1>14, <1>15,
     <1>16, <1>17, <1>18, <1>19, <1>20 DEF Next

\* While the generator of stale notices and the commands do not overlap, no
\* notice outlives the state it tells of.
THEOREM NoticesAreDueCorrect == Spec => []NoticesAreDue
<1>1. Init => DueInv
  BY InitType DEF Init, DueInv, NoticesAreAlwaysDue
<1>2. DueInv => NoticesAreDue
  BY DEF DueInv, NoticesAreDue
<1> QED BY <1>1, <1>2, DueStep, PTL DEF Spec

-----------------------------------------------------------------------------
(* Reports.  A step of the reports is a step of the pipeline, or none, so   *)
(* that whatever is proved of the pipeline holds here.                     *)

LossRows == [opportunity : Opportunities, at : Days, entry : Nat, source : Sources,
             province : Provinces, products : SUBSET Products,
             names : UNION {[P -> Names] : P \in SUBSET Products}]
TimesOK ==
  /\ now \in Days
  /\ createdAt \in [Opportunities -> Days] /\ enteredAt \in [Opportunities -> Days]
  /\ \A o \in Opportunities : enteredAt[o] <= now
  /\ lossRow \in Seq(LossRows)
  /\ province \in [Customers -> Provinces]
  /\ name \in [Products -> Names]

Moves == [ReportsNext]_<<vars, reportVars>>

LEMMA ReportsRefine == (ReportsInit => Init) /\ (Moves => [Next]_vars)
BY DEF ReportsInit, Moves, ReportsNext, PipelineStep, Tick, MoveCustomer, RenameProduct, BeginWalk, NextPage,
       ShowPage, Close, reportVars

\* The one opportunity that a step loses, if any.
LEMMA OneLoss ==
  ASSUME TypeInv, [Next]_vars, losses' # losses
  PROVE  LET o == CHOOSE p \in Opportunities : losses'[p] # losses[p] IN
         /\ o \in Opportunities /\ Lose(o)
<1> DEFINE o == CHOOSE p \in Opportunities : losses'[p] # losses[p]
<1>1. TypeOK /\ TypeOK'
  BY TypeStep DEF TypeInv
<1>2. \E p \in Opportunities : losses'[p] # losses[p]
  BY <1>1 DEF TypeOK
<1>3. o \in Opportunities /\ losses'[o] # losses[o]
  BY <1>2
<1> HIDE DEF o
<1>4. ASSUME NEW p \in Opportunities, RowStep(p)
      PROVE  Lose(o)
  <2>1. o = p
    BY <1>3, <1>4, RowFrame DEF Untouched
  <2> QED BY <1>3, <1>4, <2>1 DEF RowStep, Quote, Advance, Delete, EditQuote, Assign
<1>5. ASSUME NEW c \in Customers, CommitStep(c)
      PROVE  FALSE
  BY <1>3, <1>5 DEF CommitStep, CommitCreate, CommitRegress, CommitReopen
<1>6. ~Still
  BY <1>3 DEF Still
<1> QED BY <1>3, <1>4, <1>5, <1>6, StepKinds DEF o

LEMMA LossOfType ==
  ASSUME TypeInv, TimesOK, NEW o \in Opportunities, Lose(o)
  PROVE  LossOf(o) \in LossRows /\ LossOf(o).at = now
<1>1. o \in Created
  BY DEF Lose, Free
<1>2. source[o] \in Sources /\ customer[o] \in Customers
  BY <1>1 DEF TypeInv, RowsOK
<1>3. Len(history[o]) + 1 \in Nat /\ products[o] \subseteq Products
  BY DEF TypeInv, TypeOK
<1>4. province[customer[o]] \in Provinces /\ now \in Days
  BY <1>2 DEF TimesOK
<1>5. [p \in products[o] |-> name[p]] \in UNION {[P -> Names] : P \in SUBSET Products}
  <2>1. name \in [Products -> Names]
    BY DEF TimesOK
  <2>2. [p \in products[o] |-> name[p]] \in [products[o] -> Names]
    BY <1>3, <2>1
  <2> QED BY <1>3, <2>2
<1>6. \A x \in UNION {[P -> Names] : P \in SUBSET Products} :
        x = [p \in products[o] |-> name[p]] =>
        [opportunity |-> o, at |-> now, entry |-> Len(history[o]) + 1, source |-> source[o],
         province |-> province[customer[o]], products |-> products[o], names |-> x] \in LossRows
  BY <1>2, <1>3, <1>4 DEF LossRows
<1> QED BY <1>5, <1>6 DEF LossOf

\* What a step of the pipeline stamps.
LEMMA Stamps ==
  ASSUME TypeInv, TimesOK, PipelineStep
  PROVE  /\ TimesOK' /\ now' = now /\ province' = province /\ name' = name
         /\ \A o \in Opportunities : enteredAt[o] <= enteredAt'[o]
         /\ \/ lossRow' = lossRow
            \/ \E o \in Opportunities : Lose(o) /\ lossRow' = Append(lossRow, LossOf(o))
<1>1. /\ now' = now /\ province' = province /\ name' = name
      /\ now \in Days /\ Days \subseteq Nat
  BY DEF PipelineStep, TimesOK, Days
<1>2. createdAt' \in [Opportunities -> Days]
  BY <1>1 DEF PipelineStep, TimesOK
<1>3. /\ enteredAt' \in [Opportunities -> Days]
      /\ \A o \in Opportunities : enteredAt'[o] <= now /\ enteredAt[o] <= enteredAt'[o]
  <2>1. enteredAt' = [o \in Opportunities |-> IF history'[o] # history[o] THEN now ELSE enteredAt[o]]
    BY DEF PipelineStep
  <2>2. enteredAt \in [Opportunities -> Days] /\ \A o \in Opportunities : enteredAt[o] <= now
    BY DEF TimesOK
  <2>3. \A o \in Opportunities : enteredAt[o] \in Nat
    BY <1>1, <2>2
  <2> QED BY <1>1, <2>1, <2>2, <2>3
<1>4. \/ lossRow' = lossRow
      \/ \E o \in Opportunities : Lose(o) /\ lossRow' = Append(lossRow, LossOf(o))
  <2>1. lossRow' = IF losses' = losses THEN lossRow
                   ELSE Append(lossRow, LossOf(CHOOSE o \in Opportunities : losses'[o] # losses[o]))
    BY DEF PipelineStep
  <2>2. [Next]_vars
    BY DEF PipelineStep
  <2> QED BY <2>1, <2>2, OneLoss
<1>5. lossRow' \in Seq(LossRows)
  <2>1. lossRow \in Seq(LossRows)
    BY DEF TimesOK
  <2>2. ASSUME NEW o \in Opportunities, Lose(o)
        PROVE  Append(lossRow, LossOf(o)) \in Seq(LossRows)
    <3>1. LossOf(o) \in LossRows
      BY <2>2, LossOfType
    <3> QED BY <2>1, <3>1
  <2> QED BY <1>4, <2>1, <2>2
<1> QED BY <1>1, <1>2, <1>3, <1>4, <1>5 DEF TimesOK, Days

LEMMA TimesInit == ReportsInit => TimesOK
BY ReportsAssumption DEF ReportsInit, TimesOK, Days

LEMMA TimesStep ==
  ASSUME TypeInv, TimesOK, Moves
  PROVE  /\ TimesOK'
         /\ \A o \in Opportunities : enteredAt[o] <= enteredAt'[o]
         /\ lossRow' = lossRow \/ PipelineStep
<1>0. \A o \in Opportunities : enteredAt[o] <= enteredAt[o]
  <2>1. \A o \in Opportunities : enteredAt[o] \in Nat
    BY DEF TimesOK, Days
  <2> QED BY <2>1
<1>1. CASE PipelineStep
  BY <1>1, Stamps
<1>2. CASE Tick
  <2>1. now' \in Days /\ \A o \in Opportunities : enteredAt[o] <= now'
    BY <1>2, ReportsAssumption DEF Tick, TimesOK, Days
  <2> QED BY <1>0, <1>2, <2>1 DEF Tick, TimesOK
<1>3. ASSUME NEW c \in Customers, NEW v \in Provinces, MoveCustomer(c, v)
      PROVE  TimesOK' /\ UNCHANGED <<enteredAt, lossRow>>
  BY <1>3 DEF MoveCustomer, TimesOK
<1>7. ASSUME NEW p \in Products, NEW n \in Names, RenameProduct(p, n)
      PROVE  TimesOK' /\ UNCHANGED <<enteredAt, lossRow>>
  BY <1>7 DEF RenameProduct, TimesOK
<1>4. ASSUME UNCHANGED <<now, createdAt, enteredAt, lossRow, province, name>>
      PROVE  TimesOK'
  BY <1>4 DEF TimesOK
<1>5. CASE \E w \in Walks :
       \/ \E list \in Lists, d \in Dimensions : BeginWalk(w, list, d)
       \/ NextPage(w) \/ ShowPage(w) \/ Close(w)
  BY <1>0, <1>4, <1>5 DEF BeginWalk, NextPage, ShowPage, Close
<1>6. CASE UNCHANGED <<vars, reportVars>>
  BY <1>0, <1>4, <1>6 DEF reportVars
<1> QED BY <1>0, <1>1, <1>2, <1>3, <1>5, <1>6, <1>7 DEF Moves, ReportsNext

LEMMA DeletedStays ==
  ASSUME TypeInv, [Next]_vars
  PROVE  deleted \subseteq deleted'
<1>1. ASSUME NEW o \in Opportunities, RowStep(o) PROVE deleted \subseteq deleted'
  BY <1>1, RowFrame
<1>2. ASSUME NEW c \in Customers, CommitStep(c) PROVE deleted \subseteq deleted'
  BY <1>2, CommitFrame
<1>3. Still => deleted \subseteq deleted'
  BY DEF Still
<1> QED BY <1>1, <1>2, <1>3, StepKinds

LEMMA LossesKept ==
  ASSUME TypeInv, TimesOK, Moves, NEW d \in Dimensions, NEW period \in Periods, period[2] <= now
  PROVE  LostIn(LossMatches(d), period)' =
           {i \in LostIn(LossMatches(d), period) : lossRow[i].opportunity \notin deleted'}
<1> DEFINE n == Len(lossRow)
<1>1. period[2] \in Nat /\ now \in Nat
  BY ReportsAssumption DEF TimesOK, Days
<1>2. lossRow \in Seq(LossRows) /\ deleted \subseteq deleted'
  BY ReportsRefine, DeletedStays DEF TimesOK
<1>3. CASE lossRow' = lossRow
  BY <1>2, <1>3 DEF LostIn, LossMatches
<1>4. ASSUME NEW o \in Opportunities, Lose(o), lossRow' = Append(lossRow, LossOf(o))
      PROVE  LostIn(LossMatches(d), period)' =
               {i \in LostIn(LossMatches(d), period) : lossRow[i].opportunity \notin deleted'}
  <2>1. LossOf(o) \in LossRows /\ LossOf(o).at = now
    BY <1>4, LossOfType
  <2>2. /\ n \in Nat /\ DOMAIN lossRow = 1..n /\ DOMAIN lossRow' = 1..(n + 1)
        /\ \A i \in 1..n : lossRow'[i] = lossRow[i]
        /\ lossRow'[n + 1] = LossOf(o)
    BY <1>2, <1>4, <2>1
  <2> HIDE DEF n
  <2>3. ~Within(lossRow'[n + 1].at, period)
    BY <1>1, <2>1, <2>2 DEF Within
  <2>4. DOMAIN lossRow' = DOMAIN lossRow \cup {n + 1} /\ n + 1 \notin DOMAIN lossRow
    BY <2>2
  <2>5. ASSUME NEW i \in DOMAIN lossRow
        PROVE  i \in LostIn(LossMatches(d), period)' <=>
                 i \in LostIn(LossMatches(d), period) /\ lossRow[i].opportunity \notin deleted'
    <3>1. lossRow'[i] = lossRow[i] /\ i \in DOMAIN lossRow'
      BY <2>2, <2>4
    <3> QED BY <1>2, <3>1 DEF LostIn, LossMatches
  <2>6. n + 1 \notin LostIn(LossMatches(d), period)'
    BY <2>3 DEF LostIn
  <2>7. /\ LostIn(LossMatches(d), period)' \subseteq DOMAIN lossRow'
        /\ LostIn(LossMatches(d), period) \subseteq DOMAIN lossRow
    BY DEF LostIn, LossMatches
  <2> QED BY <2>4, <2>5, <2>6, <2>7
<1> QED BY <1>3, <1>4, TimesStep, Stamps

(* For every number of opportunities and days, every filter and every past   *)
(* period: the losses of the period are those it had, but for the deleted    *)
(* ones, whatever is reopened, lost again, moved or edited, since a loss is  *)
(* counted from the row that _record_loss_event wrote.                       *)
THEOREM LossesStayCorrect == ReportsSpec => LossesStay
<1>1. TypeInv /\ TimesOK /\ Moves => (TypeInv /\ TimesOK)'
  BY ReportsRefine, TypeInvStep, TimesStep
<1>2. ReportsInit => TypeInv /\ TimesOK
  BY ReportsRefine, InitType, TimesInit
<1>3. "lost" \notin Statuses /\ "lost" # "created" /\ "lost" # "won" /\ "lost" # "active"
  OBVIOUS
<1>4. \A d, period : MetricOpportunities("lost", d, period) = LostIn(LossMatches(d), period)
  BY <1>3 DEF MetricOpportunities
<1> DEFINE A == \A d \in Dimensions, period \in Periods :
       period[2] <= now =>
         MetricOpportunities("lost", d, period)' =
           {i \in MetricOpportunities("lost", d, period) :
              lossRow[i].opportunity \notin deleted'}
<1>5. TypeInv /\ TimesOK /\ Moves => A
  BY <1>3, LossesKept DEF MetricOpportunities
<1> HIDE DEF A
<1> QED BY <1>1, <1>2, <1>5, PTL DEF ReportsSpec, LossesStay, Moves, A

-----------------------------------------------------------------------------
(* The lists.  The time of a row only rises, so what a reader was shown     *)
(* never comes after the cursor again.                                     *)

Keys == [at : Nat, id : Nat]
Ids(list) == IF list = "lost" THEN DOMAIN lossRow ELSE Opportunities
Time(list, x) == IF list = "lost" THEN lossRow[x].at ELSE enteredAt[x]
Key(list, x) == [at |-> Time(list, x), id |-> x]

WalkType(v) ==
  /\ DOMAIN v = {"list", "filter", "stage", "cursor", "page", "more", "shown", "kept"}
  /\ v.list \in Lists /\ v.stage \in {"idle", "page", "more", "read"}
  /\ v.cursor \in Keys /\ v.more \in BOOLEAN
  /\ v.page \subseteq Keys /\ IsFiniteSet(v.page)
  /\ v.stage = "idle" => v.shown = {} /\ v.kept = {}
  /\ v.stage # "page" => v.page = {}
  /\ v.stage # "idle" => v.filter \in Dimensions /\ v.kept \subseteq Rows(v.list, v.filter)

\* What is on the page was after the cursor, and is not further down now.
PageOK(v) ==
  \A r \in v.page :
    /\ r.id \in Ids(v.list) /\ r.id \notin v.shown
    /\ r.at <= Time(v.list, r.id) /\ After(r, v.cursor)
ShownOK(v) ==
  \A x \in v.shown :
    /\ x \in Ids(v.list)
    /\ v.stage \in {"page", "more"} => ~After(Key(v.list, x), v.cursor)
KeptOK(v) ==
  /\ v.stage = "page" /\ v.more => v.page # {}
  /\ \A r \in v.kept :
    \/ r.id \in v.shown
    \/ v.stage = "more" /\ After(r, v.cursor)
    \/ v.stage = "page" /\ r \in v.page
    \/ v.stage = "page" /\ v.more /\ \A q \in v.page : Precedes(q, r)
WalkOK(v) == WalkType(v) /\ PageOK(v) /\ ShownOK(v) /\ KeptOK(v)
WalksOK == DOMAIN walk = Walks /\ \A w \in Walks : WalkOK(walk[w])

LEMMA RowsHave ==
  ASSUME TimesOK, NEW list \in Lists, NEW d
  PROVE  /\ Rows(list, d) \subseteq Keys /\ IsFiniteSet(Rows(list, d))
         /\ \A r \in Rows(list, d) :
              r.id \in Ids(list) /\ r.at = Time(list, r.id) /\ r.at <= MaxTime
<1>1. \A x \in Ids(list) : x \in Nat /\ Time(list, x) \in Nat /\ Time(list, x) <= MaxTime
  <2>1. \A o \in Opportunities : o \in Nat /\ enteredAt[o] \in Days
    <3>1. Opportunities \subseteq Nat
      BY OpportunityAssumption
    <3>2. \A o \in Opportunities : enteredAt[o] \in Days
      BY DEF TimesOK
    <3> QED BY <3>1, <3>2
  <2>2. \A i \in DOMAIN lossRow : i \in Nat /\ lossRow[i].at \in Days
    <3>1. \A i \in DOMAIN lossRow : i \in Nat /\ lossRow[i] \in LossRows
      BY DEF TimesOK
    <3> QED BY <3>1 DEF LossRows
  <2> QED BY <2>1, <2>2 DEF Ids, Time, Days
<1>2. IsFiniteSet(Ids(list))
  <2>1. IsFiniteSet(DOMAIN lossRow)
    <3>1. DOMAIN lossRow = 1..Len(lossRow) /\ Len(lossRow) \in Nat
      BY DEF TimesOK
    <3> QED BY <3>1, FS_Interval
  <2> QED BY <2>1, OpportunityAssumption DEF Ids
<1>3. PICK S \in SUBSET Ids(list) : Rows(list, d) = {Key(list, x) : x \in S}
  <2>1. CASE list = "lost"
    <3>1. LostConditions(d) \cap CurrentLosses \subseteq Ids(list)
      BY <2>1 DEF LostConditions, Ids
    <3>2. Rows(list, d) = {Key(list, x) : x \in LostConditions(d) \cap CurrentLosses}
      BY <2>1 DEF Rows, Key, Time
    <3> QED BY <3>1, <3>2
  <2>2. CASE list # "lost"
    <3>1. {p \in Matches(d) : status[p] = "GANADA"} \subseteq Ids(list)
      BY <2>2 DEF Matches, Created, Ids
    <3>2. Rows(list, d) = {Key(list, x) : x \in {p \in Matches(d) : status[p] = "GANADA"}}
      BY <2>2 DEF Rows, Key, Time
    <3> QED BY <3>1, <3>2
  <2> QED BY <2>1, <2>2
<1>4. IsFiniteSet(Rows(list, d))
  <2> DEFINE f == [x \in S |-> Key(list, x)]
  <2>1. IsFiniteSet(S)
    BY <1>2, <1>3, FS_Subset
  <2>2. DOMAIN f = S /\ {f[x] : x \in S} = {Key(list, x) : x \in S}
    OBVIOUS
  <2> HIDE DEF f
  <2>3. IsFiniteSet({f[x] : x \in S})
    BY <2>1, <2>2, ImageIsFinite
  <2> QED BY <1>3, <2>2, <2>3
<1> QED BY <1>1, <1>3, <1>4 DEF Key, Keys

\* The first and the last row of a page.
LEMMA EndsOfPage ==
  ASSUME NEW P \in SUBSET Keys, IsFiniteSet(P), P # {}
  PROVE  /\ \E r \in P : \A q \in P : ~Precedes(q, r)
         /\ \E r \in P : \A q \in P : ~Precedes(r, q)
<1> DEFINE at == [r \in P |-> r.at]
           id == [r \in P |-> r.id]
<1>1. \A r \in P : at[r] = r.at /\ id[r] = r.id /\ r.at \in Nat /\ r.id \in Nat
  BY DEF Keys
<1>2. DOMAIN at = P /\ DOMAIN id = P
  OBVIOUS
<1> HIDE DEF at, id
<1> DEFINE Times == {at[r] : r \in P}
<1>3. Times \in SUBSET Nat /\ Times # {} /\ IsFiniteSet(Times)
  BY <1>1, <1>2, ImageIsFinite
<1>4. PICK hi \in Times : \A t \in Times : t <= hi
  BY <1>3, GreatestExists
<1>5. PICK lo \in Times : \A t \in Times : lo <= t
  BY <1>3, LeastExists
<1> DEFINE H == {r.id : r \in {q \in P : q.at = hi}}
           L == {r.id : r \in {q \in P : q.at = lo}}
<1>6. H \in SUBSET Nat /\ H # {} /\ IsFiniteSet(H)
  <2>1. H \in SUBSET Nat /\ H # {}
    BY <1>1, <1>4
  <2>2. IsFiniteSet({id[r] : r \in P})
    BY <1>2, ImageIsFinite
  <2>3. H \subseteq {id[r] : r \in P}
    BY <1>1
  <2>4. IsFiniteSet(H)
    <3> HIDE DEF H
    <3> QED BY <2>2, <2>3, FS_Subset
  <2> QED BY <2>1, <2>4
<1>7. L \in SUBSET Nat /\ L # {}
  BY <1>1, <1>5
<1>8. PICK a \in H : \A x \in H : x <= a
  <2> HIDE DEF H
  <2> QED BY <1>6, GreatestExists
<1>9. PICK b \in L : \A x \in L : b <= x
  <2> HIDE DEF L
  <2> QED BY <1>7, LeastExists
<1>10. PICK first \in P : first.at = hi /\ first.id = a
  BY <1>8
<1>11. PICK last \in P : last.at = lo /\ last.id = b
  BY <1>9
<1>12. ASSUME NEW q \in P
       PROVE  ~Precedes(q, first)
  <2>1. q.at <= hi /\ q.at \in Nat /\ q.id \in Nat /\ hi \in Nat /\ a \in Nat
    BY <1>1, <1>3, <1>4, <1>6
  <2>2. q.at = hi => q.id <= a
    BY <1>8
  <2> HIDE DEF Times, H, L
  <2> QED BY <1>10, <2>1, <2>2 DEF Precedes
<1>13. ASSUME NEW q \in P
       PROVE  ~Precedes(last, q)
  <2>1. lo <= q.at /\ q.at \in Nat /\ q.id \in Nat /\ lo \in Nat /\ b \in Nat
    BY <1>1, <1>3, <1>5, <1>7
  <2>2. q.at = lo => b <= q.id
    BY <1>9
  <2> HIDE DEF Times, H, L
  <2> QED BY <1>11, <2>1, <2>2 DEF Precedes
<1> QED BY <1>12, <1>13

\* A page is the first rows of the rest, and not empty unless the rest is.
FirstRows(rest) == {r \in rest : Cardinality({q \in rest : Precedes(q, r)}) < PageSize}
LEMMA PageIs ==
  ASSUME NEW rest \in SUBSET Keys, IsFiniteSet(rest)
  PROVE  /\ FirstRows(rest) \subseteq rest /\ IsFiniteSet(FirstRows(rest))
         /\ rest # {} => FirstRows(rest) # {}
         /\ \A r \in rest \ FirstRows(rest), q \in FirstRows(rest) : Precedes(q, r)
<1> DEFINE B(r) == {q \in rest : Precedes(q, r)}
           P == FirstRows(rest)
<1> USE DEF FirstRows
<1>1. \A r \in rest : IsFiniteSet(B(r)) /\ Cardinality(B(r)) \in Nat
  <2> SUFFICES ASSUME NEW r \in rest PROVE IsFiniteSet(B(r)) /\ Cardinality(B(r)) \in Nat
    OBVIOUS
  <2>1. B(r) \in SUBSET rest
    OBVIOUS
  <2> HIDE DEF B
  <2> QED BY <2>1, FS_Subset, FS_CardinalityType
<1>2. P \subseteq rest /\ IsFiniteSet(P)
  <2>1. P \in SUBSET rest
    OBVIOUS
  <2> QED BY <2>1, FS_Subset
<1>3. PageSize \in Nat \ {0}
  BY ReportsAssumption
<1>4. ASSUME rest # {}
      PROVE  P # {}
  <2>1. PICK r \in rest : \A q \in rest : ~Precedes(q, r)
    BY <1>4, EndsOfPage
  <2>2. B(r) = {}
    BY <2>1
  <2>3. Cardinality(B(r)) = 0
    BY <2>2, FS_EmptySet
  <2>4. Cardinality(B(r)) < PageSize
    <3> HIDE DEF B
    <3> QED BY <1>3, <2>3
  <2> QED BY <2>4
<1>5. ASSUME NEW r \in rest \ P, NEW q \in P
      PROVE  Precedes(q, r)
  <2> SUFFICES ASSUME ~Precedes(q, r) PROVE FALSE
    OBVIOUS
  <2>1. q \in Keys /\ r \in Keys /\ q # r /\ q \in rest /\ r \in rest
    BY <1>5
  <2>2. Precedes(r, q)
    BY <2>1 DEF Keys, Precedes
  <2>3. B(r) \subseteq B(q)
    BY <2>1, <2>2 DEF Keys, Precedes
  <2>4. Cardinality(B(r)) <= Cardinality(B(q))
    <3> HIDE DEF B
    <3> QED BY <1>1, <2>1, <2>3, FS_Subset
  <2>5. Cardinality(B(q)) < PageSize /\ ~(Cardinality(B(r)) < PageSize)
    BY <1>5
  <2> HIDE DEF B
  <2> QED BY <1>1, <1>3, <2>1, <2>4, <2>5
<1> QED BY <1>2, <1>4, <1>5

LEMMA ItsTime ==
  ASSUME TimesOK, NEW list, NEW x \in Ids(list)
  PROVE  x \in Nat /\ Time(list, x) \in Nat
<1>1. Opportunities \subseteq Nat /\ Days \subseteq Nat
  BY OpportunityAssumption DEF Days
<1>2. CASE list = "lost"
  <2>1. x \in Nat /\ lossRow[x] \in LossRows
    BY <1>2 DEF TimesOK, Ids
  <2>2. lossRow[x].at \in Days
    BY <2>1 DEF LossRows
  <2> QED BY <1>1, <1>2, <2>1, <2>2 DEF Time
<1>3. CASE list # "lost"
  <2>1. x \in Opportunities /\ enteredAt[x] \in Days
    BY <1>3 DEF TimesOK, Ids
  <2> QED BY <1>1, <1>3, <2>1 DEF Time
<1> QED BY <1>2, <1>3

\* A row of a list moves up, or stays where it is.
LEMMA RowsRise ==
  ASSUME TypeInv, TimesOK, Moves, NEW list, NEW x \in Ids(list)
  PROVE  /\ x \in Ids(list)' /\ x \in Nat
         /\ Time(list, x) \in Nat /\ Time(list, x)' \in Nat /\ Time(list, x) <= Time(list, x)'
<1>1. TimesOK'
  BY TimesStep
<1>2. CASE list = "lost"
  <2>1. /\ lossRow \in Seq(LossRows) /\ lossRow' \in Seq(LossRows)
        /\ x \in DOMAIN lossRow
    BY <1>1, <1>2 DEF TimesOK, Ids
  <2>2. x \in DOMAIN lossRow' /\ lossRow'[x] = lossRow[x]
    <3>1. CASE lossRow' = lossRow
      BY <2>1, <3>1
    <3>2. ASSUME NEW o \in Opportunities, Lose(o), lossRow' = Append(lossRow, LossOf(o))
          PROVE  x \in DOMAIN lossRow' /\ lossRow'[x] = lossRow[x]
      <4>1. LossOf(o) \in LossRows
        BY <3>2, LossOfType
      <4> QED BY <2>1, <3>2, <4>1
    <3> QED BY <3>1, <3>2, TimesStep, Stamps
  <2>3. lossRow[x] \in LossRows /\ x \in Nat
    BY <2>1
  <2>4. lossRow[x].at \in Nat
    BY <2>3 DEF LossRows, Days
  <2> QED BY <1>2, <2>2, <2>3, <2>4 DEF Ids, Time
<1>3. CASE list # "lost"
  <2>1. x \in Opportunities
    BY <1>3 DEF Ids
  <2>2. enteredAt[x] \in Nat /\ enteredAt'[x] \in Nat /\ enteredAt[x] <= enteredAt'[x]
    BY <1>1, <2>1, TimesStep DEF TimesOK, Days
  <2>3. x \in Nat
    BY <2>1, OpportunityAssumption
  <2> QED BY <1>3, <2>1, <2>2, <2>3 DEF Ids, Time
<1> QED BY <1>2, <1>3

\* A reader who does nothing: of what stayed in the list, more may leave it.
LEMMA ReaderWaits ==
  ASSUME TypeInv, TimesOK, Moves, NEW v, WalkOK(v), NEW u,
         DOMAIN u = DOMAIN v, u.list = v.list, u.filter = v.filter, u.stage = v.stage, u.cursor = v.cursor,
         u.page = v.page, u.more = v.more, u.shown = v.shown, u.kept \subseteq v.kept,
         v.stage # "idle" => u.kept \subseteq Rows(v.list, v.filter)'
  PROVE  WalkOK(u)'
<1>1. WalkType(v) /\ PageOK(v) /\ ShownOK(v) /\ KeptOK(v)
  BY DEF WalkOK
<1>2. WalkType(u)'
  BY <1>1 DEF WalkType
<1>3. \A r \in v.page : r \in Keys
  BY <1>1 DEF WalkType
<1>4. PageOK(u)'
  <2> SUFFICES ASSUME NEW r \in v.page
               PROVE  /\ r.id \in Ids(v.list)' /\ r.id \notin v.shown
                      /\ r.at <= Time(v.list, r.id)' /\ After(r, v.cursor)
    BY DEF PageOK, After
  <2>1. /\ r.id \in Ids(v.list) /\ r.id \notin v.shown
        /\ r.at <= Time(v.list, r.id) /\ After(r, v.cursor)
    BY <1>1 DEF PageOK
  <2>2. r.at \in Nat
    BY <1>3 DEF Keys
  <2>3. /\ r.id \in Ids(v.list)' /\ Time(v.list, r.id) \in Nat /\ Time(v.list, r.id)' \in Nat
        /\ Time(v.list, r.id) <= Time(v.list, r.id)'
    BY <2>1, RowsRise
  <2> QED BY <2>1, <2>2, <2>3
<1>5. ShownOK(u)'
  <2> SUFFICES ASSUME NEW x \in v.shown
               PROVE  /\ x \in Ids(v.list)'
                      /\ v.stage \in {"page", "more"} => ~After(Key(v.list, x), v.cursor)'
    BY DEF ShownOK, After, Key
  <2>1. /\ x \in Ids(v.list)
        /\ v.stage \in {"page", "more"} => ~After(Key(v.list, x), v.cursor)
    BY <1>1 DEF ShownOK
  <2>2. /\ x \in Ids(v.list)' /\ x \in Nat
        /\ Time(v.list, x) \in Nat /\ Time(v.list, x)' \in Nat
        /\ Time(v.list, x) <= Time(v.list, x)'
    BY <2>1, RowsRise
  <2>3. v.cursor.at \in Nat /\ v.cursor.id \in Nat
    BY <1>1 DEF WalkType, Keys
  <2>4. ~After(Key(v.list, x), v.cursor) => ~After(Key(v.list, x), v.cursor)'
    BY <2>2, <2>3 DEF After, Key
  <2> QED BY <2>1, <2>2, <2>4
<1>6. KeptOK(u)'
  BY <1>1 DEF KeptOK, After, Precedes
<1> QED BY <1>2, <1>4, <1>5, <1>6 DEF WalkOK

\* The first statement of a page.
LEMMA PageRead ==
  ASSUME TimesOK, NEW list \in Lists, NEW d \in Dimensions, NEW cursor \in Keys,
         NEW shown, NEW kept, kept \subseteq Rows(list, d),
         \A x \in shown : x \in Ids(list) /\ ~After(Key(list, x), cursor),
         \A r \in kept : r.id \in shown \/ After(r, cursor)
  PROVE  LET page == Page(list, d, cursor)
             rest == {r \in Rows(list, d) : After(r, cursor)} \ page
         IN WalkOK([list |-> list, filter |-> d, stage |-> "page", cursor |-> cursor, page |-> page,
                    more |-> rest # {}, shown |-> shown, kept |-> kept])
<1> DEFINE all == {r \in Rows(list, d) : After(r, cursor)}
           page == Page(list, d, cursor)
           v == [list |-> list, filter |-> d, stage |-> "page", cursor |-> cursor, page |-> page,
                 more |-> all \ page # {}, shown |-> shown, kept |-> kept]
<1>1. /\ Rows(list, d) \subseteq Keys /\ IsFiniteSet(Rows(list, d))
      /\ \A r \in Rows(list, d) : r.id \in Ids(list) /\ r.at = Time(list, r.id)
  BY RowsHave
<1>2. all \in SUBSET Keys /\ IsFiniteSet(all)
  <2>1. all \in SUBSET Rows(list, d)
    OBVIOUS
  <2> HIDE DEF all
  <2> QED BY <1>1, <2>1, FS_Subset
<1>3. page = FirstRows(all)
  BY DEF Page, FirstRows
<1>4. /\ page \subseteq all /\ IsFiniteSet(page)
      /\ all # {} => page # {}
      /\ \A r \in all \ page, q \in page : Precedes(q, r)
  <2> HIDE DEF all, page
  <2> QED BY <1>2, <1>3, PageIs
<1> HIDE DEF page
<1>5. WalkType(v)
  BY <1>2, <1>4 DEF WalkType
<1>6. PageOK(v)
  <2> SUFFICES ASSUME NEW r \in page
               PROVE  /\ r.id \in Ids(list) /\ r.id \notin shown
                      /\ r.at <= Time(list, r.id) /\ After(r, cursor)
    BY DEF PageOK
  <2>1. r \in Rows(list, d) /\ After(r, cursor) /\ r \in Keys
    BY <1>2, <1>4
  <2>2. r.id \in Ids(list) /\ r.at = Time(list, r.id) /\ r.at \in Nat
    BY <1>1, <2>1 DEF Keys
  <2>3. After(Key(list, r.id), cursor)
    BY <2>1, <2>2 DEF After, Key
  <2> QED BY <2>1, <2>2, <2>3
<1>7. ShownOK(v)
  BY DEF ShownOK
<1>8. KeptOK(v)
  <2>1. all \ page # {} => page # {}
    BY <1>4
  <2>2. ASSUME NEW r \in kept, r.id \notin shown, r \notin page
        PROVE  all \ page # {} /\ \A q \in page : Precedes(q, r)
    BY <1>4, <2>2
  <2> QED BY <2>1, <2>2 DEF KeptOK
<1> QED BY <1>5, <1>6, <1>7, <1>8 DEF WalkOK, page

\* The further statements of a page, which show it.
LastOn(page) == CHOOSE r \in page : \A q \in page : ~Precedes(r, q)
LEMMA PageShown ==
  ASSUME TimesOK, NEW v, WalkOK(v), v.stage = "page"
  PROVE  WalkOK(Turned(v))
<1> DEFINE u == Turned(v)
           last == LastOn(v.page)
<1>1. WalkType(v) /\ PageOK(v) /\ ShownOK(v) /\ KeptOK(v)
  BY DEF WalkOK
<1>2. /\ DOMAIN u = DOMAIN v /\ u.list = v.list /\ u.filter = v.filter /\ u.kept = v.kept
      /\ u.more = v.more /\ u.page = {} /\ u.shown = v.shown \cup {r.id : r \in v.page}
      /\ u.cursor = IF v.more THEN last ELSE v.cursor
      /\ u.stage = IF v.more THEN "more" ELSE "read"
  BY <1>1 DEF WalkType, Turned, LastOn
<1>3. /\ v.page \subseteq Keys /\ IsFiniteSet(v.page) /\ v.cursor \in Keys /\ v.list \in Lists
      /\ v.kept \subseteq Rows(v.list, v.filter)
  BY <1>1 DEF WalkType
<1>4. v.kept \subseteq Keys
  BY <1>3, RowsHave
<1>5. v.more => last \in v.page /\ \A q \in v.page : ~Precedes(last, q)
  <2>1. v.more => v.page # {}
    BY <1>1 DEF KeptOK
  <2> QED BY <1>3, <2>1, EndsOfPage DEF LastOn
<1> HIDE DEF u, last
<1>6. WalkType(u)
  <2>1. u.cursor \in Keys
    BY <1>2, <1>3, <1>5
  <2>2. IsFiniteSet({})
    BY FS_EmptySet
  <2> QED BY <1>1, <1>2, <2>1, <2>2 DEF WalkType
<1>7. PageOK(u)
  BY <1>2 DEF PageOK
<1>8. ShownOK(u)
  <2>1. ASSUME NEW x \in v.shown
        PROVE  x \in Ids(v.list) /\ (v.more => ~After(Key(v.list, x), last))
    <3>1. x \in Ids(v.list) /\ ~After(Key(v.list, x), v.cursor)
      BY <1>1 DEF ShownOK
    <3>2. ASSUME v.more
          PROVE  ~After(Key(v.list, x), last)
      <4>1. After(last, v.cursor) /\ last \in Keys
        BY <1>1, <1>3, <1>5, <3>2 DEF PageOK
      <4>2. Time(v.list, x) \in Nat /\ x \in Nat
        BY <3>1, ItsTime
      <4> QED BY <1>3, <3>1, <4>1, <4>2 DEF After, Key, Keys
    <3> QED BY <3>1, <3>2
  <2>2. ASSUME NEW r \in v.page
        PROVE  r.id \in Ids(v.list) /\ (v.more => ~After(Key(v.list, r.id), last))
    <3>1. r \in Keys /\ r.id \in Ids(v.list) /\ r.at <= Time(v.list, r.id)
      BY <1>1, <1>3 DEF PageOK
    <3>2. Time(v.list, r.id) \in Nat
      BY <3>1, ItsTime
    <3>3. v.more => last \in Keys /\ ~Precedes(last, r)
      BY <1>3, <1>5
    <3> QED BY <3>1, <3>2, <3>3 DEF After, Key, Keys, Precedes
  <2> QED BY <1>2, <2>1, <2>2 DEF ShownOK
<1>9. KeptOK(u)
  <2> SUFFICES ASSUME NEW r \in v.kept, r.id \notin u.shown
               PROVE  v.more /\ After(r, last)
    BY <1>2 DEF KeptOK
  <2>1. r.id \notin v.shown /\ r \notin v.page
    BY <1>2
  <2>2. v.more /\ \A q \in v.page : Precedes(q, r)
    BY <1>1, <2>1 DEF KeptOK
  <2>3. Precedes(last, r) /\ last \in Keys /\ r \in Keys
    BY <1>3, <1>4, <1>5, <2>2
  <2> QED BY <2>2, <2>3 DEF Precedes, After, Keys
<1> QED BY <1>6, <1>7, <1>8, <1>9 DEF WalkOK, u

\* Nothing a reader's rows depend on changes.
Rests == UNCHANGED <<vars, createdAt, enteredAt, lossRow, province>>
LEMMA NothingMoves ==
  ASSUME Rests, NEW v, WalkOK(v)
  PROVE  WalkOK(v)'
<1>1. \A list, d : Rows(list, d)' = Rows(list, d)
  BY DEF Rests, Rows, LostConditions, CurrentLosses, LatestLosses, Matches, Created
<1>2. \A list : Ids(list)' = Ids(list) /\ \A x : Time(list, x)' = Time(list, x)
  BY DEF Rests, Ids, Time
<1>3. WalkType(v) => WalkType(v)'
  BY <1>1 DEF WalkType
<1>4. PageOK(v) => PageOK(v)'
  BY <1>2 DEF PageOK, After
<1>5. ShownOK(v) => ShownOK(v)'
  BY <1>2 DEF ShownOK, After, Key
<1>6. KeptOK(v) => KeptOK(v)'
  BY DEF KeptOK, After, Precedes
<1> QED BY <1>3, <1>4, <1>5, <1>6 DEF WalkOK

LEMMA NoWalkOK == TimesOK => WalkOK(NoWalk)
<1> SUFFICES ASSUME TimesOK PROVE WalkOK(NoWalk)
  OBVIOUS
<1>1. MaxTime + 1 \in Nat
  BY ReportsAssumption
<1>2. IsFiniteSet({})
  BY FS_EmptySet
<1> QED BY <1>1, <1>2 DEF NoWalk, NoCursor, Keys, Lists, WalkOK, WalkType, PageOK, ShownOK, KeptOK

\* Every reader goes on as it should.
LEMMA WalksStep ==
  ASSUME TypeInv, TimesOK, WalksOK, Moves
  PROVE  WalksOK'
<1>0. TimesOK' /\ DOMAIN walk = Walks /\ \A w \in Walks : WalkOK(walk[w])
  BY TimesStep DEF WalksOK
<1>1. ASSUME Keep
      PROVE  WalksOK'
  <2>1. walk' = [w \in Walks |-> [walk[w] EXCEPT !.kept =
                   IF walk[w].stage = "idle" THEN {}
                   ELSE @ \cap Listings'[<<walk[w].list, walk[w].filter>>]]]
    BY <1>1 DEF Keep
  <2>2. ASSUME NEW w \in Walks
        PROVE  WalkOK(walk[w])'
    <3>1. PICK v : v = walk[w] /\ WalkOK(v)
      BY <1>0
    <3>2. PICK k : k = IF v.stage = "idle" THEN {}
                       ELSE v.kept \cap Listings'[<<v.list, v.filter>>]
      OBVIOUS
    <3>3. PICK u : u = [v EXCEPT !.kept = k]
      OBVIOUS
    <3>4. walk'[w] = u
      BY <2>1, <3>1, <3>2, <3>3
    <3>5. WalkType(v)
      BY <3>1 DEF WalkOK
    <3>6. /\ DOMAIN u = DOMAIN v /\ u.list = v.list /\ u.filter = v.filter /\ u.stage = v.stage
          /\ u.cursor = v.cursor /\ u.page = v.page /\ u.more = v.more /\ u.shown = v.shown
          /\ u.kept = k
      BY <3>3, <3>5 DEF WalkType
    <3>7. k \subseteq v.kept
      BY <3>2
    <3>8. v.stage # "idle" => k \subseteq Rows(v.list, v.filter)'
      <4>1. v.stage # "idle" => v.list \in Lists /\ v.filter \in Dimensions
        BY <3>5 DEF WalkType
      <4>2. \A list \in Lists, d \in Dimensions : Listings'[<<list, d>>] = Rows(list, d)'
        BY DEF Listings
      <4> QED BY <3>2, <4>1, <4>2
    <3> HIDE <3>2, <3>3
    <3>9. WalkOK(u)'
      BY <3>1, <3>6, <3>7, <3>8, ReaderWaits
    <3> QED BY <3>4, <3>9
  <2> QED BY <2>1, <2>2 DEF WalksOK
<1>2. Rests => \A w \in Walks : \A v : v = walk[w] => WalkOK(v)'
  BY <1>0, NothingMoves
<1>3. ASSUME NEW w \in Walks, NEW u, walk' = [walk EXCEPT ![w] = u], WalkOK(u), Rests
      PROVE  WalksOK'
  <2>1. WalkOK(u)'
    BY <1>3, NothingMoves
  <2>2. ASSUME NEW x \in Walks
        PROVE  WalkOK(walk[x])'
    <3>1. PICK v : v = walk[x]
      OBVIOUS
    <3>2. WalkOK(v)'
      BY <1>2, <1>3, <3>1
    <3>3. walk'[x] = IF x = w THEN u ELSE v
      BY <1>0, <1>3, <3>1
    <3> QED BY <2>1, <3>2, <3>3
  <2> QED BY <1>0, <1>3, <2>2 DEF WalksOK
<1>4. CASE UNCHANGED walk /\ Rests
  <2>1. ASSUME NEW x \in Walks
        PROVE  WalkOK(walk[x])'
    <3>1. PICK v : v = walk[x]
      OBVIOUS
    <3>2. WalkOK(v)'
      BY <1>2, <1>4, <3>1
    <3>3. walk'[x] = v
      BY <1>4, <3>1
    <3> QED BY <3>2, <3>3
  <2> QED BY <1>0, <1>4, <2>1 DEF WalksOK
<1>5. ASSUME NEW w \in Walks, NEW list \in Lists, NEW d \in Dimensions, BeginWalk(w, list, d)
      PROVE  WalksOK'
  <2>1. NoCursor \in Keys /\ \A r \in Rows(list, d) : After(r, NoCursor)
    <3>1. MaxTime \in Nat
      BY ReportsAssumption
    <3>2. \A r \in Rows(list, d) : r.at \in Nat /\ r.at <= MaxTime
      BY RowsHave DEF Keys
    <3> QED BY <3>1, <3>2 DEF NoCursor, Keys, After
  <2> DEFINE page == Page(list, d, NoCursor)
             rest == {r \in Rows(list, d) : After(r, NoCursor)} \ page
             u == [list |-> list, filter |-> d, stage |-> "page", cursor |-> NoCursor,
                   page |-> page, more |-> rest # {}, shown |-> {}, kept |-> Rows(list, d)]
  <2>2. WalkOK(u)
    BY <2>1, PageRead
  <2>3. walk' = [walk EXCEPT ![w] = u] /\ Rests
    BY <1>5 DEF BeginWalk, Fetch, Rests
  <2> HIDE DEF u
  <2> QED BY <1>3, <2>2, <2>3
<1>6. ASSUME NEW w \in Walks, NextPage(w)
      PROVE  WalksOK'
  <2>1. PICK v : v = walk[w] /\ WalkOK(v)
    BY <1>0
  <2>2. v.stage = "more"
    BY <1>6, <2>1 DEF NextPage
  <2>3. /\ v.list \in Lists /\ v.filter \in Dimensions /\ v.cursor \in Keys
        /\ v.kept \subseteq Rows(v.list, v.filter)
    BY <2>1, <2>2 DEF WalkOK, WalkType
  <2>4. /\ \A x \in v.shown : x \in Ids(v.list) /\ ~After(Key(v.list, x), v.cursor)
        /\ \A r \in v.kept : r.id \in v.shown \/ After(r, v.cursor)
    BY <2>1, <2>2 DEF WalkOK, ShownOK, KeptOK
  <2> DEFINE page == Page(v.list, v.filter, v.cursor)
             rest == {r \in Rows(v.list, v.filter) : After(r, v.cursor)} \ page
             u == [list |-> v.list, filter |-> v.filter, stage |-> "page", cursor |-> v.cursor,
                   page |-> page, more |-> rest # {}, shown |-> v.shown, kept |-> v.kept]
  <2>5. WalkOK(u)
    BY <2>3, <2>4, PageRead
  <2>6. walk' = [walk EXCEPT ![w] = u] /\ Rests
    BY <1>6, <2>1 DEF NextPage, Fetch, Rests
  <2> HIDE DEF u
  <2> QED BY <1>3, <2>5, <2>6
<1>7. ASSUME NEW w \in Walks, ShowPage(w)
      PROVE  WalksOK'
  <2>1. PICK v : v = walk[w] /\ WalkOK(v)
    BY <1>0
  <2> DEFINE failed == v.list = "lost" /\ \E r \in v.page : lossRow[r.id].opportunity \in deleted
  <2> DEFINE u == Turned(v)
  <2>3. v.stage = "page" /\ Rests
    BY <1>7, <2>1 DEF ShowPage, Rests
  <2>4. WalkOK(u)
    BY <2>1, <2>3, PageShown
  <2>5. walk' = [walk EXCEPT ![w] = IF failed THEN NoWalk ELSE u]
    BY <1>7, <2>1 DEF ShowPage
  <2> HIDE DEF u, failed
  <2>6. WalkOK(NoWalk)
    BY NoWalkOK
  <2>7. WalkOK(IF failed THEN NoWalk ELSE u)
    BY <2>4, <2>6
  <2> QED BY <1>3, <2>3, <2>5, <2>7
<1>8. ASSUME NEW w \in Walks, Close(w)
      PROVE  WalksOK'
  BY <1>3, <1>8, NoWalkOK DEF Close, Rests
<1>9. CASE Tick
  BY <1>4, <1>9 DEF Tick, Rests
<1>10. CASE UNCHANGED <<vars, reportVars>>
  BY <1>4, <1>10 DEF reportVars, Rests
<1>11. CASE PipelineStep
  BY <1>1, <1>11 DEF PipelineStep
<1>12. ASSUME NEW c \in Customers, NEW v \in Provinces, MoveCustomer(c, v)
       PROVE  WalksOK'
  BY <1>1, <1>12 DEF MoveCustomer
<1>13. ASSUME NEW p \in Products, NEW n \in Names, RenameProduct(p, n)
       PROVE  WalksOK'
  BY <1>1, <1>13 DEF RenameProduct
<1> QED BY <1>5, <1>6, <1>7, <1>8, <1>9, <1>10, <1>11, <1>12, <1>13 DEF Moves, ReportsNext

LEMMA WalksInit == ReportsInit => WalksOK
<1> SUFFICES ASSUME ReportsInit PROVE WalksOK
  OBVIOUS
<1>1. TimesOK
  BY TimesInit
<1>2. DOMAIN walk = Walks /\ \A w \in Walks : walk[w] = NoWalk
  BY DEF ReportsInit
<1> QED BY <1>1, <1>2, NoWalkOK DEF WalksOK

(* For every number of opportunities, readers, rows to a page and filters:   *)
(* since the time of a row never falls, what a reader was shown is at the    *)
(* cursor or above it, and what stayed as it was is shown, on the page, or   *)
(* below it, until the page that has no next one.                            *)
THEOREM ListsAreCompleteCorrect == ReportsSpec => []ListsAreComplete
<1> DEFINE I == TypeInv /\ TimesOK /\ WalksOK
<1>1. ReportsInit => I
  BY ReportsRefine, InitType, TimesInit, WalksInit
<1>2. I /\ Moves => I'
  BY ReportsRefine, TypeInvStep, TimesStep, WalksStep
<1>3. I => ListsAreComplete
  <2> SUFFICES ASSUME I, NEW w \in Walks
               PROVE  /\ walk[w].stage = "read" => {r.id : r \in walk[w].kept} \subseteq walk[w].shown
                      /\ {r.id : r \in walk[w].page} \cap walk[w].shown = {}
    BY DEF ListsAreComplete
  <2>1. WalkOK(walk[w])
    BY DEF WalksOK
  <2> QED BY <2>1 DEF WalkOK, PageOK, KeptOK
<1> HIDE DEF I
<1> QED BY <1>1, <1>2, <1>3, PTL DEF ReportsSpec, Moves

-----------------------------------------------------------------------------
(* The reports agree.  The sum over the rows of a report is a fold, which   *)
(* the number of what the rows divide among them satisfies step by step.   *)

\* The field of the rows of f numbers the parts that S falls into.
Divides(f, field, I, S, part) ==
  /\ DOMAIN f = I /\ IsFiniteSet(I) /\ IsFiniteSet(S)
  /\ \A s \in S : part[s] \in I
  /\ \A x \in I : f[x][field] = Cardinality({s \in S : part[s] = x})

LEMMA SumOfParts ==
  ASSUME NEW f, NEW field, NEW I, NEW S, NEW part, Divides(f, field, I, S, part)
  PROVE  Total(f, field) = Cardinality(S)
<1>0. /\ DOMAIN f = I /\ IsFiniteSet(I) /\ IsFiniteSet(S)
      /\ \A s \in S : part[s] \in I
      /\ \A x \in I : f[x][field] = Cardinality({s \in S : part[s] = x})
  BY DEF Divides
<1> DEFINE Of(J) == {s \in S : part[s] \in J}
           Pick(J) == CHOOSE x \in J : TRUE
           pick == [J \in SUBSET I |-> Pick(J)]
           op == [xv \in I \X Nat |-> f[xv[1]][field] + xv[2]]
           F(g) == [J \in SUBSET I |-> IF J = {} THEN 0
                                       ELSE f[Pick(J)][field] + g[J \ {Pick(J)}]]
<1>1. Total(f, field) = (CHOOSE g : g = F(g))[I]
  <2>1. Total(f, field) =
          LET g == CHOOSE g : g = [J \in SUBSET (DOMAIN f) |->
                                     IF J = {} THEN 0
                                     ELSE f[CHOOSE x \in J : TRUE][field] + g[J \ {CHOOSE x \in J : TRUE}]]
          IN g[DOMAIN f]
    BY DEF Total, MapThenSumSet, MapThenFoldSet
  <2> QED BY <1>0, <2>1, Zenon
<1>2. \A J \in SUBSET I : J # {} => pick[J] = Pick(J) /\ Pick(J) \in J
  OBVIOUS
<1>3. \A J : IsFiniteSet(Of(J)) /\ Cardinality(Of(J)) \in Nat
  <2> SUFFICES ASSUME NEW J PROVE IsFiniteSet(Of(J)) /\ Cardinality(Of(J)) \in Nat
    OBVIOUS
  <2>1. Of(J) \in SUBSET S
    OBVIOUS
  <2> HIDE DEF Of
  <2> QED BY <1>0, <2>1, FS_Subset, FS_CardinalityType
<1>4. ASSUME NEW x \in I
      PROVE  f[x][field] = Cardinality(Of({x})) /\ f[x][field] \in Nat
  <2>1. Of({x}) = {s \in S : part[s] = x}
    OBVIOUS
  <2>2. f[x][field] = Cardinality(Of({x}))
    BY <1>0, <2>1
  <2>3. Cardinality(Of({x})) \in Nat
    BY <1>3, Zenon
  <2> HIDE DEF Of
  <2> QED BY <2>2, <2>3
<1>5. ASSUME NEW x \in I, NEW v \in Nat
      PROVE  op[<<x, v>>] = f[x][field] + v /\ op[<<x, v>>] \in Nat
  <2>1. op[<<x, v>>] = f[x][field] + v
    OBVIOUS
  <2>2. f[x][field] \in Nat
    BY <1>4
  <2> HIDE DEF op, Of
  <2> QED BY <2>1, <2>2
<1> HIDE DEF Of, Pick, pick, op
<1>6. PICK g \in [SUBSET I -> Nat] : \A J \in SUBSET I :
        g[J] = IF J = {} THEN 0 ELSE op[<<pick[J], g[J \ {pick[J]}]>>]
  <2>1. \A J \in SUBSET I : J # {} => pick[J] \in J
    BY <1>2
  <2>2. Foldable(I, Nat, 0, pick, op)
    BY <1>0, <1>5, <2>1 DEF Foldable
  <2>3. \E g \in [SUBSET I -> Nat] : Folds(g, I, 0, pick, op)
    BY <2>2, FoldExists
  <2> QED BY <2>3 DEF Folds
<1>7. ASSUME NEW J \in SUBSET I
      PROVE  g[J] = IF J = {} THEN 0 ELSE f[Pick(J)][field] + g[J \ {Pick(J)}]
  <2>1. CASE J # {}
    <3>1. Pick(J) \in I /\ pick[J] = Pick(J) /\ g[J \ {Pick(J)}] \in Nat
      BY <1>2, <1>6, <2>1
    <3>2. g[J] = op[<<Pick(J), g[J \ {Pick(J)}]>>]
      BY <1>6, <2>1, <3>1
    <3> QED BY <1>5, <2>1, <3>1, <3>2
  <2> QED BY <1>6, <2>1
<1>8. g = F(g)
  BY <1>6, <1>7
<1>9. PICK h : h = F(h) /\ Total(f, field) = h[I]
  BY <1>1, <1>8
<1>10. \A J \in SUBSET I : h[J] = IF J = {} THEN 0 ELSE f[Pick(J)][field] + h[J \ {Pick(J)}]
  BY <1>9
<1>11. ASSUME NEW J \in SUBSET I, J # {}
       PROVE  Cardinality(Of(J)) = Cardinality(Of({Pick(J)})) + Cardinality(Of(J \ {Pick(J)}))
  <2>1. /\ Of(J) = Of({Pick(J)}) \cup Of(J \ {Pick(J)})
        /\ Of({Pick(J)}) \cap Of(J \ {Pick(J)}) = {}
    BY <1>2, <1>11 DEF Of
  <2> DEFINE A == Of({Pick(J)})
             B == Of(J \ {Pick(J)})
  <2>2. /\ IsFiniteSet(A) /\ IsFiniteSet(B)
        /\ Cardinality(A) \in Nat /\ Cardinality(B) \in Nat
    BY <1>3, Zenon
  <2>3. Cardinality({}) = 0
    BY FS_EmptySet
  <2> HIDE DEF A, B
  <2>4. Cardinality(A \cup B) = Cardinality(A) + Cardinality(B) - Cardinality(A \cap B)
    BY <2>2, FS_Union
  <2>5. Of(J) = A \cup B /\ A \cap B = {}
    BY <2>1 DEF A, B
  <2>6. Cardinality(Of(J)) = Cardinality(A) + Cardinality(B)
    <3>1. Cardinality(A \cup B) = Cardinality(A) + Cardinality(B) - 0
      BY <2>3, <2>4, <2>5
    <3>2. Cardinality(A \cup B) = Cardinality(A) + Cardinality(B)
      BY <2>2, <3>1
    <3> QED BY <2>5, <3>2
  <2> QED BY <2>6 DEF A, B
<1> DEFINE T == {n \in Nat : \A J \in SUBSET I : Cardinality(J) = n => h[J] = Cardinality(Of(J))}
<1>12. \A J \in SUBSET I : IsFiniteSet(J) /\ Cardinality(J) \in Nat
  BY <1>0, FS_Subset, FS_CardinalityType
<1>13. 0 \in T
  <2> SUFFICES ASSUME NEW J \in SUBSET I, Cardinality(J) = 0
               PROVE  h[J] = Cardinality(Of(J))
    OBVIOUS
  <2>1. J = {}
    BY <1>12, FS_EmptySet
  <2>2. Of(J) = {}
    BY <2>1 DEF Of
  <2>3. Cardinality(Of(J)) = 0
    BY <2>2, FS_EmptySet
  <2> QED BY <1>10, <2>1, <2>3
<1>14. ASSUME NEW n \in Nat, n \in T
       PROVE  n + 1 \in T
  <2> SUFFICES ASSUME NEW J \in SUBSET I, Cardinality(J) = n + 1
               PROVE  h[J] = Cardinality(Of(J))
    OBVIOUS
  <2>1. J # {}
    <3>1. Cardinality({}) = 0 /\ n + 1 # 0
      BY FS_EmptySet
    <3>2. Cardinality(J) # 0
      BY <3>1
    <3> QED BY <3>1, <3>2
  <2>2. Pick(J) \in J /\ Pick(J) \in I
    BY <1>2, <2>1
  <2>3. Cardinality(J \ {Pick(J)}) = n
    BY <1>12, <2>2, FS_RemoveElement
  <2>4. h[J \ {Pick(J)}] = Cardinality(Of(J \ {Pick(J)}))
    BY <1>14, <2>3
  <2>5. h[J] = f[Pick(J)][field] + h[J \ {Pick(J)}]
    BY <1>10, <2>1
  <2>6. f[Pick(J)][field] = Cardinality(Of({Pick(J)}))
    BY <1>4, <2>2
  <2> QED BY <1>11, <2>1, <2>4, <2>5, <2>6
<1> HIDE DEF T
<1>15. Cardinality(I) \in T
  BY <1>12, <1>13, <1>14, AllNaturals
<1>16. h[I] = Cardinality(Of(I))
  BY <1>15 DEF T
<1> QED BY <1>0, <1>9, <1>16 DEF Of

-----------------------------------------------------------------------------
\* The loss events are the losses of the pipeline, in their order.
LinkOK ==
  /\ \A i \in DOMAIN lossRow : lossRow[i].entry \in Entries(losses[lossRow[i].opportunity])
  /\ \A o \in Opportunities : \A e \in Entries(losses[o]) :
       \E i \in DOMAIN lossRow : lossRow[i].opportunity = o /\ lossRow[i].entry = e
  /\ \A i, j \in DOMAIN lossRow :
       i < j /\ lossRow[i].opportunity = lossRow[j].opportunity => lossRow[i].entry < lossRow[j].entry

AgreeInv == EpisodesInv /\ RowsInv /\ TimesOK /\ LinkOK

LEMMA LinkLost ==
  ASSUME EpisodesInv, TimesOK, LinkOK, NEW o \in Opportunities, Lose(o),
         lossRow' = Append(lossRow, LossOf(o))
  PROVE  LinkOK'
<1> DEFINE n == Len(lossRow)
           e == Len(history[o]) + 1
<1>1. TypeInv /\ TypeOK
  BY DEF EpisodesInv, TypeInv
<1>2. LossOf(o) \in LossRows /\ lossRow \in Seq(LossRows)
  BY <1>1, LossOfType DEF TimesOK
<1>3. /\ n \in Nat /\ DOMAIN lossRow = 1..n /\ DOMAIN lossRow' = 1..(n + 1)
      /\ \A i \in 1..n : lossRow'[i] = lossRow[i]
      /\ lossRow'[n + 1] = LossOf(o)
  BY <1>2
<1>4. LossOf(o).opportunity = o /\ LossOf(o).entry = e /\ e \in Nat
  BY <1>1 DEF LossOf, TypeOK
<1>5. \A i \in 1..n : lossRow[i].opportunity \in Opportunities
  <2>1. \A i \in 1..n : lossRow[i] \in LossRows
    BY <1>2
  <2> QED BY <2>1 DEF LossRows
<1>6. /\ Entries(losses'[o]) = Entries(losses[o]) \cup {e}
      /\ \A p \in Opportunities \ {o} : losses'[p] = losses[p]
  <2>1. losses' = [losses EXCEPT ![o] = Append(@, [entry |-> e, products |-> products[o]])]
    BY DEF Lose, NextEntry
  <2>2. losses[o] \in Seq(LossEvents) /\ [entry |-> e, products |-> products[o]] \in LossEvents
    BY <1>1, <1>4 DEF TypeOK
  <2>3. losses'[o] = Append(losses[o], [entry |-> e, products |-> products[o]])
    BY <1>1, <2>1 DEF TypeOK
  <2>4. Entries(losses'[o]) = Entries(losses[o]) \cup {e}
    <3> DEFINE r == [entry |-> e, products |-> products[o]]
               E == LossEvents
    <3>1. losses[o] \in Seq(E) /\ r \in E /\ losses'[o] = Append(losses[o], r) /\ r.entry = e
      BY <2>2, <2>3
    <3> HIDE DEF r, E
    <3>2. Entries(Append(losses[o], r)) = Entries(losses[o]) \cup {r.entry}
      BY <3>1, EntriesAppended
    <3> QED BY <3>1, <3>2
  <2> QED BY <1>1, <2>1, <2>4 DEF TypeOK
<1>7. \A x \in Entries(losses[o]) : x \in Nat /\ x < e
  <2>1. status[o] # "none" /\ Episode(o)
    BY DEF Lose, Free, Created, EpisodesInv, EpisodeOK
  <2>2. Entries(losses[o]) \subseteq 1..Len(history[o])
    BY <2>1 DEF Episode, Places
  <2>3. Len(history[o]) \in Nat
    BY <1>1 DEF TypeOK
  <2> QED BY <2>2, <2>3
<1>8. \A i \in 1..n : lossRow[i].entry \in Entries(losses[lossRow[i].opportunity])
  BY <1>3 DEF LinkOK
<1> HIDE DEF n, e
<1>9. ASSUME NEW i \in DOMAIN lossRow'
      PROVE  lossRow'[i].entry \in Entries(losses'[lossRow'[i].opportunity])
  <2>1. CASE i = n + 1
    BY <1>3, <1>4, <1>6, <2>1
  <2>2. CASE i \in 1..n
    BY <1>3, <1>5, <1>6, <1>8, <2>2
  <2> QED BY <1>3, <2>1, <2>2
<1>10. ASSUME NEW p \in Opportunities, NEW x \in Entries(losses'[p])
       PROVE  \E i \in DOMAIN lossRow' : lossRow'[i].opportunity = p /\ lossRow'[i].entry = x
  <2>1. CASE x \in Entries(losses[p])
    <3>1. PICK i \in DOMAIN lossRow : lossRow[i].opportunity = p /\ lossRow[i].entry = x
      BY <2>1 DEF LinkOK
    <3> QED BY <1>3, <3>1
  <2>2. CASE x \notin Entries(losses[p])
    <3>1. p = o /\ x = e
      BY <1>6, <2>2
    <3> QED BY <1>3, <1>4, <3>1
  <2> QED BY <2>1, <2>2
<1>11. ASSUME NEW i \in DOMAIN lossRow', NEW j \in DOMAIN lossRow', i < j,
              lossRow'[i].opportunity = lossRow'[j].opportunity
       PROVE  lossRow'[i].entry < lossRow'[j].entry
  <2>1. i \in 1..n
    BY <1>3, <1>11
  <2>2. CASE j \in 1..n
    BY <1>3, <1>11, <2>1, <2>2 DEF LinkOK
  <2>3. CASE j = n + 1
    <3>1. lossRow[i].opportunity = o
      BY <1>3, <1>4, <1>11, <2>1, <2>3
    <3>2. lossRow[i].entry < e
      BY <1>7, <1>8, <2>1, <3>1
    <3> QED BY <1>3, <1>4, <2>1, <2>3, <3>2
  <2> QED BY <1>3, <2>2, <2>3
<1> QED BY <1>9, <1>10, <1>11 DEF LinkOK

LEMMA LinkStep ==
  ASSUME EpisodesInv, TimesOK, LinkOK, Moves
  PROVE  LinkOK'
<1>0. TypeInv
  BY DEF EpisodesInv
<1>1. CASE UNCHANGED <<losses, lossRow>>
  BY <1>1 DEF LinkOK
<1>2. CASE PipelineStep
  <2>1. CASE losses' = losses
    <3>1. lossRow' = lossRow
      BY <1>2, <2>1 DEF PipelineStep
    <3> QED BY <1>1, <2>1, <3>1
  <2>2. CASE losses' # losses
    <3>1. [Next]_vars /\ lossRow' = Append(lossRow, LossOf(CHOOSE p \in Opportunities : losses'[p] # losses[p]))
      BY <1>2, <2>2 DEF PipelineStep
    <3>2. PICK o \in Opportunities : Lose(o) /\ lossRow' = Append(lossRow, LossOf(o))
      BY <1>0, <2>2, <3>1, OneLoss
    <3> QED BY <3>2, LinkLost
  <2> QED BY <2>1, <2>2
<1>3. ~PipelineStep => UNCHANGED <<losses, lossRow>>
  BY DEF Moves, ReportsNext, Tick, MoveCustomer, RenameProduct, BeginWalk, NextPage, ShowPage,
         Close, reportVars
<1> QED BY <1>1, <1>2, <1>3

LEMMA AgreeInit == ReportsInit => AgreeInv
<1> SUFFICES ASSUME ReportsInit PROVE AgreeInv
  OBVIOUS
<1>1. Init /\ TypeInv /\ TimesOK
  BY ReportsRefine, InitType, TimesInit
<1>2. EpisodesInv
  BY <1>1 DEF Init, EpisodesInv, EpisodeOK
<1>3. RowsInv
  BY <1>1, RowsInit
<1>4. LinkOK
  <2>1. lossRow = <<>> /\ \A o \in Opportunities : losses[o] = <<>>
    BY <1>1 DEF ReportsInit, Init
  <2> QED BY <2>1 DEF LinkOK, Entries
<1> QED BY <1>1, <1>2, <1>3, <1>4 DEF AgreeInv

LEMMA AgreeStep == AgreeInv /\ Moves => AgreeInv'
<1> SUFFICES ASSUME AgreeInv, Moves PROVE AgreeInv'
  OBVIOUS
<1>1. EpisodesInv' /\ RowsInv'
  BY ReportsRefine, EpisodesStep, RowsStep DEF AgreeInv
<1>2. TimesOK' /\ LinkOK'
  BY TimesStep, LinkStep DEF AgreeInv, EpisodesInv
<1> QED BY <1>1, <1>2 DEF AgreeInv

-----------------------------------------------------------------------------
\* Max, where it is used.
LEMMA LatestIs ==
  ASSUME TimesOK, NEW i
  PROVE  i \in LatestLosses <=>
           /\ i \in DOMAIN lossRow
           /\ \A j \in DOMAIN lossRow : lossRow[j].opportunity = lossRow[i].opportunity => j <= i
<1> DEFINE Of(o) == {j \in DOMAIN lossRow : lossRow[j].opportunity = o}
<1>1. DOMAIN lossRow = 1..Len(lossRow) /\ Len(lossRow) \in Nat
  BY DEF TimesOK
<1>2. IsFiniteSet(DOMAIN lossRow)
  BY <1>1, FS_Interval
<1>3. ASSUME NEW k \in DOMAIN lossRow
      PROVE  LET o == lossRow[k].opportunity IN
             Max(Of(o)) \in Of(o) /\ \A j \in Of(o) : j <= Max(Of(o))
  <2> DEFINE o == lossRow[k].opportunity
  <2>1. Of(o) \in SUBSET DOMAIN lossRow /\ Of(o) # {} /\ Of(o) \in SUBSET Nat
    BY <1>1
  <2> HIDE DEF Of, o
  <2>2. IsFiniteSet(Of(o))
    BY <1>2, <2>1, FS_Subset
  <2>3. \E x \in Of(o) : \A y \in Of(o) : y <= x
    BY <2>1, <2>2, GreatestExists
  <2>4. \E x \in Of(o) : \A y \in Of(o) : x >= y
    BY <2>1, <2>3
  <2>5. Max(Of(o)) \in Of(o) /\ \A y \in Of(o) : Max(Of(o)) >= y
    BY <2>4 DEF Max
  <2>6. \A y \in Of(o) : y <= Max(Of(o))
    BY <2>1, <2>5
  <2> QED BY <2>5, <2>6 DEF o
<1>4. LatestLosses = {Max(Of(o)) : o \in {lossRow[k].opportunity : k \in DOMAIN lossRow}}
  BY DEF LatestLosses
<1>5. ASSUME i \in LatestLosses
      PROVE  /\ i \in DOMAIN lossRow
             /\ \A j \in DOMAIN lossRow : lossRow[j].opportunity = lossRow[i].opportunity => j <= i
  <2>1. PICK k \in DOMAIN lossRow : i = Max(Of(lossRow[k].opportunity))
    <3> HIDE DEF Of
    <3> QED BY <1>4, <1>5
  <2>2. i \in Of(lossRow[k].opportunity) /\ \A j \in Of(lossRow[k].opportunity) : j <= i
    <3> HIDE DEF Of
    <3> QED BY <1>3, <2>1
  <2> QED BY <2>2
<1>6. ASSUME i \in DOMAIN lossRow,
             \A j \in DOMAIN lossRow : lossRow[j].opportunity = lossRow[i].opportunity => j <= i
      PROVE  i \in LatestLosses
  <2> DEFINE m == Max(Of(lossRow[i].opportunity))
  <2>1. m \in Of(lossRow[i].opportunity) /\ i <= m
    <3>1. i \in Of(lossRow[i].opportunity)
      BY <1>6
    <3> HIDE DEF Of
    <3> QED BY <1>3, <1>6, <3>1
  <2> HIDE DEF m
  <2>2. m <= i /\ m \in Nat /\ i \in Nat
    BY <1>1, <1>6, <2>1
  <2>3. m = i
    BY <2>1, <2>2
  <2> HIDE DEF Of
  <2> QED BY <1>4, <1>6, <2>3 DEF m
<1> QED BY <1>5, <1>6

\* A loss has been reopened unless it is its opportunity's last change of status.
LEMMA ReopenedIs ==
  ASSUME AgreeInv, NEW i \in DOMAIN lossRow
  PROVE  LET o == lossRow[i].opportunity IN
         (\E k \in DOMAIN reopens[o] : lossRow[i].entry = losses[o][reopens[o][k].loss].entry)
         <=> ~(i \in LatestLosses /\ status[o] = "PERDIDA")
<1> DEFINE o == lossRow[i].opportunity
           e == lossRow[i].entry
           h == history[o]
           n == Len(history[o])
<1>1. TypeOK /\ TimesOK /\ LinkOK /\ EpisodesInv /\ RowsInv
  BY DEF AgreeInv, EpisodesInv, TypeInv
<1>2. \A j \in DOMAIN lossRow : j \in Nat /\ lossRow[j].opportunity \in Opportunities
  <2>1. \A j \in DOMAIN lossRow : j \in Nat /\ lossRow[j] \in LossRows
    BY <1>1 DEF TimesOK
  <2> QED BY <2>1 DEF LossRows
<1>3. \A j \in DOMAIN lossRow : lossRow[j].opportunity = o => lossRow[j].entry \in Entries(losses[o])
  BY <1>1 DEF LinkOK
<1>4. o \in Opportunities /\ e \in Entries(losses[o])
  BY <1>2, <1>3
<1>5. losses[o] # <<>>
  BY <1>4 DEF Entries
<1>6. status[o] # "none" /\ Episode(o) /\ PipelineHistory(o)
  BY <1>1, <1>4, <1>5 DEF EpisodesInv, EpisodeOK, RowsInv, Created
<1> HIDE DEF e, o
<1>7. /\ Entries(losses[o]) = Places(h, "LOST") /\ Entries(reopens[o]) = Places(h, "REOPENED")
      /\ n \in Nat /\ n > 0 /\ h[n].to = status[o]
      /\ \A j \in 1..n : PipelineEntry(h[j])
      /\ \A j \in 2..n : h[j].from = h[j - 1].to
  BY <1>1, <1>4, <1>6 DEF Episode, PipelineHistory, TypeOK
<1>8. e \in 1..n /\ h[e].kind = "LOST" /\ h[e].to = "PERDIDA"
  <2>1. e \in 1..n /\ h[e].kind = "LOST"
    BY <1>4, <1>7 DEF Places
  <2> QED BY <1>7, <2>1 DEF PipelineEntry
<1>9. (\E k \in DOMAIN reopens[o] : e = losses[o][reopens[o][k].loss].entry) <=> e < n
  <2>1. DOMAIN reopens[o] = 1..Len(reopens[o])
    BY <1>1, <1>4 DEF TypeOK
  <2>2. ASSUME NEW k \in DOMAIN reopens[o], e = losses[o][reopens[o][k].loss].entry
        PROVE  e < n
    <3>1. e = reopens[o][k].entry - 1
      BY <1>6, <2>1, <2>2 DEF Episode
    <3>2. reopens[o][k].entry \in Entries(reopens[o])
      BY <2>1 DEF Entries
    <3>3. reopens[o][k].entry \in 1..n
      BY <1>7, <3>2 DEF Places
    <3> QED BY <1>7, <3>1, <3>3
  <2>3. ASSUME e < n
        PROVE  \E k \in DOMAIN reopens[o] : e = losses[o][reopens[o][k].loss].entry
    <3>1. e + 1 \in 2..n /\ e + 1 \in 1..n /\ (e + 1) - 1 = e
      BY <1>7, <1>8, <2>3
    <3>2. h[e + 1].from = "PERDIDA" /\ PipelineEntry(h[e + 1])
      BY <1>7, <1>8, <3>1
    <3>3. h[e + 1].kind = "REOPENED"
      BY <3>2 DEF PipelineEntry
    <3>4. e + 1 \in Entries(reopens[o])
      BY <1>7, <3>1, <3>3 DEF Places
    <3>5. PICK k \in 1..Len(reopens[o]) : reopens[o][k].entry = e + 1
      BY <3>4 DEF Entries
    <3>6. losses[o][reopens[o][k].loss].entry = e
      BY <1>6, <3>1, <3>5 DEF Episode
    <3> QED BY <2>1, <3>6
  <2> QED BY <2>2, <2>3
<1>10. \A j \in DOMAIN lossRow : lossRow[j].opportunity = o => lossRow[j].entry \in 1..n
  BY <1>3, <1>7 DEF Places
<1>11. i \in DOMAIN lossRow /\ lossRow[i].opportunity = o /\ lossRow[i].entry = e
  BY DEF o, e
<1>12. i \in LatestLosses <=> \A j \in DOMAIN lossRow : lossRow[j].opportunity = o => j <= i
  BY <1>1, <1>11, LatestIs
<1>13. \A j, k \in DOMAIN lossRow :
         j < k /\ lossRow[j].opportunity = o /\ lossRow[k].opportunity = o
           => lossRow[j].entry < lossRow[k].entry
  BY <1>1 DEF LinkOK
<1>14. ASSUME e = n
       PROVE  i \in LatestLosses /\ status[o] = "PERDIDA"
  <2>1. status[o] = "PERDIDA"
    BY <1>7, <1>8, <1>14
  <2>2. ASSUME NEW j \in DOMAIN lossRow, lossRow[j].opportunity = o, i < j
        PROVE  FALSE
    <3>1. lossRow[j].entry \in 1..n /\ e < lossRow[j].entry
      BY <1>10, <1>11, <1>13, <2>2
    <3> QED BY <1>7, <1>14, <3>1
  <2> QED BY <1>2, <1>11, <1>12, <2>1, <2>2
<1>15. ASSUME i \in LatestLosses, status[o] = "PERDIDA"
       PROVE  e = n
  <2>1. n \in 1..n /\ PipelineEntry(h[n]) /\ h[n].to = "PERDIDA"
    BY <1>7, <1>15
  <2>2. h[n].kind = "LOST"
    BY <2>1 DEF PipelineEntry
  <2>3. n \in Entries(losses[o])
    BY <1>7, <2>1, <2>2 DEF Places
  <2>4. PICK j \in DOMAIN lossRow : lossRow[j].opportunity = o /\ lossRow[j].entry = n
    BY <1>1, <1>4, <2>3 DEF LinkOK
  <2>5. j <= i
    BY <1>12, <1>15, <2>4
  <2>6. CASE j < i
    <3>1. n < e
      BY <1>11, <1>13, <2>4, <2>6
    <3> QED BY <1>7, <1>8, <3>1
  <2>7. CASE j = i
    BY <1>11, <2>4, <2>7
  <2> QED BY <1>2, <1>11, <2>5, <2>6, <2>7
<1>16. e < n <=> e # n
  BY <1>7, <1>8
<1> QED BY <1>9, <1>14, <1>15, <1>16 DEF o, e

-----------------------------------------------------------------------------
(* What a report of a filter and a period counts: opportunities that were   *)
(* created or won, losses, and the lines of either.                        *)

CreatedOf(d, period) == CreatedIn(Matches(d), period)
WonOf(d, period) == WonIn(Matches(d), period)
LostOf(d, period) == LostIn(LossMatches(d), period)
LinesOf(S, d) == {l \in S \X Products : l[2] \in Lines(products[l[1]], d)}
LossLinesOf(S, d) == {l \in S \X Products : l[2] \in Lines(lossRow[l[1]].products, d)}

LEMMA CountedAre ==
  ASSUME TypeInv, TimesOK, NEW d, NEW period \in Periods
  PROVE  /\ \A S \in {CreatedOf(d, period), WonOf(d, period), Matches(d)} :
              /\ S \subseteq Opportunities /\ IsFiniteSet(S)
              /\ \A o \in S : source[o] \in Sources /\ province[customer[o]] \in Provinces
         /\ \A o \in CreatedOf(d, period) : createdAt[o] \in period[1]..(period[2] - 1)
         /\ \A o \in WonOf(d, period) : enteredAt[o] \in period[1]..(period[2] - 1)
         /\ LostOf(d, period) \subseteq DOMAIN lossRow /\ IsFiniteSet(LostOf(d, period))
         /\ \A i \in LostOf(d, period) :
              /\ lossRow[i].source \in Sources /\ lossRow[i].province \in Provinces
              /\ lossRow[i].products \subseteq Products
              /\ lossRow[i].at \in period[1]..(period[2] - 1)
<1>1. \A o \in Matches(d) : /\ o \in Opportunities /\ source[o] \in Sources
                            /\ province[customer[o]] \in Provinces
  BY DEF Matches, Created, TypeInv, RowsOK, TimesOK
<1>2. Matches(d) \in SUBSET Opportunities
  BY <1>1
<1>3. CreatedOf(d, period) \subseteq Matches(d) /\ WonOf(d, period) \subseteq Matches(d)
  BY DEF CreatedOf, CreatedIn, WonOf, WonIn
<1>4. IsFiniteSet(Opportunities)
  BY OpportunityAssumption
<1>5. \A S \in SUBSET Opportunities : IsFiniteSet(S)
  BY <1>4, FS_Subset
<1>6. period[1] \in Nat /\ period[2] \in Nat
  BY ReportsAssumption
<1>7. \A o \in Opportunities : createdAt[o] \in Nat /\ enteredAt[o] \in Nat
  BY DEF TimesOK, Days
<1>8. \A t \in Nat : Within(t, period) => t \in period[1]..(period[2] - 1)
  BY <1>6 DEF Within
<1>9. \A o \in CreatedOf(d, period) : createdAt[o] \in period[1]..(period[2] - 1)
  BY <1>2, <1>3, <1>7, <1>8 DEF CreatedOf, CreatedIn
<1>10. \A o \in WonOf(d, period) : enteredAt[o] \in period[1]..(period[2] - 1)
  BY <1>2, <1>3, <1>7, <1>8 DEF WonOf, WonIn
<1>11. LostOf(d, period) \in SUBSET DOMAIN lossRow
  BY DEF LostOf, LostIn, LossMatches
<1>12. IsFiniteSet(DOMAIN lossRow)
  <2>1. DOMAIN lossRow = 1..Len(lossRow) /\ Len(lossRow) \in Nat
    BY DEF TimesOK
  <2> QED BY <2>1, FS_Interval
<1>13. IsFiniteSet(LostOf(d, period))
  BY <1>11, <1>12, FS_Subset
<1>14. ASSUME NEW i \in LostOf(d, period)
       PROVE  /\ lossRow[i].source \in Sources /\ lossRow[i].province \in Provinces
              /\ lossRow[i].products \subseteq Products
              /\ lossRow[i].at \in period[1]..(period[2] - 1)
  <2>1. lossRow[i] \in LossRows
    BY <1>11, <1>14 DEF TimesOK
  <2>2. Within(lossRow[i].at, period)
    BY <1>14 DEF LostOf, LostIn
  <2>3. lossRow[i].at \in Nat
    BY <2>1 DEF LossRows, Days
  <2> QED BY <1>8, <2>1, <2>2, <2>3 DEF LossRows
<1> QED BY <1>1, <1>2, <1>3, <1>5, <1>9, <1>10, <1>11, <1>13, <1>14

LEMMA LinesFinite ==
  ASSUME NEW S, IsFiniteSet(S), NEW d
  PROVE  IsFiniteSet(LinesOf(S, d)) /\ IsFiniteSet(LossLinesOf(S, d))
<1>1. IsFiniteSet(Products)
  BY ReportsAssumption
<1>2. IsFiniteSet(S \X Products)
  BY <1>1, FS_Product
<1>3. LinesOf(S, d) \in SUBSET (S \X Products) /\ LossLinesOf(S, d) \in SUBSET (S \X Products)
  BY DEF LinesOf, LossLinesOf
<1> QED BY <1>2, <1>3, FS_Subset

\* A card is the sum of its rows, by source.
LEMMA SourcesAdd ==
  ASSUME TypeInv, TimesOK, NEW d, NEW period \in Periods
  PROVE  LET f == BySource(d, period) IN
         /\ Total(f, "created") = Cardinality(CreatedOf(d, period))
         /\ Total(f, "won") = Cardinality(WonOf(d, period))
         /\ Total(f, "lost") = Cardinality(LostOf(d, period))
<1> DEFINE f == BySource(d, period)
           C == CreatedOf(d, period)
           W == WonOf(d, period)
           L == LostOf(d, period)
           part == [i \in L |-> lossRow[i].source]
<1>1. /\ DOMAIN f = Sources
      /\ \A x \in Sources : /\ f[x]["created"] = Cardinality({o \in C : source[o] = x})
                            /\ f[x]["won"] = Cardinality({o \in W : source[o] = x})
                            /\ f[x]["lost"] = Cardinality({i \in L : lossRow[i].source = x})
  BY DEF BySource, CreatedOf, WonOf, LostOf
<1>2. \A x : {i \in L : lossRow[i].source = x} = {i \in L : part[i] = x}
  OBVIOUS
<1>3. /\ IsFiniteSet(C) /\ IsFiniteSet(W) /\ IsFiniteSet(L) /\ IsFiniteSet(Sources)
      /\ \A o \in C : source[o] \in Sources
      /\ \A o \in W : source[o] \in Sources
      /\ \A i \in L : lossRow[i].source \in Sources
  BY CountedAre, ReportsAssumption
<1>4. \A i \in L : part[i] \in Sources
  BY <1>3
<1> HIDE DEF f, C, W, L, part
<1>5. Divides(f, "created", Sources, C, source)
  BY <1>1, <1>3 DEF Divides
<1>6. Divides(f, "won", Sources, W, source)
  BY <1>1, <1>3 DEF Divides
<1>7. Divides(f, "lost", Sources, L, part)
  BY <1>1, <1>2, <1>3, <1>4 DEF Divides
<1> QED BY <1>5, <1>6, <1>7, SumOfParts DEF f, C, W, L

\* By province, with the weight of what was won and lost.
LEMMA ProvincesAdd ==
  ASSUME TypeInv, TimesOK, NEW d, NEW period \in Periods
  PROVE  LET f == ByProvince(d, period) IN
         /\ Total(f, "created") = Cardinality(CreatedOf(d, period))
         /\ Total(f, "won") = Cardinality(WonOf(d, period))
         /\ Total(f, "lost") = Cardinality(LostOf(d, period))
         /\ Total(f, "kgQuoted") = Cardinality(LinesOf(CreatedOf(d, period), d))
         /\ Total(f, "kgWon") = Cardinality(LinesOf(WonOf(d, period), d))
         /\ Total(f, "kgLost") = Cardinality(LossLinesOf(LostOf(d, period), d))
<1> DEFINE f == ByProvince(d, period)
           C == CreatedOf(d, period)
           W == WonOf(d, period)
           L == LostOf(d, period)
           KC == LinesOf(C, d)
           KW == LinesOf(W, d)
           KL == LossLinesOf(L, d)
           of(o) == province[customer[o]]
           partO == [o \in Opportunities |-> of(o)]
           partL == [i \in L |-> lossRow[i].province]
           partKO == [l \in Opportunities \X Products |-> of(l[1])]
           partKL == [l \in L \X Products |-> lossRow[l[1]].province]
<1>1. /\ DOMAIN f = Provinces
      /\ \A x \in Provinces :
           /\ f[x]["created"] = Cardinality({o \in C : of(o) = x})
           /\ f[x]["won"] = Cardinality({o \in W : of(o) = x})
           /\ f[x]["lost"] = Cardinality({i \in L : lossRow[i].province = x})
           /\ f[x]["kgQuoted"] = Cardinality(LinesOf({o \in C : of(o) = x}, d))
           /\ f[x]["kgWon"] = Cardinality(LinesOf({o \in W : of(o) = x}, d))
           /\ f[x]["kgLost"] = Cardinality(LossLinesOf({i \in L : lossRow[i].province = x}, d))
  BY DEF ByProvince, LineKg, LossKg, CreatedOf, WonOf, LostOf, LinesOf, LossLinesOf
<1>2. /\ C \subseteq Opportunities /\ W \subseteq Opportunities
      /\ IsFiniteSet(C) /\ IsFiniteSet(W) /\ IsFiniteSet(L) /\ IsFiniteSet(Provinces)
      /\ \A o \in C : of(o) \in Provinces
      /\ \A o \in W : of(o) \in Provinces
      /\ \A i \in L : lossRow[i].province \in Provinces
  BY CountedAre, ReportsAssumption
<1>3. IsFiniteSet(KC) /\ IsFiniteSet(KW) /\ IsFiniteSet(KL)
  BY <1>2, LinesFinite
<1> HIDE DEF f, C, W, L
<1>4. ASSUME NEW x
      PROVE  /\ {o \in C : of(o) = x} = {o \in C : partO[o] = x}
             /\ {o \in W : of(o) = x} = {o \in W : partO[o] = x}
             /\ {i \in L : lossRow[i].province = x} = {i \in L : partL[i] = x}
             /\ LinesOf({o \in C : of(o) = x}, d) = {l \in KC : partKO[l] = x}
             /\ LinesOf({o \in W : of(o) = x}, d) = {l \in KW : partKO[l] = x}
             /\ LossLinesOf({i \in L : lossRow[i].province = x}, d) = {l \in KL : partKL[l] = x}
  <2>1. {o \in C : of(o) = x} = {o \in C : partO[o] = x}
    BY <1>2
  <2>2. {o \in W : of(o) = x} = {o \in W : partO[o] = x}
    BY <1>2
  <2>3. {i \in L : lossRow[i].province = x} = {i \in L : partL[i] = x}
    OBVIOUS
  <2>4. LinesOf({o \in C : of(o) = x}, d) = {l \in KC : partKO[l] = x}
    BY <1>2 DEF LinesOf
  <2>5. LinesOf({o \in W : of(o) = x}, d) = {l \in KW : partKO[l] = x}
    BY <1>2 DEF LinesOf
  <2>6. LossLinesOf({i \in L : lossRow[i].province = x}, d) = {l \in KL : partKL[l] = x}
    BY DEF LossLinesOf
  <2> QED BY <2>1, <2>2, <2>3, <2>4, <2>5, <2>6
<1>5. /\ \A o \in C : partO[o] \in Provinces
      /\ \A o \in W : partO[o] \in Provinces
      /\ \A i \in L : partL[i] \in Provinces
      /\ \A l \in KC : partKO[l] \in Provinces
      /\ \A l \in KW : partKO[l] \in Provinces
      /\ \A l \in KL : partKL[l] \in Provinces
  BY <1>2 DEF LinesOf, LossLinesOf
<1> HIDE DEF KC, KW, KL, partO, partL, partKO, partKL, of
<1>6. Divides(f, "created", Provinces, C, partO)
  BY <1>1, <1>2, <1>4, <1>5 DEF Divides
<1>7. Divides(f, "won", Provinces, W, partO)
  BY <1>1, <1>2, <1>4, <1>5 DEF Divides
<1>8. Divides(f, "lost", Provinces, L, partL)
  BY <1>1, <1>2, <1>4, <1>5 DEF Divides
<1>9. Divides(f, "kgQuoted", Provinces, KC, partKO)
  BY <1>1, <1>2, <1>3, <1>4, <1>5 DEF Divides
<1>10. Divides(f, "kgWon", Provinces, KW, partKO)
  BY <1>1, <1>2, <1>3, <1>4, <1>5 DEF Divides
<1>11. Divides(f, "kgLost", Provinces, KL, partKL)
  BY <1>1, <1>2, <1>3, <1>4, <1>5 DEF Divides
<1> QED BY <1>6, <1>7, <1>8, <1>9, <1>10, <1>11, SumOfParts DEF f, C, W, L, KC, KW, KL

\* By day.
LEMMA DaysAdd ==
  ASSUME TypeInv, TimesOK, NEW d, NEW period \in Periods
  PROVE  LET f == Timeline(d, period) IN
         /\ Total(f, "created") = Cardinality(CreatedOf(d, period))
         /\ Total(f, "won") = Cardinality(WonOf(d, period))
         /\ Total(f, "lost") = Cardinality(LostOf(d, period))
         /\ Total(f, "kgWon") = Cardinality(LinesOf(WonOf(d, period), d))
         /\ Total(f, "kgLost") = Cardinality(LossLinesOf(LostOf(d, period), d))
<1> DEFINE f == Timeline(d, period)
           I == period[1]..(period[2] - 1)
           C == CreatedOf(d, period)
           W == WonOf(d, period)
           L == LostOf(d, period)
           KW == LinesOf(W, d)
           KL == LossLinesOf(L, d)
           partL == [i \in L |-> lossRow[i].at]
           partKW == [l \in Opportunities \X Products |-> enteredAt[l[1]]]
           partKL == [l \in L \X Products |-> lossRow[l[1]].at]
<1>1. /\ DOMAIN f = I
      /\ \A t \in I :
           /\ f[t]["created"] = Cardinality({o \in C : createdAt[o] = t})
           /\ f[t]["won"] = Cardinality({o \in W : enteredAt[o] = t})
           /\ f[t]["lost"] = Cardinality({i \in L : lossRow[i].at = t})
           /\ f[t]["kgWon"] = Cardinality(LinesOf({o \in W : enteredAt[o] = t}, d))
           /\ f[t]["kgLost"] = Cardinality(LossLinesOf({i \in L : lossRow[i].at = t}, d))
  BY DEF Timeline, LineKg, LossKg, CreatedOf, WonOf, LostOf, LinesOf, LossLinesOf
<1>2. /\ C \subseteq Opportunities /\ W \subseteq Opportunities
      /\ IsFiniteSet(C) /\ IsFiniteSet(W) /\ IsFiniteSet(L)
      /\ \A o \in C : createdAt[o] \in I
      /\ \A o \in W : enteredAt[o] \in I
      /\ \A i \in L : lossRow[i].at \in I
  BY CountedAre
<1>3. IsFiniteSet(KW) /\ IsFiniteSet(KL)
  BY <1>2, LinesFinite
<1>4. IsFiniteSet(I)
  <2>1. period[1] \in Int /\ period[2] - 1 \in Int
    BY ReportsAssumption
  <2> QED BY <2>1, FS_Interval
<1> HIDE DEF f, C, W, L, I
<1>5. ASSUME NEW t
      PROVE  /\ {i \in L : lossRow[i].at = t} = {i \in L : partL[i] = t}
             /\ LinesOf({o \in W : enteredAt[o] = t}, d) = {l \in KW : partKW[l] = t}
             /\ LossLinesOf({i \in L : lossRow[i].at = t}, d) = {l \in KL : partKL[l] = t}
  <2>1. {i \in L : lossRow[i].at = t} = {i \in L : partL[i] = t}
    OBVIOUS
  <2>2. LinesOf({o \in W : enteredAt[o] = t}, d) = {l \in KW : partKW[l] = t}
    BY <1>2 DEF LinesOf
  <2>3. LossLinesOf({i \in L : lossRow[i].at = t}, d) = {l \in KL : partKL[l] = t}
    BY DEF LossLinesOf
  <2> QED BY <2>1, <2>2, <2>3
<1>6. /\ \A i \in L : partL[i] \in I
      /\ \A l \in KW : partKW[l] \in I
      /\ \A l \in KL : partKL[l] \in I
  BY <1>2 DEF LinesOf, LossLinesOf
<1> HIDE DEF KW, KL, partL, partKW, partKL
<1>7. Divides(f, "created", I, C, createdAt)
  BY <1>1, <1>2, <1>4 DEF Divides
<1>8. Divides(f, "won", I, W, enteredAt)
  BY <1>1, <1>2, <1>4 DEF Divides
<1>9. Divides(f, "lost", I, L, partL)
  BY <1>1, <1>2, <1>4, <1>5, <1>6 DEF Divides
<1>10. Divides(f, "kgWon", I, KW, partKW)
  BY <1>1, <1>3, <1>4, <1>5, <1>6 DEF Divides
<1>11. Divides(f, "kgLost", I, KL, partKL)
  BY <1>1, <1>3, <1>4, <1>5, <1>6 DEF Divides
<1> QED BY <1>7, <1>8, <1>9, <1>10, <1>11, SumOfParts DEF f, C, W, L, KW, KL

\* A row of products counts its opportunities or losses, once each: as many as
\* there are lines of it.
LEMMA LinesOfProduct ==
  ASSUME NEW S, IsFiniteSet(S), NEW T \in SUBSET S, NEW p
  PROVE  Cardinality(T) = Cardinality(T \X {p})
<1>1. IsFiniteSet(T) /\ IsFiniteSet({p}) /\ Cardinality({p}) = 1
  BY FS_Subset, FS_Singleton
<1>2. Cardinality(T \X {p}) = Cardinality(T) * 1 /\ Cardinality(T) \in Nat
  BY <1>1, FS_Product, FS_CardinalityType
<1> QED BY <1>2

\* The lines of the losses in the groups that are kept.
KeptLinesOf(S, d, kept) == {l \in LossLinesOf(S, d) : lossRow[l[1]].names[l[2]] = kept[l[2]]}

\* They are all there are when every product was lost under one name.
LEMMA KeptLines ==
  ASSUME TypeInv, TimesOK, NEW d, NEW period \in Periods, NEW kept \in KeptNames(d, period)
  PROVE  LET L == LostOf(AnyProduct(d), period) IN
         /\ Cardinality(KeptLinesOf(L, d, kept)) <= Cardinality(LossLinesOf(L, d))
         /\ OneNameEach(d, period) => KeptLinesOf(L, d, kept) = LossLinesOf(L, d)
<1> DEFINE L == LostOf(AnyProduct(d), period)
<1>1. IsFiniteSet(LossLinesOf(L, d))
  <2>1. IsFiniteSet(L)
    BY CountedAre
  <2> HIDE DEF L
  <2> QED BY <2>1, LinesFinite
<1>2. KeptLinesOf(L, d, kept) \in SUBSET LossLinesOf(L, d)
  BY DEF KeptLinesOf
<1>3. Cardinality(KeptLinesOf(L, d, kept)) <= Cardinality(LossLinesOf(L, d))
  BY <1>1, <1>2, FS_Subset
<1>4. ASSUME OneNameEach(d, period), NEW l \in LossLinesOf(L, d)
      PROVE  lossRow[l[1]].names[l[2]] = kept[l[2]]
  <2>1. l[1] \in L /\ l[2] \in Products /\ l[2] \in lossRow[l[1]].products
    BY <1>4 DEF LossLinesOf, Lines
  <2> HIDE DEF L
  <2>2. lossRow[l[1]].names[l[2]] \in LossNames(L, l[2])
    BY <2>1 DEF LossNames
  <2>3. kept[l[2]] \in LossNames(L, l[2])
    BY <2>1, <2>2 DEF KeptNames, L, LostOf
  <2> QED BY <1>4, <2>1, <2>2, <2>3 DEF OneNameEach, L, LostOf
<1>5. OneNameEach(d, period) => KeptLinesOf(L, d, kept) = LossLinesOf(L, d)
  BY <1>4 DEF KeptLinesOf
<1> QED BY <1>3, <1>5

\* By product.
LEMMA GoodsAdd ==
  ASSUME TypeInv, TimesOK, NEW d, NEW period \in Periods, NEW kept
  PROVE  LET f == ByProduct(d, period, kept)
             e == AnyProduct(d)
         IN
         /\ Total(f, "quoted") = Cardinality(LinesOf(CreatedOf(e, period), d))
         /\ Total(f, "won") = Cardinality(LinesOf(WonOf(e, period), d))
         /\ Total(f, "lost") = Cardinality(KeptLinesOf(LostOf(e, period), d, kept))
<1> DEFINE f == ByProduct(d, period, kept)
           e == AnyProduct(d)
           I == Lines(Products, d)
           C == CreatedOf(e, period)
           W == WonOf(e, period)
           L == LostOf(e, period)
           KC == LinesOf(C, d)
           KW == LinesOf(W, d)
           KL == KeptLinesOf(L, d, kept)
           part == [l \in (C \cup W \cup L) \X Products |-> l[2]]
<1>1. /\ DOMAIN f = I
      /\ \A p \in I :
           /\ f[p]["quoted"] = Cardinality({o \in C : p \in products[o]})
           /\ f[p]["won"] = Cardinality({o \in W : p \in products[o]})
           /\ f[p]["lost"] = Cardinality({i \in L : p \in lossRow[i].products /\
                                                    lossRow[i].names[p] = kept[p]})
  BY DEF ByProduct, CreatedOf, WonOf, LostOf
<1>2. IsFiniteSet(C) /\ IsFiniteSet(W) /\ IsFiniteSet(L)
  BY CountedAre
<1>3. IsFiniteSet(KC) /\ IsFiniteSet(KW) /\ IsFiniteSet(KL)
  <2>1. KL \in SUBSET LossLinesOf(L, d)
    BY DEF KeptLinesOf
  <2> HIDE DEF KC, KW, KL, C, W, L
  <2> QED BY <1>2, <2>1, LinesFinite, FS_Subset DEF KC, KW
<1>4. IsFiniteSet(I) /\ I \subseteq Products
  <2>1. I \in SUBSET Products /\ IsFiniteSet(Products)
    BY ReportsAssumption DEF Lines
  <2> QED BY <2>1, FS_Subset
<1>5. \A p \in I : \A P : p \in P <=> p \in Lines(P, d)
  BY DEF Lines
<1>6. \A p, P : p \in Lines(P, d) /\ p \in Products => p \in I
  BY DEF Lines
<1> HIDE DEF f, C, W, L, I
<1>7. ASSUME NEW p \in I
      PROVE  /\ Cardinality({o \in C : p \in products[o]}) = Cardinality({l \in KC : part[l] = p})
             /\ Cardinality({o \in W : p \in products[o]}) = Cardinality({l \in KW : part[l] = p})
             /\ Cardinality({i \in L : p \in lossRow[i].products /\ lossRow[i].names[p] = kept[p]})
                  = Cardinality({l \in KL : part[l] = p})
  <2>0. p \in Products
    BY <1>4
  <2> DEFINE HC == {o \in C : p \in products[o]}
             HW == {o \in W : p \in products[o]}
             HL == {i \in L : p \in lossRow[i].products /\ lossRow[i].names[p] = kept[p]}
  <2>1. HC \X {p} = {l \in KC : part[l] = p}
    BY <1>5, <2>0 DEF LinesOf
  <2>2. HW \X {p} = {l \in KW : part[l] = p}
    BY <1>5, <2>0 DEF LinesOf
  <2>3. HL \X {p} = {l \in KL : part[l] = p}
    BY <1>5, <2>0 DEF KeptLinesOf, LossLinesOf
  <2>4. HC \in SUBSET C /\ HW \in SUBSET W /\ HL \in SUBSET L
    OBVIOUS
  <2> HIDE DEF KC, KW, KL, part, HC, HW, HL
  <2>5. /\ Cardinality(HC) = Cardinality(HC \X {p}) /\ Cardinality(HW) = Cardinality(HW \X {p})
        /\ Cardinality(HL) = Cardinality(HL \X {p})
    BY <1>2, <2>4, LinesOfProduct
  <2> QED BY <2>1, <2>2, <2>3, <2>5 DEF HC, HW, HL
<1>8. /\ \A l \in KC : part[l] \in I
      /\ \A l \in KW : part[l] \in I
      /\ \A l \in KL : part[l] \in I
  BY <1>6 DEF LinesOf, KeptLinesOf, LossLinesOf
<1> HIDE DEF KC, KW, KL, part
<1>9. Divides(f, "quoted", I, KC, part)
  BY <1>1, <1>3, <1>4, <1>7, <1>8 DEF Divides
<1>10. Divides(f, "won", I, KW, part)
  BY <1>1, <1>3, <1>4, <1>7, <1>8 DEF Divides
<1>11. Divides(f, "lost", I, KL, part)
  BY <1>1, <1>3, <1>4, <1>7, <1>8 DEF Divides
<1> QED BY <1>9, <1>10, <1>11, SumOfParts DEF f, C, W, L, KC, KW, KL

\* A filter of a product leaves out only what has no line of it.
LEMMA SameLines ==
  ASSUME TypeInv, TimesOK, NEW d \in Dimensions, NEW period \in Periods
  PROVE  LET e == AnyProduct(d) IN
         /\ LinesOf(CreatedOf(e, period), d) = LinesOf(CreatedOf(d, period), d)
         /\ LinesOf(WonOf(e, period), d) = LinesOf(WonOf(d, period), d)
         /\ LossLinesOf(LostOf(e, period), d) = LossLinesOf(LostOf(d, period), d)
<1> DEFINE e == AnyProduct(d)
<1>1. e.source = d.source /\ e.province = d.province /\ e.product = Nobody
  BY ReportsAssumption DEF AnyProduct
<1> HIDE DEF e
<1>2. \A o : o \in Matches(d) <=> o \in Matches(e) /\ (d.product = Nobody \/ d.product \in products[o])
  BY <1>1 DEF Matches
<1>3. \A i : i \in LossMatches(d) <=>
               i \in LossMatches(e) /\ (d.product = Nobody \/ d.product \in lossRow[i].products)
  BY <1>1 DEF LossMatches
<1>4. \A p, P : p \in Lines(P, d) => d.product = Nobody \/ d.product \in P
  BY DEF Lines, Accepts
<1>5. LinesOf(CreatedOf(e, period), d) = LinesOf(CreatedOf(d, period), d)
  BY <1>2, <1>4 DEF LinesOf, CreatedOf, CreatedIn
<1>6. LinesOf(WonOf(e, period), d) = LinesOf(WonOf(d, period), d)
  BY <1>2, <1>4 DEF LinesOf, WonOf, WonIn
<1>7. LossLinesOf(LostOf(e, period), d) = LossLinesOf(LostOf(d, period), d)
  BY <1>3, <1>4 DEF LossLinesOf, LostOf, LostIn
<1> QED BY <1>5, <1>6, <1>7 DEF e

\* A loss is a current one, or one that has been reopened, or its opportunity
\* has been deleted since.
LEMMA LossesCounted ==
  ASSUME AgreeInv, NEW d
  PROVE  LET t == LostStatistics(d) IN
         t.historical = t.current + t.reopened + Cardinality(
           {i \in LostConditions(d) \cap LatestLosses :
              LET o == lossRow[i].opportunity IN o \in deleted /\ status[o] = "PERDIDA"})
<1> DEFINE E == LostConditions(d)
           Z == {i \in E \cap LatestLosses : status[lossRow[i].opportunity] = "PERDIDA"}
           R == {i \in E : LET o == lossRow[i].opportunity IN
                   \E k \in DOMAIN reopens[o] : lossRow[i].entry = losses[o][reopens[o][k].loss].entry}
           N == E \cap CurrentLosses
           D == {i \in E \cap LatestLosses :
                   LET o == lossRow[i].opportunity IN o \in deleted /\ status[o] = "PERDIDA"}
<1>1. E \subseteq DOMAIN lossRow /\ IsFiniteSet(E)
  <2>1. DOMAIN lossRow = 1..Len(lossRow) /\ Len(lossRow) \in Nat
    BY DEF AgreeInv, TimesOK
  <2>2. IsFiniteSet(DOMAIN lossRow)
    BY <2>1, FS_Interval
  <2>3. E \in SUBSET DOMAIN lossRow
    BY DEF LostConditions
  <2> HIDE DEF E
  <2> QED BY <2>2, <2>3, FS_Subset
<1>2. R = E \ Z /\ E \cap Z = Z
  BY <1>1, ReopenedIs
<1>3. Z \ D = N /\ Z \cap D = D /\ Z \in SUBSET E
  BY DEF CurrentLosses
<1>4. /\ LostStatistics(d).reopened = Cardinality(R)
      /\ LostStatistics(d).historical = Cardinality(E)
      /\ LostStatistics(d).current = Cardinality(N)
  BY DEF LostStatistics
<1> HIDE DEF E, Z, R, N, D
<1>5. IsFiniteSet(Z)
  BY <1>1, <1>3, FS_Subset
<1>6. /\ Cardinality(E \ Z) = Cardinality(E) - Cardinality(E \cap Z)
      /\ Cardinality(Z \ D) = Cardinality(Z) - Cardinality(Z \cap D)
  BY <1>1, <1>5, FS_Difference
<1>7. IsFiniteSet(D)
  <2>1. D \in SUBSET Z
    BY <1>3
  <2> QED BY <1>5, <2>1, FS_Subset
<1>8. Cardinality(E) \in Nat /\ Cardinality(Z) \in Nat /\ Cardinality(D) \in Nat
  BY <1>1, <1>5, <1>7, FS_CardinalityType
<1>9. Cardinality(E) = Cardinality(N) + Cardinality(R) + Cardinality(D)
  <2>1. Cardinality(R) = Cardinality(E) - Cardinality(Z)
    BY <1>2, <1>6, Zenon
  <2>2. Cardinality(N) = Cardinality(Z) - Cardinality(D)
    BY <1>3, <1>6, Zenon
  <2> QED BY <1>8, <2>1, <2>2
<1> QED BY <1>4, <1>9 DEF D, E

LEMMA DayCounted ==
  ASSUME TypeInv, TimesOK, NEW d, NEW period \in Periods, NEW t \in period[1]..(period[2] - 1)
  PROVE  LET f == Timeline(d, period) IN
         /\ f[t].created = Cardinality(CreatedOf(d, <<t, t + 1>>))
         /\ f[t].won = Cardinality(WonOf(d, <<t, t + 1>>))
         /\ f[t].lost = Cardinality(LostOf(d, <<t, t + 1>>))
<1>1. t \in Nat /\ period[1] \in Nat /\ period[2] \in Nat /\ period[1] <= t /\ t < period[2]
  BY ReportsAssumption
<1>2. \A x \in Nat : Within(x, <<t, t + 1>>) <=> x = t
  BY <1>1 DEF Within
<1>3. Within(t, period)
  BY <1>1 DEF Within
<1>4. \A o \in Matches(d) : createdAt[o] \in Nat /\ enteredAt[o] \in Nat
  <2>1. \A o \in Matches(d) : o \in Opportunities
    BY DEF Matches, Created
  <2> QED BY <2>1 DEF TimesOK, Days
<1>5. \A i \in LossMatches(d) : lossRow[i].at \in Nat
  <2>1. \A i \in LossMatches(d) : lossRow[i] \in LossRows
    BY DEF TimesOK, LossMatches
  <2> QED BY <2>1 DEF LossRows, Days
<1>6. {o \in CreatedOf(d, period) : createdAt[o] = t} = CreatedOf(d, <<t, t + 1>>)
  BY <1>2, <1>3, <1>4 DEF CreatedOf, CreatedIn
<1>7. {o \in WonOf(d, period) : enteredAt[o] = t} = WonOf(d, <<t, t + 1>>)
  BY <1>2, <1>3, <1>4 DEF WonOf, WonIn
<1>8. {i \in LostOf(d, period) : lossRow[i].at = t} = LostOf(d, <<t, t + 1>>)
  BY <1>2, <1>3, <1>5 DEF LostOf, LostIn
<1>9. LET f == Timeline(d, period) IN
      /\ f[t].created = Cardinality({o \in CreatedOf(d, period) : createdAt[o] = t})
      /\ f[t].won = Cardinality({o \in WonOf(d, period) : enteredAt[o] = t})
      /\ f[t].lost = Cardinality({i \in LostOf(d, period) : lossRow[i].at = t})
  BY DEF Timeline, CreatedOf, WonOf, LostOf
<1> QED BY <1>6, <1>7, <1>8, <1>9

\* What a period opens is what its days open.
LEMMA DaysOpen ==
  ASSUME TypeInv, TimesOK, NEW d, NEW period \in Periods
  PROVE  LET T == period[1]..(period[2] - 1) IN
         /\ CreatedOf(d, period) = UNION {CreatedOf(d, <<t, t + 1>>) : t \in T}
         /\ WonOf(d, period) = UNION {WonOf(d, <<t, t + 1>>) : t \in T}
         /\ LostOf(d, period) = UNION {LostOf(d, <<t, t + 1>>) : t \in T}
<1> DEFINE T == period[1]..(period[2] - 1)
<1>1. period[1] \in Nat /\ period[2] \in Nat
  BY ReportsAssumption
<1>2. \A x \in Nat : Within(x, period) <=> \E t \in T : Within(x, <<t, t + 1>>)
  <2> SUFFICES ASSUME NEW x \in Nat
               PROVE  Within(x, period) <=> \E t \in T : Within(x, <<t, t + 1>>)
    OBVIOUS
  <2>1. \A t \in T : Within(x, <<t, t + 1>>) <=> x = t
    BY <1>1 DEF Within
  <2>2. Within(x, period) <=> x \in T
    BY <1>1 DEF Within
  <2> QED BY <2>1, <2>2
<1> HIDE DEF T
<1>4. \A o \in Matches(d) : createdAt[o] \in Nat /\ enteredAt[o] \in Nat
  <2>1. \A o \in Matches(d) : o \in Opportunities
    BY DEF Matches, Created
  <2> QED BY <2>1 DEF TimesOK, Days
<1>5. \A i \in LossMatches(d) : lossRow[i].at \in Nat
  <2>1. \A i \in LossMatches(d) : lossRow[i] \in LossRows
    BY DEF TimesOK, LossMatches
  <2> QED BY <2>1 DEF LossRows, Days
<1>6. CreatedOf(d, period) = UNION {CreatedOf(d, <<t, t + 1>>) : t \in T}
  <2>1. \A o : o \in CreatedOf(d, period) <=> \E t \in T : o \in CreatedOf(d, <<t, t + 1>>)
    BY <1>2, <1>4 DEF CreatedOf, CreatedIn
  <2> QED BY <2>1, Zenon
<1>7. WonOf(d, period) = UNION {WonOf(d, <<t, t + 1>>) : t \in T}
  <2>1. \A o : o \in WonOf(d, period) <=> \E t \in T : o \in WonOf(d, <<t, t + 1>>)
    BY <1>2, <1>4 DEF WonOf, WonIn
  <2> QED BY <2>1, Zenon
<1>8. LostOf(d, period) = UNION {LostOf(d, <<t, t + 1>>) : t \in T}
  <2>1. \A i : i \in LostOf(d, period) <=> \E t \in T : i \in LostOf(d, <<t, t + 1>>)
    BY <1>2, <1>5 DEF LostOf, LostIn
  <2> QED BY <2>1, Zenon
<1> QED BY <1>6, <1>7, <1>8 DEF T

\* The cards of one filter and period.
LEMMA CardsAgree ==
  ASSUME TypeInv, TimesOK, NEW d \in Dimensions, NEW period \in Periods
  PROVE  LET v == Overview(d, period)
             sources == BySource(d, period)
             provinces == ByProvince(d, period)
             days == Timeline(d, period)
         IN
         /\ \A kind \in {"created", "won", "lost"} :
              /\ v[kind] = Total(sources, kind) /\ v[kind] = Total(provinces, kind)
              /\ v[kind] = Total(days, kind)
              /\ \A t \in DOMAIN days : days[t][kind] = Cardinality(DayOpportunities(t, kind, d))
              /\ MetricOpportunities(kind, d, period) =
                   UNION {DayOpportunities(t, kind, d) : t \in DOMAIN days}
         /\ \A kg \in {"kgWon", "kgLost"} :
              v[kg] = Total(provinces, kg) /\ v[kg] = Total(days, kg)
         /\ v.kgQuoted = Total(provinces, "kgQuoted")
         /\ \A kept \in KeptNames(d, period) :
              LET goods == ByProduct(d, period, kept) IN
              /\ v.kgQuoted = Total(goods, "quoted") /\ v.kgWon = Total(goods, "won")
              /\ Total(goods, "lost") <= v.kgLost
              /\ OneNameEach(d, period) => Total(goods, "lost") = v.kgLost
<1> DEFINE v == Overview(d, period)
           days == Timeline(d, period)
           e == AnyProduct(d)
<1>1. /\ v["created"] = Cardinality(CreatedOf(d, period))
      /\ v["won"] = Cardinality(WonOf(d, period))
      /\ v["lost"] = Cardinality(LostOf(d, period))
      /\ v["kgQuoted"] = Cardinality(LinesOf(CreatedOf(e, period), d))
      /\ v["kgWon"] = Cardinality(LinesOf(WonOf(e, period), d))
      /\ v["kgLost"] = Cardinality(LossLinesOf(LostOf(d, period), d))
  BY DEF Overview, LossKg, CreatedOf, WonOf, LostOf, LinesOf, LossLinesOf
<1>2. /\ MetricOpportunities("created", d, period) = CreatedOf(d, period)
      /\ MetricOpportunities("won", d, period) = WonOf(d, period)
      /\ MetricOpportunities("lost", d, period) = LostOf(d, period)
  BY DEF MetricOpportunities, CreatedOf, WonOf, LostOf
<1>3. \A t : /\ DayOpportunities(t, "created", d) = CreatedOf(d, <<t, t + 1>>)
             /\ DayOpportunities(t, "won", d) = WonOf(d, <<t, t + 1>>)
             /\ DayOpportunities(t, "lost", d) = LostOf(d, <<t, t + 1>>)
  BY DEF DayOpportunities, CreatedOf, WonOf, LostOf
<1>4. DOMAIN days = period[1]..(period[2] - 1)
  BY DEF Timeline
<1>5. \A t \in DOMAIN days :
        /\ days[t]["created"] = Cardinality(DayOpportunities(t, "created", d))
        /\ days[t]["won"] = Cardinality(DayOpportunities(t, "won", d))
        /\ days[t]["lost"] = Cardinality(DayOpportunities(t, "lost", d))
  <2> SUFFICES ASSUME NEW t \in period[1]..(period[2] - 1)
               PROVE  /\ days[t]["created"] = Cardinality(DayOpportunities(t, "created", d))
                      /\ days[t]["won"] = Cardinality(DayOpportunities(t, "won", d))
                      /\ days[t]["lost"] = Cardinality(DayOpportunities(t, "lost", d))
    BY <1>4
  <2>1. /\ days[t]["created"] = Cardinality(CreatedOf(d, <<t, t + 1>>))
        /\ days[t]["won"] = Cardinality(WonOf(d, <<t, t + 1>>))
        /\ days[t]["lost"] = Cardinality(LostOf(d, <<t, t + 1>>))
    BY DayCounted
  <2> QED BY <1>3, <2>1
<1>10. \A kind \in {"created", "won", "lost"} :
         MetricOpportunities(kind, d, period) = UNION {DayOpportunities(t, kind, d) : t \in DOMAIN days}
  <2> HIDE DEF days
  <2>1. /\ UNION {DayOpportunities(t, "created", d) : t \in DOMAIN days}
             = UNION {CreatedOf(d, <<t, t + 1>>) : t \in DOMAIN days}
        /\ UNION {DayOpportunities(t, "won", d) : t \in DOMAIN days}
             = UNION {WonOf(d, <<t, t + 1>>) : t \in DOMAIN days}
        /\ UNION {DayOpportunities(t, "lost", d) : t \in DOMAIN days}
             = UNION {LostOf(d, <<t, t + 1>>) : t \in DOMAIN days}
    BY <1>3, Zenon
  <2>2. /\ CreatedOf(d, period) = UNION {CreatedOf(d, <<t, t + 1>>) : t \in DOMAIN days}
        /\ WonOf(d, period) = UNION {WonOf(d, <<t, t + 1>>) : t \in DOMAIN days}
        /\ LostOf(d, period) = UNION {LostOf(d, <<t, t + 1>>) : t \in DOMAIN days}
    BY <1>4, DaysOpen, Zenon
  <2>3. /\ MetricOpportunities("created", d, period) = UNION {DayOpportunities(t, "created", d) : t \in DOMAIN days}
        /\ MetricOpportunities("won", d, period) = UNION {DayOpportunities(t, "won", d) : t \in DOMAIN days}
        /\ MetricOpportunities("lost", d, period) = UNION {DayOpportunities(t, "lost", d) : t \in DOMAIN days}
    <3>1. /\ MetricOpportunities("created", d, period) = UNION {CreatedOf(d, <<t, t + 1>>) : t \in DOMAIN days}
          /\ MetricOpportunities("won", d, period) = UNION {WonOf(d, <<t, t + 1>>) : t \in DOMAIN days}
          /\ MetricOpportunities("lost", d, period) = UNION {LostOf(d, <<t, t + 1>>) : t \in DOMAIN days}
      BY <1>2, <2>2, Zenon
    <3> QED BY <2>1, <3>1, Zenon
  <2> DEFINE Opens(kind) ==
        MetricOpportunities(kind, d, period) = UNION {DayOpportunities(t, kind, d) : t \in DOMAIN days}
  <2>4. Opens("created") /\ Opens("won") /\ Opens("lost")
    BY <2>3
  <2> HIDE DEF Opens
  <2>5. \A kind \in {"created", "won", "lost"} : Opens(kind)
    BY <2>4
  <2> QED BY <2>5 DEF Opens
<1> HIDE DEF v, days, e
<1>6. ASSUME NEW kind \in {"created", "won", "lost"}
      PROVE  /\ v[kind] = Total(BySource(d, period), kind)
             /\ v[kind] = Total(ByProvince(d, period), kind)
             /\ v[kind] = Total(days, kind)
             /\ \A t \in DOMAIN days : days[t][kind] = Cardinality(DayOpportunities(t, kind, d))
  BY <1>1, <1>5, <1>6, SourcesAdd, ProvincesAdd, DaysAdd DEF days
<1>7. /\ LinesOf(CreatedOf(e, period), d) = LinesOf(CreatedOf(d, period), d)
      /\ LinesOf(WonOf(e, period), d) = LinesOf(WonOf(d, period), d)
      /\ LossLinesOf(LostOf(e, period), d) = LossLinesOf(LostOf(d, period), d)
  BY SameLines DEF e
<1>8. /\ v["kgWon"] = Total(ByProvince(d, period), "kgWon") /\ v["kgWon"] = Total(days, "kgWon")
      /\ v["kgLost"] = Total(ByProvince(d, period), "kgLost") /\ v["kgLost"] = Total(days, "kgLost")
      /\ v["kgQuoted"] = Total(ByProvince(d, period), "kgQuoted")
  BY <1>1, <1>7, ProvincesAdd, DaysAdd DEF days
<1>9. ASSUME NEW kept \in KeptNames(d, period)
      PROVE  /\ v["kgQuoted"] = Total(ByProduct(d, period, kept), "quoted")
             /\ v["kgWon"] = Total(ByProduct(d, period, kept), "won")
             /\ Total(ByProduct(d, period, kept), "lost") <= v["kgLost"]
             /\ OneNameEach(d, period) => Total(ByProduct(d, period, kept), "lost") = v["kgLost"]
  <2>1. /\ Total(ByProduct(d, period, kept), "quoted") = Cardinality(LinesOf(CreatedOf(e, period), d))
        /\ Total(ByProduct(d, period, kept), "won") = Cardinality(LinesOf(WonOf(e, period), d))
        /\ Total(ByProduct(d, period, kept), "lost") =
             Cardinality(KeptLinesOf(LostOf(e, period), d, kept))
    BY GoodsAdd DEF e
  <2>2. /\ Cardinality(KeptLinesOf(LostOf(e, period), d, kept)) <= v["kgLost"]
        /\ OneNameEach(d, period) => Cardinality(KeptLinesOf(LostOf(e, period), d, kept)) = v["kgLost"]
    BY <1>1, <1>7, <1>9, KeptLines DEF e
  <2> QED BY <1>1, <2>1, <2>2
<1> QED BY <1>6, <1>8, <1>9, <1>10 DEF v, days

LEMMA ReportsAgreeNow ==
  ASSUME AgreeInv
  PROVE  ReportsAgree
<1>0. TypeInv /\ TimesOK
  BY DEF AgreeInv, EpisodesInv
<1> SUFFICES ASSUME NEW d \in Dimensions
    PROVE
    /\ d.product = Nobody /\ d.province = Nobody =>
         \A s \in Statuses \ {"PERDIDA"} : Pipeline(d)[s] = Cardinality(Listed(s, d.source))
    /\ LET t == LostStatistics(d) IN
         t.historical = t.current + t.reopened + Cardinality(
           {i \in LostConditions(d) \cap LatestLosses :
              LET o == lossRow[i].opportunity IN o \in deleted /\ status[o] = "PERDIDA"})
  BY <1>0, CardsAgree DEF ReportsAgree
<1>1. \A s \in Statuses : Pipeline(d)[s] = Cardinality({o \in Matches(d) : status[o] = s})
  BY DEF Pipeline
<1>2. ASSUME d.product = Nobody, d.province = Nobody, NEW s \in Statuses \ {"PERDIDA"}
      PROVE  Listed(s, d.source) = {o \in Matches(d) : status[o] = s}
  BY <1>2, ReportsAssumption DEF Listed, Matches, Accepts
<1> QED BY <1>1, <1>2, LossesCounted

(* For every number of opportunities, customers, products, sources,          *)
(* provinces and days, every filter and period, and whatever is reopened,    *)
(* regressed, quoted and moved: what the statements behind one dashboard and *)
(* its lists say agrees.  The sums hold since each row of a report counts a  *)
(* part of what the card counts; what is reopened is counted from the events *)
(* and what is currently lost from the statuses, which agree because each    *)
(* entry of the history has its event, in its order.  The kg lost by product *)
(* are those of the groups that the dictionary by product keeps.             *)
THEOREM ReportsAgreeCorrect == ReportsSpec => []ReportsAgree
<1>1. AgreeInv => ReportsAgree
  BY ReportsAgreeNow
<1> QED BY <1>1, AgreeInit, AgreeStep, PTL DEF ReportsSpec, Moves
=============================================================================
