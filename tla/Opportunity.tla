----------------------------- MODULE Opportunity -----------------------------
(***************************************************************************)
(* The sales pipeline: OpportunityService's commands on the opportunities  *)
(* of several customers, with what they keep consistent - the status       *)
(* history, loss and reopen events, the rule of one active WhatsApp        *)
(* opportunity per customer, the stale-opportunity notices and the         *)
(* automatic Legendary flag.                                               *)
(*                                                                         *)
(* Every command is one transaction under the opportunity's row lock.  The *)
(* commands that make an opportunity active also hold the customer's row   *)
(* from their check of the customer's other opportunities to their commit; *)
(* they take two actions, between which commands on other opportunities,   *)
(* which do not need the customer, commit.                                 *)
(***************************************************************************)
EXTENDS Integers, FiniteSets, Sequences

CONSTANTS
  Opportunities,  \* ids, given out in increasing order
  Customers,
  Sources,        \* lead sources, "WHATSAPP" among them
  Products,
  Withdrawable,   \* products that may be deactivated and activated again
  Assignees,      \* active users an opportunity may be assigned to
  Clients,        \* browsers that read an opportunity and edit what they read
  Requests,       \* reopen requests in flight
  Commands,       \* command_id values of reopen requests
  Nobody,         \* no customer, transaction, request or reading
  MaxHistory,     \* bound: status changes of an opportunity, its creation included
  MaxEdits,       \* bound: edits of an opportunity's quote or assignee
  Aging,          \* bound: opportunities left alone for the stale threshold
  Maturing,       \* bound: opportunities whose third anniversary comes
  MaxOverlaps     \* bound: commands that commit while the stale scan runs

Active == {"NUEVA", "COTIZADA", "NEGOCIACION"}
Terminal == {"GANADA", "PERDIDA"}
Statuses == Active \cup Terminal
Kinds == {"CREATED", "STATUS_CHANGED", "LOST", "REOPENED"}

Results == {"waiting", "holding", "reopened", "replayed", "refused", "lost"}
Transactions == [op : {"create", "regress", "reopen"}, opportunity : Opportunities,
                 arg : Sources \cup Requests \cup {Nobody}]
ReopenRequests == [opportunity : Opportunities, command : Commands, result : Results]
Readings == [opportunity : Opportunities, version : Nat, products : SUBSET Products,
             assignee : Assignees \cup {Nobody}]

ASSUME OpportunityAssumption ==
  /\ Opportunities \subseteq Nat /\ IsFiniteSet(Opportunities)
  /\ Withdrawable \subseteq Products
  /\ "WHATSAPP" \in Sources /\ Nobody \notin Sources /\ Nobody \notin Assignees
  /\ Aging \subseteq Opportunities /\ Maturing \subseteq Opportunities
  /\ MaxHistory \in Nat \ {0} /\ MaxEdits \in Nat /\ MaxOverlaps \in Nat
  /\ Nobody \notin Customers /\ Nobody \notin Requests
  /\ Nobody \notin Transactions /\ Nobody \notin ReopenRequests
  /\ Nobody \notin Readings

VARIABLES
  status,      \* Opportunity.status, "none" before creation
  customer,    \* customer_id
  source,      \* source
  deleted,     \* opportunities with deleted_at set
  products,    \* the quoted products of each opportunity
  assignee,    \* assigned_user_id
  version,     \* updated_at
  history,     \* opportunity_status_history
  losses,      \* opportunity_loss_events: entry of the history, quoted products
  reopens,     \* opportunity_reopen_events: entry, loss event and command_id
  offered,     \* active products
  archived,    \* customers with deleted_at set
  pending,     \* per customer: the transaction that holds its row and will
               \* make an opportunity active
  request,     \* reopen requests
  seen,        \* what each client last read
  overdue,     \* current_status_entered_at <= now - threshold
  notices,     \* opportunities with an unresolved OPPORTUNITY_STALE notice
  scan,        \* rows the running generator selected, Nobody if none runs
  overlaps,    \* consumed bound
  mature,      \* opportunities created at least three calendar years ago
  legendary    \* customers with legendary_automatic

rowVars == <<status, customer, source, deleted, products, assignee, version>>
eventVars == <<history, losses, reopens>>
noticeVars == <<overdue, notices, scan, overlaps>>
vars == <<rowVars, eventVars, offered, archived, pending, request, seen, noticeVars,
          mature, legendary>>

-----------------------------------------------------------------------------
Created == {o \in Opportunities : status[o] # "none"}
IsActive(o) == status[o] \in Active /\ o \notin deleted

\* active_whatsapp_opportunity_for_customer_in_transaction
OtherActiveWhatsApp(c, o) ==
  {p \in Opportunities \ {o} : customer[p] = c /\ source[p] = "WHATSAPP" /\ IsActive(p)}

\* Another transaction holds the row of opportunity o.
Locked(o) ==
  \E c \in Customers : pending[c] # Nobody /\ pending[c].opportunity = o

\* The won opportunities of c on the given statuses and deletions.
Won(c, st, del) == {o \in Opportunities : customer[o] = c /\ st[o] = "GANADA" /\ o \notin del}

\* The automatic Legendary rule: the first won opportunity by (created_at, id)
\* is three years old.  Ids are given out in the order of creation.
Qualifies(c, st, del) ==
  \E first \in Won(c, st, del) : first \in mature /\ \A o \in Won(c, st, del) : first <= o

\* Mutant: the flag is only ever granted.
RecomputeGrants(c, st, del) ==
  legendary' = IF Qualifies(c, st, del) THEN legendary \cup {c} ELSE legendary
\* LegendaryService.recompute_customer_in_transaction on what the database
\* shows at that point of the transaction.
Recompute(c, st, del) ==
  legendary' = IF Qualifies(c, st, del) THEN legendary \cup {c} ELSE legendary \ {c}

\* A command commits: while the stale scan runs, only MaxOverlaps of them.
Overlap ==
  IF scan = Nobody THEN UNCHANGED overlaps
  ELSE overlaps < MaxOverlaps /\ overlaps' = overlaps + 1

ResolveNothing(o) == UNCHANGED notices  \* Mutant
\* resolve_stale_for_opportunity_in_transaction
Resolve(o) == notices' = notices \ {o}

\* _transition: status, timer, updated_at, the resolved stale notice and the
\* history entry.
Transition(o, to, kind) ==
  /\ Len(history[o]) < MaxHistory
  /\ status' = [status EXCEPT ![o] = to]
  /\ version' = [version EXCEPT ![o] = @ + 1]
  /\ history' = [history EXCEPT ![o] = Append(@, [from |-> status[o], to |-> to, kind |-> kind])]
  /\ overdue' = overdue \ {o}
  /\ Resolve(o)
  /\ Overlap
  /\ UNCHANGED scan

-----------------------------------------------------------------------------
Init ==
  /\ status = [o \in Opportunities |-> "none"]
  /\ customer = [o \in Opportunities |-> Nobody]
  /\ source = [o \in Opportunities |-> Nobody]
  /\ deleted = {}
  /\ products = [o \in Opportunities |-> {}]
  /\ assignee = [o \in Opportunities |-> Nobody]
  /\ version = [o \in Opportunities |-> 0]
  /\ history = [o \in Opportunities |-> <<>>]
  /\ losses = [o \in Opportunities |-> <<>>]
  /\ reopens = [o \in Opportunities |-> <<>>]
  /\ offered = Products
  /\ archived = {}
  /\ pending = [c \in Customers |-> Nobody]
  /\ request = [q \in Requests |-> Nobody]
  /\ seen = [k \in Clients |-> Nobody]
  /\ overdue = {} /\ notices = {} /\ scan = Nobody /\ overlaps = 0
  /\ mature = {} /\ legendary = {}

\* An opportunity the command may lock and change.
Free(o) == o \in Created \ deleted /\ ~Locked(o)

\* Nobody holds the row of c.
Unheld(c) == pending[c] = Nobody

-----------------------------------------------------------------------------
(* Commands that make an opportunity active.                               *)

\* create_opportunity_in_transaction up to its checks.  The row does not exist
\* for anyone else before the commit.
BeginCreate(c, s) ==
  /\ Unheld(c) /\ c \notin archived
  /\ \E o \in Opportunities \ Created :
       /\ ~Locked(o)
       /\ \A p \in Opportunities : p < o => p \in Created \/ Locked(p)
       /\ s = "WHATSAPP" => OtherActiveWhatsApp(c, o) = {}
       /\ pending' = [pending EXCEPT ![c] = [op |-> "create", opportunity |-> o, arg |-> s]]
  /\ UNCHANGED <<rowVars, eventVars, offered, archived, request, seen, noticeVars,
                 mature, legendary>>

CommitCreate(c) ==
  LET o == pending[c].opportunity IN
  /\ ~Unheld(c) /\ pending[c].op = "create"
  /\ status' = [status EXCEPT ![o] = "NUEVA"]
  /\ customer' = [customer EXCEPT ![o] = c]
  /\ source' = [source EXCEPT ![o] = pending[c].arg]
  /\ version' = [version EXCEPT ![o] = 1]
  /\ history' = [history EXCEPT
       ![o] = <<[from |-> "none", to |-> "NUEVA", kind |-> "CREATED"]>>]
  /\ Recompute(c, status, deleted)
  /\ pending' = [pending EXCEPT ![c] = Nobody]
  /\ UNCHANGED <<deleted, products, assignee, losses, reopens, offered, archived, request, seen,
                 noticeVars, mature>>

\* ALLOWED_STAGE_REGRESSIONS
Regressed(s) == IF s = "GANADA" THEN "NEGOCIACION" ELSE "COTIZADA"

\* regress_stage up to its checks.  Refused as a stale expected_status, when
\* the status is none of the two.
BeginRegress(o) ==
  LET c == customer[o] IN
  /\ Free(o) /\ Unheld(c) /\ c \notin archived
  /\ status[o] \in {"GANADA", "NEGOCIACION"}
  /\ source[o] = "WHATSAPP" => OtherActiveWhatsApp(c, o) = {}
  /\ products[o] # {}
  /\ pending' = [pending EXCEPT ![c] = [op |-> "regress", opportunity |-> o, arg |-> Nobody]]
  /\ UNCHANGED <<rowVars, eventVars, offered, archived, request, seen, noticeVars,
                 mature, legendary>>

CommitRegress(c) ==
  LET o == pending[c].opportunity IN
  /\ ~Unheld(c) /\ pending[c].op = "regress"
  /\ Transition(o, Regressed(status[o]), "STATUS_CHANGED")
  /\ Recompute(c, status', deleted)
  /\ pending' = [pending EXCEPT ![c] = Nobody]
  /\ UNCHANGED <<customer, source, deleted, products, assignee, losses, reopens, offered, archived,
                 request, seen, mature>>

LastEntry(o) == Len(history[o])  \* Mutant: refers to the previous entry
\* The history entry a loss or reopen event refers to, the one of its transition.
NextEntry(o) == Len(history[o]) + 1

\* The opportunities with a reopen event of a command_id.
Reopened(k) ==
  {o \in Opportunities : \E i \in 1..Len(reopens[o]) : reopens[o][i].command = k}

\* reopen looks for an earlier use of the command before it locks anything: a
\* replay answers with the opportunity, another payload is a conflict.
LookUpReopen(q, o, k) ==
  /\ request[q] = Nobody
  /\ o \in Created
  /\ request' = [request EXCEPT ![q] =
       [opportunity |-> o, command |-> k,
        result |-> IF Reopened(k) = {} THEN "waiting"
                   ELSE IF o \in Reopened(k) /\ o \notin deleted THEN "replayed" ELSE "refused"]]
  /\ UNCHANGED <<rowVars, eventVars, offered, archived, pending, seen, noticeVars,
                 mature, legendary>>

\* Mutant: another active WhatsApp opportunity does not matter.
MayReopenAnyway(o) ==
  /\ o \notin deleted /\ customer[o] \notin archived
  /\ status[o] = "PERDIDA" /\ products[o] # {} /\ losses[o] # <<>>

\* What reopen requires once it holds the customer's and the opportunity's row.
MayReopen(o) ==
  /\ o \notin deleted /\ customer[o] \notin archived
  /\ status[o] = "PERDIDA"
  /\ products[o] # {}
  /\ source[o] = "WHATSAPP" => OtherActiveWhatsApp(customer[o], o) = {}
  /\ losses[o] # <<>>

BeginReopen(q) ==
  /\ request[q] # Nobody /\ request[q].result = "waiting"
  /\ LET o == request[q].opportunity
         c == customer[o]
     IN /\ Unheld(c) /\ ~Locked(o)
        /\ MayReopen(o)
        /\ pending' = [pending EXCEPT ![c] =
             [op |-> "reopen", opportunity |-> o, arg |-> q]]
        /\ request' = [request EXCEPT ![q].result = "holding"]
  /\ UNCHANGED <<rowVars, eventVars, offered, archived, seen, noticeVars, mature, legendary>>

\* The checks fail under the locks.
RefuseReopen(q) ==
  /\ request[q] # Nobody /\ request[q].result = "waiting"
  /\ LET o == request[q].opportunity IN
       /\ Unheld(customer[o]) /\ ~Locked(o)
       /\ ~MayReopen(o)
  /\ request' = [request EXCEPT ![q].result = "refused"]
  /\ UNCHANGED <<rowVars, eventVars, offered, archived, pending, seen, noticeVars,
                 mature, legendary>>

\* The reopen event's unique command_id rolls the transaction back when
\* another opportunity used it meanwhile.
CommitReopen(c) ==
  LET o == pending[c].opportunity
      q == pending[c].arg
      k == request[q].command
  IN
  /\ ~Unheld(c) /\ pending[c].op = "reopen"
  /\ pending' = [pending EXCEPT ![c] = Nobody]
  /\ IF Reopened(k) = {}
     THEN /\ Transition(o, "NEGOCIACION", "REOPENED")
          /\ reopens' = [reopens EXCEPT ![o] =
               Append(@, [entry |-> NextEntry(o), loss |-> Len(losses[o]), command |-> k])]
          /\ request' = [request EXCEPT ![q].result = "reopened"]
     ELSE /\ request' = [request EXCEPT ![q].result = "refused"]
          /\ UNCHANGED <<status, version, history, reopens, noticeVars>>
  /\ UNCHANGED <<customer, source, deleted, products, assignee, losses, offered, archived, seen,
                 mature, legendary>>

\* The process dies, or the connection is lost, before the commit.
RollBack(c) ==
  /\ ~Unheld(c)
  /\ pending' = [pending EXCEPT ![c] = Nobody]
  /\ request' = IF pending[c].op = "reopen"
                THEN [request EXCEPT ![pending[c].arg].result = "lost"] ELSE request
  /\ UNCHANGED <<rowVars, eventVars, offered, archived, seen, noticeVars, mature, legendary>>

\* The client forgets an answer; it may send the same command again.
Forget(q) ==
  /\ request[q] # Nobody /\ request[q].result \notin {"waiting", "holding"}
  /\ request' = [request EXCEPT ![q] = Nobody]
  /\ UNCHANGED <<rowVars, eventVars, offered, archived, pending, seen, noticeVars,
                 mature, legendary>>

-----------------------------------------------------------------------------
(* Commands of one transaction.                                            *)

\* _validate_quote_products
ValidQuote(P, allowed) == P # {} /\ P \subseteq allowed

\* quote_opportunity: the only command out of NUEVA but a loss.
Quote(o, P) ==
  /\ Free(o) /\ Unheld(customer[o])
  /\ status[o] = "NUEVA"
  /\ ValidQuote(P, offered)
  /\ products' = [products EXCEPT ![o] = P]
  /\ Transition(o, "COTIZADA", "STATUS_CHANGED")
  /\ Recompute(customer[o], status', deleted)
  /\ UNCHANGED <<customer, source, deleted, assignee, losses, reopens, offered, archived, pending,
                 request, seen, mature>>

AdvancedToWon(s) == IF s = "NUEVA" THEN "COTIZADA" ELSE "GANADA"  \* Mutant: skips a stage
\* The targets of move_to_negotiation and mark_as_won by the status they expect.
Advanced(s) == IF s = "COTIZADA" THEN "NEGOCIACION" ELSE "GANADA"

\* move_to_negotiation and mark_as_won
Advance(o) ==
  /\ Free(o)
  /\ products[o] # {}
  /\ status[o] \in {"COTIZADA", "NEGOCIACION"}
  /\ Transition(o, Advanced(status[o]), "STATUS_CHANGED")
  /\ UNCHANGED <<customer, source, deleted, products, assignee, losses, reopens, offered, archived,
                 pending, request, seen, mature, legendary>>

\* mark_as_lost with its loss event and product snapshots
Lose(o) ==
  /\ Free(o) /\ status[o] \in Active
  /\ Transition(o, "PERDIDA", "LOST")
  /\ losses' = [losses EXCEPT
       ![o] = Append(@, [entry |-> NextEntry(o), products |-> products[o]])]
  /\ UNCHANGED <<customer, source, deleted, products, assignee, reopens, offered, archived, pending,
                 request, seen, mature, legendary>>

\* soft_delete_opportunity.  The session does not flush before a query, so that
\* the recomputation's query still finds the row undeleted.
Delete(o) ==
  /\ o \in Created /\ ~Locked(o) /\ Unheld(customer[o])
  /\ deleted' = deleted \cup {o}
  /\ version' = IF o \in deleted THEN version ELSE [version EXCEPT ![o] = @ + 1]
  /\ Resolve(o)
  /\ Recompute(customer[o], status, deleted)
  /\ Overlap
  /\ UNCHANGED <<status, customer, source, products, assignee, eventVars, offered, archived, pending,
                 request, seen, overdue, scan, mature>>

\* A client opens the detail of an opportunity.
Read(k, o) ==
  /\ o \in Created \ deleted
  /\ seen' = [seen EXCEPT ![k] =
                [opportunity |-> o, version |-> version[o], products |-> products[o],
                 assignee |-> assignee[o]]]
  /\ UNCHANGED <<rowVars, eventVars, offered, archived, pending, request, noticeVars,
                 mature, legendary>>

\* Mutant: a lost opportunity's quote may be edited.
EditableAnytime(o) == status[o] # "NUEVA"
\* _require_quote_editable
Editable(o) == status[o] \in {"COTIZADA", "NEGOCIACION"}

BumpNothing(o) == UNCHANGED version  \* Mutant
\* opportunity.updated_at = now
Bump(o) == version' = [version EXCEPT ![o] = @ + 1]

\* _require_fresh_update under the row lock: nobody wrote since the client read.
Fresh(k) ==
  /\ seen[k] # Nobody
  /\ LET o == seen[k].opportunity IN
       /\ Free(o)
       /\ version[o] = seen[k].version
       /\ version[o] < Len(history[o]) + MaxEdits

\* update_quote_products.  A withdrawn product may stay in the quote but not
\* enter it.
EditQuote(k, P) ==
  /\ Fresh(k)
  /\ LET o == seen[k].opportunity IN
       /\ Editable(o)
       /\ ValidQuote(P, offered \cup products[o])
       /\ products' = [products EXCEPT ![o] = P]
       /\ Bump(o)
  /\ seen' = [seen EXCEPT ![k] = Nobody]
  /\ UNCHANGED <<status, customer, source, deleted, assignee, eventVars, offered, archived,
                 pending, request, noticeVars, mature, legendary>>

\* assign_user
Assign(k, u) ==
  /\ Fresh(k)
  /\ LET o == seen[k].opportunity IN
       /\ assignee' = [assignee EXCEPT ![o] = u]
       /\ Bump(o)
  /\ seen' = [seen EXCEPT ![k] = Nobody]
  /\ UNCHANGED <<status, customer, source, deleted, products, eventVars, offered, archived,
                 pending, request, noticeVars, mature, legendary>>

\* ProductService: a product is deactivated or activated.
ToggleProduct(p) ==
  /\ offered' = IF p \in offered THEN offered \ {p} ELSE offered \cup {p}
  /\ UNCHANGED <<rowVars, eventVars, archived, pending, request, seen, noticeVars,
                 mature, legendary>>

\* CustomerService.soft_delete_customer, which leaves its opportunities alone
ArchiveCustomer(c) ==
  /\ Unheld(c) /\ c \notin archived
  /\ archived' = archived \cup {c}
  /\ UNCHANGED <<rowVars, eventVars, offered, pending, request, seen, noticeVars,
                 mature, legendary>>

-----------------------------------------------------------------------------
(* Time, and the jobs that follow it.                                      *)

\* Seven days pass without a change of status.
BecomesOverdue(o) ==
  /\ o \in (Created \cap Aging) \ overdue
  /\ overdue' = overdue \cup {o}
  /\ UNCHANGED <<rowVars, eventVars, offered, archived, pending, request, seen, notices,
                 scan, overlaps, mature, legendary>>

StaleUnquoted == {o \in overdue : status[o] = "NUEVA" /\ o \notin deleted} \ notices  \* Mutant
\* STALE_OPPORTUNITY_STATUSES past the threshold without an unresolved notice
Stale == {o \in overdue : IsActive(o)} \ notices

\* generate_stale_opportunity_notifications selects: open, overdue and without
\* an unresolved notice, in the statement's snapshot.
SelectStale ==
  /\ scan = Nobody
  /\ scan' = Stale
  /\ UNCHANGED <<rowVars, eventVars, offered, archived, pending, request, seen, overdue,
                 notices, overlaps, mature, legendary>>

\* It inserts, after waiting for the rows its foreign keys refer to.
InsertStale ==
  /\ scan # Nobody
  /\ \A o \in scan : ~Locked(o)
  /\ notices' = notices \cup scan
  /\ scan' = Nobody
  /\ UNCHANGED <<rowVars, eventVars, offered, archived, pending, request, seen, overdue,
                 overlaps, mature, legendary>>

\* Three calendar years pass since an opportunity's creation, in the order of
\* creation.
Matures(o) ==
  /\ o \in (Created \cap Maturing) \ mature
  /\ \A p \in Created : p < o => p \in mature
  /\ mature' = mature \cup {o}
  /\ UNCHANGED <<rowVars, eventVars, offered, archived, pending, request, seen, noticeVars,
                 legendary>>

\* LegendaryService.recompute_batch reaches c.
RecomputeJob(c) ==
  /\ Unheld(c)
  /\ Recompute(c, status, deleted)
  /\ UNCHANGED <<rowVars, eventVars, offered, archived, pending, request, seen, noticeVars,
                 mature>>

Next ==
  \/ \E c \in Customers, s \in Sources : BeginCreate(c, s)
  \/ \E c \in Customers :
       \/ CommitCreate(c) \/ CommitRegress(c) \/ CommitReopen(c) \/ RollBack(c)
       \/ ArchiveCustomer(c) \/ RecomputeJob(c)
  \/ \E q \in Requests, o \in Opportunities, k \in Commands : LookUpReopen(q, o, k)
  \/ \E q \in Requests : BeginReopen(q) \/ RefuseReopen(q) \/ Forget(q)
  \/ \E o \in Opportunities :
       \/ BeginRegress(o) \/ Advance(o) \/ Lose(o) \/ Delete(o)
       \/ BecomesOverdue(o) \/ Matures(o)
       \/ \E P \in SUBSET Products : Quote(o, P)
       \/ \E k \in Clients : Read(k, o)
  \/ \E k \in Clients :
       \/ \E P \in SUBSET Products : EditQuote(k, P)
       \/ \E u \in Assignees \cup {Nobody} : Assign(k, u)
  \/ \E p \in Withdrawable : ToggleProduct(p)
  \/ SelectStale \/ InsertStale

Spec == Init /\ [][Next]_vars
-----------------------------------------------------------------------------
(* Properties                                                              *)

HistoryEntries == [from : Statuses \cup {"none"}, to : Statuses, kind : Kinds]
LossEvents == [entry : Nat, products : SUBSET Products]
ReopenEvents == [entry : Nat, loss : Nat, command : Commands]

\* Every variable has its type.
TypeOK ==
  /\ status \in [Opportunities -> Statuses \cup {"none"}]
  /\ customer \in [Opportunities -> Customers \cup {Nobody}]
  /\ source \in [Opportunities -> Sources \cup {Nobody}]
  /\ deleted \subseteq Created
  /\ products \in [Opportunities -> SUBSET Products]
  /\ assignee \in [Opportunities -> Assignees \cup {Nobody}]
  /\ version \in [Opportunities -> Nat]
  /\ history \in [Opportunities -> Seq(HistoryEntries)]
  /\ losses \in [Opportunities -> Seq(LossEvents)]
  /\ reopens \in [Opportunities -> Seq(ReopenEvents)]
  /\ offered \subseteq Products
  /\ archived \subseteq Customers
  /\ pending \in [Customers -> Transactions \cup {Nobody}]
  /\ request \in [Requests -> ReopenRequests \cup {Nobody}]
  /\ seen \in [Clients -> Readings \cup {Nobody}]
  /\ overdue \subseteq Opportunities /\ notices \subseteq Opportunities
  /\ scan = Nobody \/ scan \subseteq Opportunities
  /\ overlaps \in 0..MaxOverlaps
  /\ mature \subseteq Opportunities /\ legendary \subseteq Customers

\* The legal entries of a history, by kind.
PipelineEntry(e) ==
  \/ e.kind = "CREATED" /\ e.from = "none" /\ e.to = "NUEVA"
  \/ /\ e.kind = "STATUS_CHANGED"
     /\ <<e.from, e.to>> \in {<<"NUEVA", "COTIZADA">>, <<"COTIZADA", "NEGOCIACION">>,
                              <<"NEGOCIACION", "GANADA">>, <<"GANADA", "NEGOCIACION">>,
                              <<"NEGOCIACION", "COTIZADA">>}
  \/ e.kind = "LOST" /\ e.from \in Active /\ e.to = "PERDIDA"
  \/ e.kind = "REOPENED" /\ e.from = "PERDIDA" /\ e.to = "NEGOCIACION"

\* BUSINESS_RULES: the history of an opportunity is an unbroken path of the
\* pipeline that ends in its status, and no status is skipped.
HistoryIsPipeline ==
  \A o \in Created :
    LET h == history[o] IN
    /\ Len(h) > 0 /\ h[1].kind = "CREATED" /\ h[Len(h)].to = status[o]
    /\ \A i \in 1..Len(h) : PipelineEntry(h[i])
    /\ \A i \in 2..Len(h) : h[i].from = h[i - 1].to

\* BUSINESS_RULES: a customer has at most one active WhatsApp opportunity.  The
\* partial unique index guards it too, as the last resort: the commands' own
\* checks under the customer's lock never let it come to that.
OneActiveWhatsApp ==
  \A o, p \in Created :
    /\ IsActive(o) /\ IsActive(p)
    /\ source[o] = "WHATSAPP" /\ source[p] = "WHATSAPP"
    /\ customer[o] = customer[p]
    => o = p

\* CRM-012 AC-07, AC-08: every loss and every reopening has its own event, and
\* a reopening refers to the loss right before it.
LossEpisodes ==
  \A o \in Created :
    /\ {losses[o][i].entry : i \in 1..Len(losses[o])}
         = {i \in 1..Len(history[o]) : history[o][i].kind = "LOST"}
    /\ {reopens[o][i].entry : i \in 1..Len(reopens[o])}
         = {i \in 1..Len(history[o]) : history[o][i].kind = "REOPENED"}
    /\ \A i \in 1..Len(reopens[o]) : losses[o][reopens[o][i].loss].entry = reopens[o][i].entry - 1

\* BUSINESS_RULES: past NUEVA there is always a quote with a product in it, and
\* a lost opportunity keeps the quote it was lost with.
QuoteIsKept ==
  \A o \in Created :
    /\ status[o] \in {"COTIZADA", "NEGOCIACION", "GANADA"} => products[o] # {}
    /\ status[o] = "PERDIDA" => losses[o][Len(losses[o])].products = products[o]

\* CRM-012 AC-08: however often and concurrently a reopen command is sent, it
\* takes effect once.
OneReopenPerCommand ==
  \A o, p \in Opportunities : \A i \in 1..Len(reopens[o]), j \in 1..Len(reopens[p]) :
    reopens[o][i].command = reopens[p][j].command => o = p /\ i = j

\* An edit that is accepted applies to exactly what its client saw: a row with
\* the updated_at the client read has the quote and the assignee it read.
ReadingsAreExact ==
  \A k \in Clients :
    seen[k] # Nobody =>
      LET o == seen[k].opportunity IN
      version[o] = seen[k].version
        => products[o] = seen[k].products /\ assignee[o] = seen[k].assignee

\* CRM-003: "Changing opportunity status or soft-deleting the opportunity
\* resolves its active stale notification": a notice is only ever unresolved on
\* an open opportunity that is overdue.
NoticesAreAlwaysDue == \A o \in notices : IsActive(o) /\ o \in overdue

\* The same as long as no command commits under the generator's statement.
NoticesAreDue == overlaps = 0 => NoticesAreAlwaysDue

\* CRM-012: the automatic flag is earned by a won opportunity three years old;
\* no order of creations, regressions and recomputations leaves it to a customer
\* who has none.  A deleted win still counts here: see DeletionIsRecomputed.
LegendaryIsEarned ==
  \A c \in legendary : \E o \in mature : customer[o] = c /\ status[o] = "GANADA"

\* CRM-012: a soft deletion recomputes the flag in its transaction.
DeletionIsRecomputed ==
  [][\A o \in Opportunities :
       o \notin deleted /\ o \in deleted'
       => (customer[o] \in legendary' <=> Qualifies(customer[o], status', deleted'))]_vars

\* The generator is run again and again, every transaction ends, and the
\* generator's turn in the queues of the row locks it waits for comes.
FairJobs ==
  /\ WF_vars(SelectStale) /\ SF_vars(InsertStale)
  /\ \A c \in Customers : WF_vars(CommitCreate(c) \/ CommitRegress(c) \/ CommitReopen(c) \/ RollBack(c))
FairSpec == Spec /\ FairJobs

\* CRM-003 AC-01: an overdue open opportunity gets its notice, unless a command
\* moves it on first.
OverdueIsNotified ==
  \A o \in Opportunities :
    o \in overdue /\ IsActive(o) ~> o \in notices \/ o \notin overdue \/ ~IsActive(o)
=============================================================================
