-------------------------------- MODULE Inbox --------------------------------
(***************************************************************************)
(* The conversation of one phone: webhooks record its inbound messages and *)
(* the delivery events of its replies, users answer, read, handle, hide    *)
(* and link it, and its projections (unread, waiting, window, link) follow.*)
(*                                                                         *)
(* Every transaction is one action, serial by the conversation's row lock, *)
(* with one exception: receive() first reads the conversation unlocked and *)
(* keeps what it read.  The session neither flushes before a query nor     *)
(* refreshes a loaded row when it locks it, so what receive() computes, it *)
(* computes from that reading, and what recompute_response_projection      *)
(* counts are the rows as they were before the transaction's own changes.  *)
(***************************************************************************)
EXTENDS Integers, FiniteSets, Sequences, SequencesExt

CONSTANTS
  Inbounds,         \* external ids of the contact's messages
  Replies,          \* client_generated_id values
  Requests,         \* requests that send a reply
  Customers,
  NoRow,            \* no conversation, customer or inbound transaction
  Idle,             \* an inbound message no webhook is recording
  Window,           \* hours of the freeform window, in ticks
  Reports,          \* delivery states the provider reports
  MaxTime,          \* bound: the clock
  MaxOpportunities, \* bound: opportunities
  Budgets           \* bounds: a behaviour has one of these budgets of commands on
                    \* the conversation, new replies, changes of customers and
                    \* opportunities, delivery events, and processes that die

MaxMessages == Cardinality(Inbounds) + Cardinality(Replies)

ASSUME InboxAssumption ==
  /\ IsFiniteSet(Inbounds) /\ IsFiniteSet(Replies) /\ IsFiniteSet(Customers)
  /\ Inbounds \cap Replies = {}
  /\ NoRow \notin Customers /\ NoRow # Idle
  /\ Reports \subseteq {"SENT", "DELIVERED", "READ", "FAILED"}
  /\ {Window, MaxTime} \subseteq Nat \ {0}
  /\ MaxOpportunities \in Nat
  /\ Budgets \subseteq [{"commands", "replies", "changes", "reports", "crashes"} -> Nat]

DispatchStates == {"NONE", "PENDING", "IN_PROGRESS", "ACCEPTED", "DEFINITIVE_FAILED", "UNKNOWN"}
Rows ==
  [customer : Customers \cup {NoRow}, resolved : BOOLEAN, hidden : BOOLEAN, unread : Nat,
   since : Nat, through : Nat, lastInbound : Nat]  \* 0 for NULL
Messages ==
  [inbound : BOOLEAN, key : Inbounds \cup Replies, at : Nat, created : Nat,
   dispatch : DispatchStates, retryOf : Nat]
Opportunities ==
  [customer : Customers, whatsapp : BOOLEAN, status : {"open", "closed", "deleted"}]
Events == [message : Nat, state : Reports, at : Nat, attached : BOOLEAN]

ASSUME NoRowIsNone == NoRow \notin Rows

VARIABLES
  row,           \* the WhatsAppConversation; since is 0 when it does not wait
  messages,      \* its WhatsAppMessage rows in the order of their ids
  delivery,      \* provider_state and provider_status_at of a message
  events,        \* WhatsAppMessageStatusEvent rows
  customers,     \* "absent", "live" or "deleted"
  owners,        \* customers with the contact's phone
  opportunities, \* Opportunity rows
  link,          \* the opportunity of the active link, 0 without one
  held,          \* per inbound message: what its webhook has read, or Idle
  request,       \* per request: its step, its message and the answer
  wire,          \* when the provider accepted a message, 0 if it did not
  calls,         \* provider calls made for a message
  clock,
  budget,        \* what is left of the bounds
  readTo,        \* messages there were when the conversation was last read
  handledTo,     \* messages there were when it was last handled
  overlapped,    \* a transaction has committed between a reading and its use
  reassigned     \* the conversation was given to another customer

conversationVars == <<row, link>>
messageVars == <<messages, delivery, events>>
marketVars == <<customers, owners, opportunities>>
providerVars == <<wire, calls>>
historyVars == <<readTo, handledTo, overlapped, reassigned>>
vars == <<conversationVars, messageVars, marketVars, providerVars, historyVars,
          held, request, clock, budget>>

-----------------------------------------------------------------------------
(* The response projection.                                                *)

Later(t, u) == IF u > t THEN u ELSE t  \* later_datetime
Least(S) == CHOOSE t \in S : \A u \in S : t <= u
Greatest(S) == CHOOSE t \in S : \A u \in S : u <= t

Received(ms) == {i \in 1..Len(ms) : ms[i].inbound}

\* A reply that answers: accepted, and provider_state <> FAILED, which SQL
\* does not grant to NULL.
Valid(ms, ds, i) ==
  ~ms[i].inbound /\ ms[i].dispatch = "ACCEPTED" /\ ds[i].state \notin {"NONE", "FAILED"}

\* valid_outbound_at, 0 for NULL
AnsweredAt(ms, ds) == Greatest({0} \cup {ms[i].at : i \in {j \in 1..Len(ms) : Valid(ms, ds, j)}})

\* The inbound messages neither handled nor answered.
Unanswered(ms, ds, through) ==
  LET answered == AnsweredAt(ms, ds) IN
  {i \in Received(ms) :
     /\ i > through
     /\ ms[i].at > answered \/ (through > 0 /\ ms[i].created > answered)}

\* recompute_response_projection: waiting_since_at, 0 when nothing waits
Since(ms, ds, through) ==
  LET waiting == Unanswered(ms, ds, through) IN
  IF waiting = {} THEN 0 ELSE Least({ms[i].at : i \in waiting})

Recomputed(r, ms, ds) == [r EXCEPT !.since = Since(ms, ds, r.through)]

\* What an UPDATE leaves in the row: the attributes whose value is no longer
\* the one that was read.
Written(read, value, current) ==
  [f \in DOMAIN current |-> IF value[f] # read[f] THEN value[f] ELSE current[f]]

-----------------------------------------------------------------------------
(* The effective delivery state.                                           *)

Rank(s) ==
  CASE s = "FAILED" -> 0 [] s = "SENT" -> 1 [] s = "DELIVERED" -> 2 [] s = "READ" -> 3

ReplacesByArrival(d, e) ==  \* Mutant: the last event to arrive wins
  ~(d.state \in {"DELIVERED", "READ"} /\ e.state = "FAILED")
\* _should_replace_effective_state
Replaces(d, e) ==
  \/ d.state = "NONE"
  \/ /\ ~(d.state \in {"DELIVERED", "READ"} /\ e.state = "FAILED")
     /\ e.at > d.at \/ (e.at = d.at /\ Rank(e.state) > Rank(d.state))

Applied(d, e) == IF Replaces(d, e) THEN [state |-> e.state, at |-> e.at] ELSE d

Earlier(m, n) ==
  events[m].at < events[n].at \/ (events[m].at = events[n].at /\ m < n)
\* The recorded events of message i no message has, in the order of occurred_at and id.
Pending(i) ==
  CHOOSE ns \in SetToSeqs({n \in 1..Len(events) : events[n].message = i /\ ~events[n].attached}) :
    \A j, k \in DOMAIN ns : j < k => Earlier(ns[j], ns[k])

\* attach_pending_events_in_transaction
Attached(i) ==
  [n \in 1..Len(events) |-> [events[n] EXCEPT !.attached = @ \/ events[n].message = i]]
DeliveryAttached(i) ==
  FoldLeft(LAMBDA d, n : Applied(d, events[n]), [state |-> "NONE", at |-> 0], Pending(i))
-----------------------------------------------------------------------------
Init ==
  /\ row = NoRow /\ link = 0
  /\ messages = <<>> /\ events = <<>>
  /\ delivery = [i \in 1..MaxMessages |-> [state |-> "NONE", at |-> 0]]
  /\ owners \in SUBSET Customers
  /\ customers \in [Customers -> {"absent", "live"}]
  /\ \A c \in owners : customers[c] = "live"
  /\ opportunities = <<>>
  /\ held = [m \in Inbounds |-> Idle]
  /\ request = [q \in Requests |-> [step |-> "idle", message |-> 0, answer |-> "none"]]
  /\ wire = [i \in 1..MaxMessages |-> 0]
  /\ calls = [i \in 1..MaxMessages |-> 0]
  /\ clock = 1
  /\ budget \in Budgets
  /\ readTo = 0 /\ handledTo = 0 /\ overlapped = FALSE /\ reassigned = FALSE

Visible == row # NoRow /\ ~row.hidden
Spend(bound) == budget[bound] > 0 /\ budget' = [budget EXCEPT ![bound] = @ - 1]
\* A commit while an inbound transaction holds what it has read.
NoteCommit == overlapped' = (overlapped \/ \E m \in Inbounds : held[m] # Idle)

Tick == clock < MaxTime /\ clock' = clock + 1
        /\ UNCHANGED <<conversationVars, messageVars, marketVars, providerVars, historyVars,
                       held, request, budget>>

-----------------------------------------------------------------------------
(* WhatsAppInboundService.receive                                          *)

Recorded(k) == \E i \in 1..Len(messages) : messages[i].key = k
AnyLock(m) == held[m] = Idle  \* Mutant: no lock on the phone
\* The advisory locks on the message's id and on the phone.
LocksFree(m) == \A n \in Inbounds : held[n] = Idle

\* The unlocked reading; a message already recorded is only answered.
Discover(m) ==
  /\ LocksFree(m) /\ ~Recorded(m)
  /\ held' = [held EXCEPT ![m] = row]
  /\ UNCHANGED <<conversationVars, messageVars, marketVars, providerVars, historyVars,
                 request, clock, budget>>

OpenWhatsApp(c) ==
  {o \in 1..Len(opportunities) :
     /\ opportunities[o].customer = c
     /\ opportunities[o].whatsapp /\ opportunities[o].status = "open"}
NewOpportunity(c, whatsapp) == [customer |-> c, whatsapp |-> whatsapp, status |-> "open"]

\* The customer's active WHATSAPP opportunity, or a new one, becomes the link.
LinkInbound(c) ==
  IF OpenWhatsApp(c) # {}
  THEN link' = Least(OpenWhatsApp(c)) /\ UNCHANGED opportunities
  ELSE /\ Len(opportunities) < MaxOpportunities
       /\ opportunities' = Append(opportunities, NewOpportunity(c, TRUE))
       /\ link' = Len(opportunities) + 1

InboundMessage(m, at) ==
  [inbound |-> TRUE, key |-> m, at |-> at, created |-> clock, dispatch |-> "NONE", retryOf |-> 0]

\* The conversation's values after the message, computed from what was read.
AfterInbound(read, at, ms) ==
  LET reviewed == read.customer # NoRow /\ customers[read.customer] = "deleted" IN
  Recomputed([read EXCEPT !.hidden = FALSE,
                          !.resolved = @ /\ ~reviewed,
                          !.unread = @ + 1,
                          !.lastInbound = Later(@, at)], ms, delivery)

\* A message of a known phone, provider_message_at = at.
Receive(m, at) ==
  LET read == held[m]
      ms == Append(messages, InboundMessage(m, at))
      value == AfterInbound(read, at, ms) IN
  /\ read \notin {Idle, NoRow}
  /\ messages' = ms
  /\ row' = Written(read, value, row)
  /\ IF value.resolved /\ value.customer # NoRow
     THEN LinkInbound(value.customer)
     ELSE UNCHANGED <<link, opportunities>>
  /\ held' = [held EXCEPT ![m] = Idle]
  /\ UNCHANGED <<delivery, events, customers, owners, providerVars, historyVars, request, clock, budget>>

\* CustomerIdentityResolver by phone: a deleted match or several need review,
\* none makes a customer.
FirstContact ==
  IF owners = {} THEN {c \in Customers : customers[c] = "absent"}
  ELSE IF Cardinality(owners) = 1 /\ \A c \in owners : customers[c] = "live" THEN owners
  ELSE {NoRow}

\* The first message of a phone creates the conversation.
ReceiveFirst(m, at) ==
  /\ held[m] = NoRow /\ row = NoRow
  /\ \E c \in FirstContact :
       /\ LET new == [customer |-> c, resolved |-> c # NoRow, hidden |-> FALSE, unread |-> 0,
                      since |-> 0, through |-> 0, lastInbound |-> 0]
              ms == Append(messages, InboundMessage(m, at))
          IN messages' = ms /\ row' = AfterInbound(new, at, ms)
       /\ IF c = NoRow
          THEN UNCHANGED <<link, opportunities, customers>>
          ELSE LinkInbound(c) /\ customers' = [customers EXCEPT ![c] = "live"]
       /\ owners' = owners \cup ({c} \ {NoRow})
  /\ held' = [held EXCEPT ![m] = Idle]
  /\ UNCHANGED <<delivery, events, providerVars, historyVars, request, clock, budget>>

\* The phone got its conversation in between: the unique key refuses the second.
CollideFirst(m) ==
  /\ held[m] = NoRow /\ row # NoRow
  /\ held' = [held EXCEPT ![m] = Idle]
  /\ UNCHANGED <<conversationVars, messageVars, marketVars, providerVars, historyVars,
                 request, clock, budget>>

\* The webhook's process dies; the provider sends the message again.
AbandonInbound(m) ==
  /\ held[m] # Idle
  /\ Spend("crashes")
  /\ held' = [held EXCEPT ![m] = Idle]
  /\ UNCHANGED <<conversationVars, messageVars, marketVars, providerVars, historyVars,
                 request, clock>>

-----------------------------------------------------------------------------
(* WhatsAppConversationService                                             *)

Command == Spend("commands") /\ NoteCommit
           /\ UNCHANGED <<delivery, events, customers, owners, providerVars, held, request, clock>>

MarkRead ==
  /\ Visible
  /\ row' = [row EXCEPT !.unread = 0]
  /\ readTo' = Len(messages)
  /\ Command /\ UNCHANGED <<link, messages, opportunities, handledTo, reassigned>>

HandledAll(ms) == Len(ms) + 1  \* Mutant: the cutoff lies beyond the last message
HandledLatest(ms) == Greatest(Received(ms))

MarkHandled ==
  /\ Visible /\ row.since # 0
  /\ LET handled == [row EXCEPT !.through = HandledLatest(messages)]
     IN row' = Recomputed(handled, messages, delivery)
  /\ handledTo' = Len(messages)
  /\ Command /\ UNCHANGED <<link, messages, opportunities, readTo, reassigned>>

Hide ==
  /\ Visible
  /\ row' = [row EXCEPT !.hidden = TRUE]
  /\ Command /\ UNCHANGED <<link, messages, opportunities, readTo, handledTo, reassigned>>

\* A user settles whose conversation it is; the link stays what it was.
Resolve(c) ==
  /\ Visible /\ customers[c] = "live"
  /\ row' = [row EXCEPT !.customer = c, !.resolved = TRUE]
  /\ reassigned' = (reassigned \/ (link # 0 /\ row.customer # c))
  /\ Command /\ UNCHANGED <<link, messages, opportunities, readTo, handledTo>>

Available(c) == c # NoRow /\ customers[c] = "live"

\* create_opportunity does not link what it creates.
CreateOpportunity ==
  /\ Visible /\ row.resolved /\ Available(row.customer)
  /\ OpenWhatsApp(row.customer) = {}
  /\ Len(opportunities) < MaxOpportunities
  /\ opportunities' = Append(opportunities, NewOpportunity(row.customer, TRUE))
  /\ Command /\ UNCHANGED <<row, link, messages, readTo, handledTo, reassigned>>

LinkableAny(r, o) == r.resolved /\ Available(r.customer)  \* Mutant: anybody's opportunity
\* The checks of link_opportunity_in_transaction.
Linkable(r, o) ==
  /\ r.resolved /\ Available(r.customer)
  /\ opportunities[o].status # "deleted" /\ opportunities[o].customer = r.customer

LinkOpportunity(o) ==
  /\ Visible /\ Linkable(row, o) /\ link # o
  /\ link' = o
  /\ Command /\ UNCHANGED <<row, messages, opportunities, readTo, handledTo, reassigned>>

Unlink ==
  /\ Visible /\ link # 0
  /\ link' = 0
  /\ Command /\ UNCHANGED <<row, messages, opportunities, readTo, handledTo, reassigned>>

\* open_or_create_for_opportunity for a customer with the conversation's phone:
\* creates it, or takes it over unless another live customer has it.
OpenForOpportunity(o) ==
  LET c == opportunities[o].customer IN
  /\ opportunities[o].status # "deleted" /\ customers[c] = "live" /\ c \in owners
  /\ row # NoRow => (Available(row.customer) => row.customer = c)
  /\ row' = IF row = NoRow
            THEN [customer |-> c, resolved |-> TRUE, hidden |-> FALSE, unread |-> 0,
                  since |-> 0, through |-> 0, lastInbound |-> 0]
            ELSE [row EXCEPT !.customer = c, !.resolved = TRUE, !.hidden = FALSE]
  /\ link' = o
  /\ Command /\ UNCHANGED <<messages, opportunities, readTo, handledTo, reassigned>>

\* Changes by other services: a customer is deleted, another source's
\* opportunity is created, an opportunity is closed or deleted.
Change == Spend("changes")
          /\ UNCHANGED <<conversationVars, messageVars, owners, providerVars, historyVars,
                         held, request, clock>>
DeleteCustomer(c) ==
  /\ customers[c] = "live"
  /\ customers' = [customers EXCEPT ![c] = "deleted"]
  /\ Change /\ UNCHANGED opportunities
AddOpportunity(c) ==
  /\ customers[c] = "live" /\ Len(opportunities) < MaxOpportunities
  /\ opportunities' = Append(opportunities, NewOpportunity(c, FALSE))
  /\ Change /\ UNCHANGED customers
EndOpportunity(o, s) ==
  /\ opportunities[o].status = "open"
  /\ opportunities' = [opportunities EXCEPT ![o].status = s]
  /\ Change /\ UNCHANGED customers

-----------------------------------------------------------------------------
(* WhatsAppMessageService.send                                             *)

WindowOpen == row.lastInbound # 0 /\ clock < row.lastInbound + Window

MessageOf(k) == {i \in 1..Len(messages) : messages[i].key = k}
\* Replies in the way of a new one, t the message it resends.
Unsettled(t) ==
  {i \in 1..Len(messages) :
     i # t /\ messages[i].dispatch \in {"PENDING", "IN_PROGRESS", "UNKNOWN"}}
\* _validate_retry
Resendable(t) == t # 0 => messages[t].dispatch \in {"DEFINITIVE_FAILED", "UNKNOWN"}

SendOpen(template) == Visible /\ row.resolved /\ Available(row.customer) /\ (template \/ WindowOpen)

\* _prepare of a new reply, maybe the explicit resend of message t.
Prepare(q, k, t, template) ==
  /\ request[q].step = "idle"
  /\ SendOpen(template) /\ MessageOf(k) = {}
  /\ Resendable(t) /\ Unsettled(t) = {}
  /\ messages' = Append(messages,
       [inbound |-> FALSE, key |-> k, at |-> 0, created |-> clock, dispatch |-> "PENDING", retryOf |-> t])
  /\ request' = [request EXCEPT ![q] = [step |-> "start", message |-> Len(messages) + 1, answer |-> "none"]]
  /\ Spend("replies") /\ NoteCommit
  /\ UNCHANGED <<conversationVars, delivery, events, marketVars, providerVars, held, clock,
                 readTo, handledTo, reassigned>>

\* _prepare with a client id that has its message: only a PENDING one goes on.
Repeat(q, k, template) ==
  /\ request[q].step = "idle" /\ SendOpen(template)
  /\ \E i \in MessageOf(k) :
       /\ messages[i].dispatch = "PENDING"
       /\ request' = [request EXCEPT ![q] = [step |-> "start", message |-> i, answer |-> "none"]]
  /\ UNCHANGED <<conversationVars, messageVars, marketVars, providerVars, historyVars, held, clock, budget>>

SetDispatch(i, s) == messages' = [messages EXCEPT ![i].dispatch = s]
StartableUnsettled(i) == messages[i].dispatch \in {"PENDING", "IN_PROGRESS"}  \* Mutant
Startable(i) == messages[i].dispatch = "PENDING"

GoTo(q, step, answer) ==
  request' = [request EXCEPT ![q] = IF step = "idle"
                                    THEN [step |-> "idle", message |-> 0, answer |-> "none"]
                                    ELSE [@ EXCEPT !.step = step, !.answer = answer]]

\* _start_dispatch of a reply
StartDispatch(q) ==
  LET i == request[q].message IN
  /\ request[q].step = "start"
  /\ IF Startable(i)
     THEN SetDispatch(i, "IN_PROGRESS") /\ GoTo(q, "call", "none") /\ NoteCommit
     ELSE UNCHANGED <<messages, overlapped>> /\ GoTo(q, "idle", "none")
  /\ UNCHANGED <<conversationVars, delivery, events, marketVars, providerVars, held, clock, budget,
                 readTo, handledTo, reassigned>>

\* The provider call: accepted, refused, or no way to know.
Call(q, accepted, answer) ==
  LET i == request[q].message IN
  /\ request[q].step = "call"
  /\ answer = "accepted" => accepted
  /\ answer = "refused" => ~accepted
  /\ calls' = [calls EXCEPT ![i] = @ + 1]
  /\ wire' = IF accepted THEN [wire EXCEPT ![i] = clock] ELSE wire
  /\ GoTo(q, "reconcile", answer)
  /\ UNCHANGED <<conversationVars, messageVars, marketVars, historyVars, held, clock, budget>>

Settles(i) == messages[i].dispatch = "IN_PROGRESS"

\* _reconcile_success: the reply's events are attached, and the projection is
\* computed from the rows as they were.
ReconcileAccepted(q) ==
  LET i == request[q].message IN
  /\ request[q].step = "reconcile" /\ request[q].answer = "accepted"
  /\ IF Settles(i)
     THEN /\ messages' = [messages EXCEPT ![i].dispatch = "ACCEPTED", ![i].at = wire[i]]
          /\ events' = Attached(i)
          /\ delivery' = [delivery EXCEPT ![i] = DeliveryAttached(i)]
          /\ row' = Recomputed(row, messages, delivery)
          /\ NoteCommit
     ELSE UNCHANGED <<messageVars, row, overlapped>>
  /\ GoTo(q, "idle", "none")
  /\ UNCHANGED <<link, marketVars, providerVars, held, clock, budget, readTo, handledTo, reassigned>>

\* _reconcile_error
ReconcileError(q) ==
  LET i == request[q].message IN
  /\ request[q].step = "reconcile" /\ request[q].answer # "accepted"
  /\ IF Settles(i)
     THEN SetDispatch(i, IF request[q].answer = "unknown" THEN "UNKNOWN" ELSE "DEFINITIVE_FAILED")
     ELSE UNCHANGED messages
  /\ GoTo(q, "idle", "none")
  /\ UNCHANGED <<conversationVars, delivery, events, marketVars, providerVars, historyVars, held, clock, budget>>

\* The request's process dies.
AbandonRequest(q) ==
  /\ request[q].step # "idle"
  /\ Spend("crashes")
  /\ GoTo(q, "idle", "none")
  /\ UNCHANGED <<conversationVars, messageVars, marketVars, providerVars, historyVars, held, clock>>

-----------------------------------------------------------------------------
(* WhatsAppStatusService.record                                            *)

\* The provider's clock: a message is sent before it is delivered and read,
\* and reaches a state once.
Plausible(i, s, at) ==
  \A n \in 1..Len(events) :
    events[n].message = i =>
      /\ events[n].state = s => events[n].at = at
      /\ (s # "FAILED" /\ events[n].state # "FAILED") =>
           /\ Rank(s) > Rank(events[n].state) => at >= events[n].at
           /\ Rank(s) < Rank(events[n].state) => at <= events[n].at

\* external_message_id of message i is stored
Matched(i) == messages[i].dispatch = "ACCEPTED"

Record(i, s, at) ==
  LET new == [message |-> i, state |-> s, at |-> at, attached |-> Matched(i)]
      known == {n \in 1..Len(events) : events[n].message = i /\ events[n].state = s} IN
  /\ wire[i] # 0 /\ at >= wire[i] /\ Plausible(i, s, at)
  /\ IF known = {} THEN Spend("reports") ELSE UNCHANGED budget
  /\ events' = IF known = {} THEN Append(events, new)
               ELSE [n \in 1..Len(events) |->
                       IF n \in known /\ Matched(i) THEN new ELSE events[n]]
  /\ IF Matched(i)
     THEN /\ delivery' = [delivery EXCEPT ![i] = Applied(@, new)]
          /\ row' = Recomputed(row, messages, delivery)
          /\ NoteCommit
     ELSE UNCHANGED <<delivery, row, overlapped>>
  /\ UNCHANGED <<link, messages, marketVars, providerVars, held, request, clock,
                 readTo, handledTo, reassigned>>

-----------------------------------------------------------------------------
Next ==
  \/ Tick
  \/ \E m \in Inbounds : Discover(m) \/ CollideFirst(m) \/ AbandonInbound(m)
  \/ \E m \in Inbounds, at \in {clock - 1, clock} \ {0} : Receive(m, at) \/ ReceiveFirst(m, at)
  \/ MarkRead \/ MarkHandled \/ Hide \/ CreateOpportunity \/ Unlink
  \/ \E c \in Customers : Resolve(c) \/ DeleteCustomer(c) \/ AddOpportunity(c)
  \/ \E o \in 1..Len(opportunities) :
       \/ LinkOpportunity(o) \/ OpenForOpportunity(o)
       \/ \E s \in {"closed", "deleted"} : EndOpportunity(o, s)
  \/ \E q \in Requests, k \in Replies, template \in BOOLEAN :
       \/ \E t \in {0} \cup {i \in 1..Len(messages) : ~messages[i].inbound} : Prepare(q, k, t, template)
       \/ Repeat(q, k, template)
  \/ \E q \in Requests :
       \/ StartDispatch(q) \/ ReconcileAccepted(q) \/ ReconcileError(q) \/ AbandonRequest(q)
       \/ \E accepted \in BOOLEAN, answer \in {"accepted", "refused", "unknown"} :
            Call(q, accepted, answer)
  \/ \E i \in 1..Len(messages), s \in Reports, at \in 1..clock : Record(i, s, at)

Spec == Init /\ [][Next]_vars

-----------------------------------------------------------------------------
(* Properties                                                              *)

\* Type invariant; only a conversation with a customer is resolved, and no
\* message id has two rows.
TypeOK ==
  /\ row \in Rows \cup {NoRow}
  /\ row # NoRow => (row.resolved => row.customer # NoRow)
  /\ messages \in Seq(Messages) /\ Len(messages) <= MaxMessages
  /\ events \in Seq(Events)
  /\ customers \in [Customers -> {"absent", "live", "deleted"}] /\ owners \subseteq Customers
  /\ opportunities \in Seq(Opportunities) /\ link \in 0..Len(opportunities)
  /\ held \in [Inbounds -> Rows \cup {NoRow, Idle}]
  /\ request \in [Requests -> [step : {"idle", "start", "call", "reconcile"}, message : Nat,
                               answer : {"none", "accepted", "refused", "unknown"}]]
  /\ wire \in [1..MaxMessages -> Nat] /\ calls \in [1..MaxMessages -> Nat]
  /\ clock \in Nat \ {0} /\ readTo \in 0..Len(messages) /\ handledTo \in 0..Len(messages)
  /\ overlapped \in BOOLEAN /\ reassigned \in BOOLEAN

\* The unread count never hides a message: it is at least the number of
\* inbound messages recorded since the conversation was last read, and just
\* that number unless a commit came between a webhook's reading and its use
\* (receive() increments what it read; the phone's advisory lock orders the
\* webhooks themselves).
UnreadIsSeen ==
  row # NoRow =>
    LET new == Cardinality({i \in Received(messages) : i > readTo}) IN
    row.unread >= new /\ (~overlapped => row.unread = new)

\* Every inbound message was handled, or is older than an accepted reply that
\* has not failed.
NothingOwed ==
  \A i \in Received(messages) :
    \/ i <= handledTo
    \/ \E j \in 1..Len(messages) :
         /\ messages[j].dispatch = "ACCEPTED" /\ delivery[j].state # "FAILED"
         /\ messages[j].at >= messages[i].at

Failed == \E n \in 1..Len(events) : events[n].state = "FAILED"

\* While the provider reports no failed delivery and no commit comes between
\* a reading and its use, a conversation that does not wait owes no answer:
\* waiting_for_response lags behind the replies, never ahead of them.
UnansweredIsWaiting ==
  row # NoRow /\ ~overlapped /\ ~Failed /\ row.since = 0 => NothingOwed

\* The same when deliveries fail, as the tests expect: a reply that failed
\* leaves its conversation waiting.
FailedDeliveryWaits ==
  row # NoRow /\ ~overlapped /\ row.since = 0 => NothingOwed

\* The replies whose fate is open.
Open == {i \in 1..Len(messages) : messages[i].dispatch \in {"PENDING", "IN_PROGRESS", "UNKNOWN"}}

\* No reply is sent beside another of open fate, except the explicit resend
\* of one of unknown acceptance; and no reply is handed to the provider twice,
\* however often its request is repeated, concurrently or after a crash.
OneReplyAtATime ==
  /\ \A i \in 1..MaxMessages : calls[i] <= 1
  /\ \A i, j \in Open : i < j => messages[i].dispatch = "UNKNOWN" /\ messages[j].retryOf = i

\* A user can always reply to an open conversation when nothing is under way,
\* if need be as the explicit resend of a message of unknown acceptance.
ReplyIsPossible ==
  (\A q \in Requests : request[q].step = "idle") =>
    \E t \in {0} \cup 1..Len(messages) : Resendable(t) /\ Unsettled(t) = {}

EvidenceOf(i) == {n \in 1..Len(events) : events[n].message = i}

\* Delivery evidence reaches its message, whether it comes before or after the
\* provider's answer, twice or in any order; it is never lost, and later or
\* weaker evidence does not take back what a stronger event has shown.
DeliveryFollowsEvidence ==
  \A i \in 1..Len(messages) :
    messages[i].dispatch = "ACCEPTED" =>
      /\ \A n \in EvidenceOf(i) : events[n].attached
      /\ EvidenceOf(i) = {} <=> delivery[i].state = "NONE"
      /\ delivery[i].state \notin {"NONE", "FAILED"} =>
           \A n \in EvidenceOf(i) : Rank(events[n].state) <= Rank(delivery[i].state)

\* The active link leads to an opportunity of the conversation's customer,
\* unless a user gave the conversation to another one or a commit came between
\* a webhook's reading and its use.
LinkFollowsCustomer ==
  link # 0 /\ ~reassigned /\ ~overlapped => opportunities[link].customer = row.customer
=============================================================================
