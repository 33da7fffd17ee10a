----------------------------- MODULE InboxProofs -----------------------------
(***************************************************************************)
(* Theorems of Inbox for every number of messages, replies, requests and   *)
(* opportunities: the unread count and the waiting flag hide nothing, one  *)
(* reply is open at a time, and the link follows the customer.             *)
(***************************************************************************)
EXTENDS Inbox, Inductions

\* What the types rest on: ids are recorded once, and one webhook at a time
\* records, for a message that is not recorded yet.
KeysAreDistinct ==
  \A i, j \in 1..Len(messages) : messages[i].key = messages[j].key => i = j
InboundOK ==
  \A i \in 1..Len(messages) :
    messages[i].inbound => messages[i].at # 0 /\ messages[i].dispatch = "NONE"
OneWebhook ==
  \A m \in Inbounds :
    held[m] # Idle =>
      /\ ~Recorded(m) /\ \A n \in Inbounds \ {m} : held[n] = Idle
      /\ held[m] # NoRow => row # NoRow
RowOK ==
  /\ row = NoRow => messages = <<>>
  /\ row # NoRow /\ row.since # 0 => Received(messages) # {}

\* A request under way has a reply.
RequestOK ==
  \A q \in Requests :
    request[q].step # "idle" =>
      request[q].message \in 1..Len(messages) /\ ~messages[request[q].message].inbound

TInv == TypeOK /\ KeysAreDistinct /\ InboundOK /\ OneWebhook /\ RowOK /\ RequestOK

RowFields ==
  {"customer", "resolved", "hidden", "unread", "since", "through", "lastInbound"}

-----------------------------------------------------------------------------
(* What the operators of the projection return.                            *)

LEMMA LeastIs ==
  ASSUME NEW T \in SUBSET Nat, T # {}
  PROVE  Least(T) \in T /\ \A t \in T : Least(T) <= t
BY LeastExists DEF Least

LEMMA GreatestIs ==
  ASSUME NEW T \in SUBSET Nat, IsFiniteSet(T), T # {}
  PROVE  Greatest(T) \in T /\ \A t \in T : t <= Greatest(T)
BY GreatestExists DEF Greatest

LEMMA ReceivedIs ==
  ASSUME NEW ms \in Seq(Messages)
  PROVE  /\ Received(ms) \in SUBSET (1..Len(ms)) /\ Received(ms) \in SUBSET Nat
         /\ IsFiniteSet(Received(ms))
<1>1. IsFiniteSet(1..Len(ms))
  BY FS_Interval
<1>2. Received(ms) \subseteq 1..Len(ms)
  BY DEF Received
<1> QED BY <1>1, <1>2, FS_Subset

LEMMA MessageIs ==
  ASSUME NEW ms \in Seq(Messages), NEW i \in 1..Len(ms)
  PROVE  /\ ms[i] \in Messages /\ ms[i].at \in Nat /\ ms[i].inbound \in BOOLEAN
         /\ ms[i].dispatch \in DispatchStates
<1>1. ms[i] \in Messages
  OBVIOUS
<1> QED BY <1>1 DEF Messages

LEMMA AnsweredAtIs ==
  ASSUME NEW ms \in Seq(Messages), NEW ds
  PROVE  /\ AnsweredAt(ms, ds) \in Nat
         /\ AnsweredAt(ms, ds) # 0 =>
              \E j \in 1..Len(ms) : Valid(ms, ds, j) /\ ms[j].at = AnsweredAt(ms, ds)
<1> DEFINE J == {j \in 1..Len(ms) : Valid(ms, ds, j)}
           f == [j \in J |-> ms[j].at]
           T == {0} \cup {ms[i].at : i \in J}
<1>1. IsFiniteSet(J)
  <2>1. IsFiniteSet(1..Len(ms)) /\ J \subseteq 1..Len(ms)
    BY FS_Interval
  <2> QED BY <2>1, FS_Subset
<1>2. \A j \in J : ms[j].at \in Nat
  BY MessageIs
<1>3. DOMAIN f = J /\ {f[j] : j \in J} = {ms[i].at : i \in J}
  OBVIOUS
<1>4. AnsweredAt(ms, ds) = Greatest(T)
  BY DEF AnsweredAt
<1> HIDE DEF J, f
<1>5. IsFiniteSet({ms[i].at : i \in J})
  <2>1. IsFiniteSet({f[j] : j \in J})
    BY <1>1, <1>3, ImageIsFinite
  <2> QED BY <1>3, <2>1
<1>6. IsFiniteSet(T)
  BY <1>5, FS_AddElement
<1>7. T \in SUBSET Nat /\ T # {}
  BY <1>2
<1>8. Greatest(T) \in T
  BY <1>6, <1>7, GreatestIs
<1> QED BY <1>4, <1>7, <1>8 DEF J

\* The projection waits for an inbound message, and what it does not wait for
\* is handled or answered.
LEMMA SinceIs ==
  ASSUME NEW ms \in Seq(Messages), NEW ds, NEW through \in Nat,
         \A i \in 1..Len(ms) : ms[i].inbound => ms[i].at # 0
  PROVE  /\ Since(ms, ds, through) \in Nat
         /\ Since(ms, ds, through) # 0 => Received(ms) # {}
         /\ Since(ms, ds, through) = 0 =>
              \A i \in Received(ms) :
                \/ i <= through
                \/ \E j \in 1..Len(ms) : Valid(ms, ds, j) /\ ms[i].at <= ms[j].at
<1> DEFINE W == Unanswered(ms, ds, through)
           A == AnsweredAt(ms, ds)
           T == {ms[i].at : i \in W}
<1>1. W \subseteq Received(ms)
  BY DEF Unanswered
<1>2. \A i \in Received(ms) : i \in 1..Len(ms) /\ ms[i].at \in Nat \ {0}
  BY MessageIs DEF Received
<1>3. T \in SUBSET Nat /\ 0 \notin T
  BY <1>1, <1>2
<1>4. Since(ms, ds, through) = IF W = {} THEN 0 ELSE Least(T)
  BY DEF Since
<1>5. W # {} => Least(T) \in T
  <2>1. W # {} => T # {}
    OBVIOUS
  <2> HIDE DEF T, W
  <2> QED BY <1>3, <2>1, LeastIs
<1>6. \A i \in Received(ms) \ W : i <= through \/ ms[i].at <= A
  <2>1. A \in Nat
    BY AnsweredAtIs
  <2>2. \A i \in Received(ms) \ W : ~(i > through) \/ ~(ms[i].at > A)
    BY DEF Unanswered
  <2> HIDE DEF A
  <2> QED BY <1>2, <2>1, <2>2
<1>7. ASSUME NEW i \in Received(ms) \ W, ~(i <= through)
      PROVE  \E j \in 1..Len(ms) : Valid(ms, ds, j) /\ ms[i].at <= ms[j].at
  <2>1. ms[i].at <= A /\ ms[i].at \in Nat \ {0} /\ A \in Nat
    BY <1>2, <1>6, <1>7, AnsweredAtIs
  <2>2. A # 0
    BY <2>1
  <2>3. PICK j \in 1..Len(ms) : Valid(ms, ds, j) /\ ms[j].at = A
    BY <2>2, AnsweredAtIs
  <2> QED BY <2>1, <2>3
<1> HIDE DEF W, T
<1>8. CASE W = {}
  BY <1>4, <1>7, <1>8
<1>9. CASE W # {}
  BY <1>1, <1>3, <1>4, <1>5, <1>9
<1> QED BY <1>8, <1>9

LEMMA RecomputedIs ==
  ASSUME NEW r \in Rows, NEW ms \in Seq(Messages), NEW ds,
         \A i \in 1..Len(ms) : ms[i].inbound => ms[i].at # 0
  PROVE  /\ Recomputed(r, ms, ds) \in Rows
         /\ Recomputed(r, ms, ds).since = Since(ms, ds, r.through)
         /\ \A f \in RowFields \ {"since"} : Recomputed(r, ms, ds)[f] = r[f]
<1>1. r.through \in Nat
  BY DEF Rows
<1>2. Since(ms, ds, r.through) \in Nat
  BY <1>1, SinceIs
<1> HIDE DEF Rows
<1>3. [r EXCEPT !.since = Since(ms, ds, r.through)] \in Rows
  BY <1>2 DEF Rows
<1>4. r.since \in Nat /\ DOMAIN r = RowFields
  BY DEF Rows, RowFields
<1> QED BY <1>3, <1>4 DEF Recomputed, RowFields

OneMore(n) == n + 1

\* What receive() makes of what it has read.
LEMMA AfterInboundIs ==
  ASSUME NEW read \in Rows, NEW at \in Nat, NEW ms \in Seq(Messages),
         \A i \in 1..Len(ms) : ms[i].inbound => ms[i].at # 0
  PROVE  LET value == AfterInbound(read, at, ms) IN
         /\ value \in Rows
         /\ value.unread = OneMore(read.unread) /\ value.customer = read.customer
         /\ value.through = read.through /\ value.hidden = FALSE
         /\ value.since = Since(ms, delivery, read.through)
         /\ value.resolved => read.resolved
<1> DEFINE reviewed == read.customer # NoRow /\ customers[read.customer] = "deleted"
           r == [read EXCEPT !.hidden = FALSE, !.resolved = @ /\ ~reviewed,
                             !.unread = @ + 1, !.lastInbound = Later(@, at)]
<1>1. /\ r \in Rows /\ r.unread = read.unread + 1 /\ r.customer = read.customer
      /\ r.through = read.through /\ r.hidden = FALSE /\ (r.resolved => read.resolved)
  <2>1. /\ DOMAIN read = RowFields /\ read.unread \in Nat /\ read.lastInbound \in Nat
        /\ read.resolved \in BOOLEAN
    BY DEF Rows, RowFields
  <2>2. Later(read.lastInbound, at) \in Nat /\ read.unread + 1 \in Nat
    BY <2>1 DEF Later
  <2>3. (read.resolved /\ ~reviewed) \in BOOLEAN
    OBVIOUS
  <2> DEFINE resolved == read.resolved /\ ~reviewed
             later == Later(read.lastInbound, at)
             unread == read.unread + 1
             s == [read EXCEPT !.hidden = FALSE, !.resolved = resolved,
                               !.unread = unread, !.lastInbound = later]
  <2>4. r = s
    OBVIOUS
  <2>5. resolved => read.resolved
    OBVIOUS
  <2> HIDE DEF resolved, later, unread, r
  <2>6. s \in Rows
    BY <2>2, <2>3 DEF Rows, resolved, later, unread
  <2>7. /\ s.unread = unread /\ s.customer = read.customer
        /\ s.through = read.through /\ s.hidden = FALSE
    BY <2>1 DEF RowFields
  <2>8. s.resolved = resolved
    BY <2>1 DEF RowFields
  <2> QED BY <2>4, <2>5, <2>6, <2>7, <2>8 DEF unread
<1>2. AfterInbound(read, at, ms) = Recomputed(r, ms, delivery)
  BY DEF AfterInbound
<1> HIDE DEF r
<1>3. /\ Recomputed(r, ms, delivery) \in Rows
      /\ Recomputed(r, ms, delivery).since = Since(ms, delivery, r.through)
      /\ \A f \in RowFields \ {"since"} : Recomputed(r, ms, delivery)[f] = r[f]
  BY <1>1, RecomputedIs
<1> QED BY <1>1, <1>2, <1>3 DEF RowFields, OneMore

LEMMA WrittenIs ==
  ASSUME NEW read \in Rows, NEW value \in Rows, NEW current \in Rows
  PROVE  /\ Written(read, value, current) \in Rows
         /\ \A f \in RowFields : Written(read, value, current)[f]
                                   = IF value[f] # read[f] THEN value[f] ELSE current[f]
<1>1. DOMAIN current = RowFields
  BY DEF Rows, RowFields
<1>2. Written(read, value, current)
        = [f \in RowFields |-> IF value[f] # read[f] THEN value[f] ELSE current[f]]
  BY <1>1 DEF Written
<1> QED BY <1>2 DEF Rows, RowFields
-----------------------------------------------------------------------------
(* Types.                                                                  *)

\* As many messages as ids.
LEMMA MessagesAreBounded ==
  ASSUME NEW ms \in Seq(Messages),
         \A i, j \in 1..Len(ms) : ms[i].key = ms[j].key => i = j
  PROVE  Len(ms) <= MaxMessages
<1> DEFINE K == Inbounds \cup Replies
           f == [i \in 1..Len(ms) |-> ms[i].key]
<1>1. \A i \in 1..Len(ms) : ms[i].key \in K
  BY MessageIs DEF Messages
<1>2. f \in Injection(1..Len(ms), K)
  <2>1. f \in [1..Len(ms) -> K] /\ \A i, j \in 1..Len(ms) : f[i] = f[j] => i = j
    BY <1>1
  <2> HIDE DEF f, K
  <2> QED BY <2>1 DEF Injection, IsInjective
<1>3. IsFiniteSet(Inbounds) /\ IsFiniteSet(Replies) /\ Inbounds \cap Replies = {}
  BY InboxAssumption
<1>4. /\ IsFiniteSet(K) /\ Cardinality(Inbounds) \in Nat /\ Cardinality(Replies) \in Nat
      /\ Cardinality(K) = Cardinality(Inbounds) + Cardinality(Replies)
                            - Cardinality(Inbounds \cap Replies)
  BY <1>3, FS_Union, FS_CardinalityType
<1>5. Cardinality(Inbounds \cap Replies) = 0
  BY <1>3, FS_EmptySet
<1>6. Cardinality(1..Len(ms)) = Len(ms) /\ Len(ms) \in Nat
  BY FS_Interval
<1> HIDE DEF f
<1>7. Cardinality(1..Len(ms)) <= Cardinality(K)
  BY <1>2, <1>4, FS_Injection
<1>8. MaxMessages = Cardinality(K)
  BY <1>4, <1>5 DEF MaxMessages
<1> QED BY <1>6, <1>7, <1>8

\* What NoteCommit leaves of a reading: none that is still used.
Commits ==
  /\ overlapped' \in BOOLEAN
  /\ ~overlapped' => ~overlapped /\ \A m \in Inbounds : held[m] = Idle

\* Steps that change the conversation and its link, or less.
LEMMA ConversationTyped ==
  ASSUME TInv,
         UNCHANGED <<messages, events, owners, wire, calls, held, request, clock>>,
         row' \in Rows \/ row' = row,
         row' # NoRow => (row'.resolved => row'.customer # NoRow),
         row' # NoRow /\ row'.since # 0 => Received(messages) # {},
         customers' \in [Customers -> {"absent", "live", "deleted"}],
         opportunities' \in Seq(Opportunities), link' \in 0..Len(opportunities'),
         readTo' \in 0..Len(messages), handledTo' \in 0..Len(messages),
         overlapped' \in BOOLEAN, reassigned' \in BOOLEAN
  PROVE  TInv'
<1>1. row' \in Rows \cup {NoRow} /\ (row # NoRow => row' # NoRow)
  BY NoRowIsNone DEF TInv, TypeOK
<1>2. TypeOK'
  BY <1>1 DEF TInv, TypeOK
<1>3. KeysAreDistinct' /\ InboundOK'
  BY DEF TInv, KeysAreDistinct, InboundOK
<1>4. OneWebhook'
  BY <1>1 DEF TInv, OneWebhook, Recorded
<1>5. RowOK'
  BY <1>1 DEF TInv, RowOK
<1>6. RequestOK'
  BY DEF TInv, RequestOK
<1> QED BY <1>2, <1>3, <1>4, <1>5, <1>6 DEF TInv

LEMMA RowIs ==
  ASSUME TInv, row # NoRow
  PROVE  /\ row \in Rows /\ DOMAIN row = RowFields
         /\ row.unread \in Nat /\ row.since \in Nat /\ row.through \in Nat
         /\ row.customer \in Customers \cup {NoRow} /\ row.resolved \in BOOLEAN
         /\ row.resolved => row.customer # NoRow
         /\ row.since # 0 => Received(messages) # {}
<1>1. row \in Rows
  BY DEF TInv, TypeOK
<1> QED BY <1>1 DEF TInv, TypeOK, RowOK, Rows, RowFields

LEMMA TypesGive ==
  ASSUME TInv
  PROVE  /\ messages \in Seq(Messages) /\ Len(messages) \in Nat /\ events \in Seq(Events)
         /\ opportunities \in Seq(Opportunities) /\ Len(opportunities) \in Nat
         /\ link \in 0..Len(opportunities)
         /\ readTo \in 0..Len(messages) /\ handledTo \in 0..Len(messages)
         /\ overlapped \in BOOLEAN /\ reassigned \in BOOLEAN
         /\ customers \in [Customers -> {"absent", "live", "deleted"}]
         /\ \A i \in 1..Len(messages) : messages[i].inbound => messages[i].at # 0
BY DEF TInv, TypeOK, InboundOK

LEMMA OpportunitiesGrow ==
  ASSUME TInv, NEW o \in Opportunities, opportunities' = Append(opportunities, o)
  PROVE  /\ opportunities' \in Seq(Opportunities)
         /\ Len(opportunities') = Len(opportunities) + 1
         /\ opportunities'[Len(opportunities) + 1] = o
         /\ \A p \in 1..Len(opportunities) : opportunities'[p] = opportunities[p]
<1>1. opportunities \in Seq(Opportunities)
  BY TypesGive
<1> QED BY <1>1

LEMMA NewOpportunityIs ==
  ASSUME NEW c \in Customers, NEW whatsapp \in BOOLEAN
  PROVE  NewOpportunity(c, whatsapp) \in Opportunities /\ NewOpportunity(c, whatsapp).customer = c
BY DEF NewOpportunity, Opportunities

\* What a command leaves alone, and what NoteCommit sets.
LEMMA CommandIs ==
  ASSUME TInv, Command
  PROVE  /\ UNCHANGED <<delivery, events, customers, owners, wire, calls, held, request, clock>>
         /\ overlapped' \in BOOLEAN
         /\ ~overlapped' => ~overlapped /\ \A m \in Inbounds : held[m] = Idle
BY Zenon DEF Command, NoteCommit, Commits, providerVars

LEMMA HandledIs ==
  ASSUME TInv, MarkHandled
  PROVE  /\ row \in Rows /\ row # NoRow /\ HandledLatest(messages) \in Received(messages)
         /\ row' \in Rows /\ row'.resolved = row.resolved /\ row'.customer = row.customer
         /\ row'.unread = row.unread /\ row'.through = HandledLatest(messages)
<1>1. row \in Rows /\ DOMAIN row = RowFields /\ row # NoRow /\ Received(messages) # {}
  BY RowIs DEF MarkHandled, Visible
<1> DEFINE handled == [row EXCEPT !.through = HandledLatest(messages)]
<1>2. HandledLatest(messages) \in Received(messages) /\ HandledLatest(messages) \in Nat
  BY <1>1, ReceivedIs, GreatestIs, TypesGive DEF HandledLatest
<1>3. /\ handled \in Rows /\ handled.resolved = row.resolved /\ handled.unread = row.unread
      /\ handled.customer = row.customer /\ handled.through = HandledLatest(messages)
  BY <1>1, <1>2 DEF Rows, RowFields
<1>4. row' = Recomputed(handled, messages, delivery)
  BY DEF MarkHandled
<1> HIDE DEF handled
<1>5. row' \in Rows /\ \A f \in RowFields \ {"since"} : row'[f] = handled[f]
  BY <1>3, <1>4, RecomputedIs, TypesGive
<1> QED BY <1>1, <1>2, <1>3, <1>5 DEF RowFields

LEMMA OpenIs ==
  ASSUME TInv, NEW o \in 1..Len(opportunities), OpenForOpportunity(o)
  PROVE  /\ link' = o /\ row' \in Rows /\ row'.customer = opportunities[o].customer
         /\ row'.customer # NoRow
         /\ row = NoRow => row'.unread = 0 /\ row'.since = 0 /\ row'.through = 0
         /\ row # NoRow => /\ row'.unread = row.unread /\ row'.since = row.since
                           /\ row'.through = row.through
         /\ UNCHANGED <<messages, opportunities, readTo, handledTo, reassigned>>
<1> DEFINE c == opportunities[o].customer
<1>1. c \in Customers /\ c # NoRow
  <2>1. opportunities[o] \in Opportunities
    BY TypesGive
  <2> QED BY <2>1, InboxAssumption DEF Opportunities
<1>2. /\ link' = o
      /\ row' = IF row = NoRow
                THEN [customer |-> c, resolved |-> TRUE, hidden |-> FALSE, unread |-> 0,
                      since |-> 0, through |-> 0, lastInbound |-> 0]
                ELSE [row EXCEPT !.customer = c, !.resolved = TRUE, !.hidden = FALSE]
      /\ UNCHANGED <<messages, opportunities, readTo, handledTo, reassigned>>
  BY DEF OpenForOpportunity
<1> HIDE DEF c
<1>3. CASE row = NoRow
  <2>1. /\ row' \in Rows /\ row'.customer = c /\ row'.unread = 0 /\ row'.since = 0
        /\ row'.through = 0
    BY <1>1, <1>2, <1>3 DEF Rows
  <2> QED BY <1>1, <1>2, <1>3, <2>1 DEF c
<1>4. CASE row # NoRow
  <2>1. row \in Rows /\ DOMAIN row = RowFields
    BY <1>4, RowIs
  <2>2. /\ row' \in Rows /\ row'.customer = c /\ row'.since = row.since
        /\ row'.unread = row.unread /\ row'.through = row.through
    BY <1>1, <1>2, <1>4, <2>1 DEF Rows, RowFields
  <2> QED BY <1>1, <1>2, <1>4, <2>2 DEF c
<1> QED BY <1>3, <1>4

Commands ==
  \/ MarkRead \/ MarkHandled \/ Hide \/ CreateOpportunity \/ Unlink
  \/ \E c \in Customers : Resolve(c)
  \/ \E o \in 1..Len(opportunities) : LinkOpportunity(o) \/ OpenForOpportunity(o)

LEMMA CommandsTyped ==
  ASSUME TInv, Commands
  PROVE  TInv'
<1>1. Command
  BY DEF Commands, MarkRead, MarkHandled, Hide, CreateOpportunity, Unlink, Resolve,
         LinkOpportunity, OpenForOpportunity
<1>2. /\ UNCHANGED <<events, owners, wire, calls, held, request, clock>>
      /\ overlapped' \in BOOLEAN
      /\ customers' \in [Customers -> {"absent", "live", "deleted"}]
  BY <1>1, CommandIs, TypesGive
<1>3. CASE MarkRead
  <2>1. row \in Rows /\ DOMAIN row = RowFields /\ row # NoRow
    BY <1>3, RowIs DEF MarkRead, Visible
  <2>2. /\ row' \in Rows /\ row'.resolved = row.resolved /\ row'.customer = row.customer
        /\ row'.since = row.since
    BY <1>3, <2>1 DEF MarkRead, Rows, RowFields
  <2>3. UNCHANGED <<link, messages, opportunities, handledTo, reassigned>> /\ readTo' = Len(messages)
    BY <1>3 DEF MarkRead
  <2> QED BY <1>2, <2>1, <2>2, <2>3, RowIs, TypesGive, ConversationTyped
<1>4. CASE MarkHandled
  <2>1. /\ row \in Rows /\ row # NoRow /\ Received(messages) # {}
        /\ row' \in Rows /\ row'.resolved = row.resolved /\ row'.customer = row.customer
    BY <1>4, HandledIs
  <2>2. UNCHANGED <<link, messages, opportunities, readTo, reassigned>> /\ handledTo' = Len(messages)
    BY <1>4 DEF MarkHandled
  <2> QED BY <1>2, <2>1, <2>2, RowIs, TypesGive, ConversationTyped
<1>5. CASE Hide
  <2>1. row \in Rows /\ DOMAIN row = RowFields /\ row # NoRow
    BY <1>5, RowIs DEF Hide, Visible
  <2>2. /\ row' \in Rows /\ row'.resolved = row.resolved /\ row'.customer = row.customer
        /\ row'.since = row.since
    BY <1>5, <2>1 DEF Hide, Rows, RowFields
  <2>3. UNCHANGED <<link, messages, opportunities, readTo, handledTo, reassigned>>
    BY <1>5 DEF Hide
  <2> QED BY <1>2, <2>1, <2>2, <2>3, RowIs, TypesGive, ConversationTyped
<1>6. CASE CreateOpportunity
  <2>1. /\ row # NoRow /\ row.customer \in Customers
        /\ opportunities' = Append(opportunities, NewOpportunity(row.customer, TRUE))
        /\ UNCHANGED <<row, link, messages, readTo, handledTo, reassigned>>
    BY <1>6, RowIs DEF CreateOpportunity, Visible, Available
  <2>2. /\ opportunities' \in Seq(Opportunities)
        /\ Len(opportunities') = Len(opportunities) + 1
    BY <2>1, NewOpportunityIs, OpportunitiesGrow
  <2> QED BY <1>2, <2>1, <2>2, RowIs, TypesGive, ConversationTyped
<1>7. CASE Unlink
  <2>1. link' = 0 /\ UNCHANGED <<row, messages, opportunities, readTo, handledTo, reassigned>>
    BY <1>7 DEF Unlink
  <2> QED BY <1>2, <2>1, RowIs, TypesGive, ConversationTyped
<1>8. ASSUME NEW c \in Customers, Resolve(c)
      PROVE  TInv'
  <2>1. row \in Rows /\ DOMAIN row = RowFields /\ row # NoRow
    BY <1>8, RowIs DEF Resolve, Visible
  <2>2. /\ row' \in Rows /\ row'.customer # NoRow /\ row'.since = row.since
    BY <1>8, <2>1, InboxAssumption DEF Resolve, Rows, RowFields
  <2>3. UNCHANGED <<link, messages, opportunities, readTo, handledTo>>
    BY <1>8 DEF Resolve
  <2>4. reassigned' \in BOOLEAN
    BY <1>8, Zenon DEF Resolve
  <2> QED BY <1>2, <2>1, <2>2, <2>3, <2>4, RowIs, TypesGive, ConversationTyped
<1>9. ASSUME NEW o \in 1..Len(opportunities), LinkOpportunity(o)
      PROVE  TInv'
  <2>1. link' = o /\ UNCHANGED <<row, messages, opportunities, readTo, handledTo, reassigned>>
    BY <1>9 DEF LinkOpportunity
  <2> QED BY <1>2, <2>1, RowIs, TypesGive, ConversationTyped
<1>10. ASSUME NEW o \in 1..Len(opportunities), OpenForOpportunity(o)
       PROVE  TInv'
  <2>1. /\ link' = o /\ row' \in Rows /\ row'.customer # NoRow
        /\ row'.since # 0 => row # NoRow /\ row.since # 0
        /\ UNCHANGED <<messages, opportunities, readTo, handledTo, reassigned>>
    BY <1>10, OpenIs
  <2> QED BY <1>2, <2>1, RowIs, TypesGive, ConversationTyped
<1> QED BY <1>3, <1>4, <1>5, <1>6, <1>7, <1>8, <1>9, <1>10 DEF Commands

-----------------------------------------------------------------------------
(* What the steps on messages and requests do.                             *)

LEMMA AppendedIs ==
  ASSUME TInv, NEW msg \in Messages, messages' = Append(messages, msg),
         \A i \in 1..Len(messages) : messages[i].key # msg.key,
         msg.inbound => msg.at # 0 /\ msg.dispatch = "NONE"
  PROVE  /\ messages' \in Seq(Messages) /\ Len(messages') = Len(messages) + 1
         /\ Len(messages') <= MaxMessages
         /\ messages'[Len(messages) + 1] = msg
         /\ \A i \in 1..Len(messages) : messages'[i] = messages[i]
         /\ KeysAreDistinct' /\ InboundOK'
<1>1. messages \in Seq(Messages)
  BY TypesGive
<1>2. /\ messages' \in Seq(Messages) /\ Len(messages') = Len(messages) + 1
      /\ messages'[Len(messages) + 1] = msg
      /\ \A i \in 1..Len(messages) : messages'[i] = messages[i]
  BY <1>1
<1>3. \A i \in 1..Len(messages') : i = Len(messages) + 1 \/ i \in 1..Len(messages)
  BY <1>1, <1>2
<1>4. \A i, j \in 1..Len(messages') : messages'[i].key = messages'[j].key => i = j
  BY <1>2, <1>3 DEF TInv, KeysAreDistinct
<1>5. Len(messages') <= MaxMessages
  BY <1>2, <1>4, MessagesAreBounded
<1>6. InboundOK'
  BY <1>2, <1>3 DEF TInv, InboundOK
<1> QED BY <1>2, <1>4, <1>5, <1>6 DEF KeysAreDistinct

\* A step that changes the dispatch state, and maybe the time, of message i.
MessageBecomes(i, s, at) ==
  /\ messages' \in Seq(Messages) /\ Len(messages') = Len(messages)
  /\ \A j \in 1..Len(messages) : j # i => messages'[j] = messages[j]
  /\ messages'[i].dispatch = s /\ messages'[i].at = at
  /\ messages'[i].inbound = messages[i].inbound /\ messages'[i].key = messages[i].key
  /\ messages'[i].retryOf = messages[i].retryOf

LEMMA SetDispatchIs ==
  ASSUME TInv, NEW i \in 1..Len(messages), NEW s \in DispatchStates, SetDispatch(i, s)
  PROVE  MessageBecomes(i, s, messages[i].at)
<1>1. messages \in Seq(Messages) /\ messages[i] \in Messages
  BY TypesGive
<1> DEFINE msg == [messages[i] EXCEPT !.dispatch = s]
<1>2. /\ msg \in Messages /\ msg.dispatch = s /\ msg.at = messages[i].at
      /\ msg.inbound = messages[i].inbound /\ msg.key = messages[i].key
      /\ msg.retryOf = messages[i].retryOf
  BY <1>1 DEF Messages
<1>3. messages' = [messages EXCEPT ![i] = msg]
  BY DEF SetDispatch
<1> HIDE DEF msg
<1> QED BY <1>1, <1>2, <1>3 DEF MessageBecomes

LEMMA UpdateIs ==
  ASSUME NEW ms \in Seq(Messages), NEW i \in 1..Len(ms), NEW msg \in Messages
  PROVE  LET new == [ms EXCEPT ![i] = msg] IN
         /\ new \in Seq(Messages) /\ Len(new) = Len(ms) /\ new[i] = msg
         /\ \A j \in 1..Len(ms) : j # i => new[j] = ms[j]
OBVIOUS

LEMMA AcceptedIs ==
  ASSUME TInv, NEW i \in 1..Len(messages), NEW at \in Nat,
         messages' = [messages EXCEPT ![i].dispatch = "ACCEPTED", ![i].at = at]
  PROVE  MessageBecomes(i, "ACCEPTED", at)
<1>1. messages \in Seq(Messages) /\ messages[i] \in Messages
  BY TypesGive
<1> DEFINE accepted == [messages[i] EXCEPT !.dispatch = "ACCEPTED"]
           all == [messages EXCEPT ![i] = accepted]
           msg == [accepted EXCEPT !.at = at]
<1>2. accepted \in Messages
  BY <1>1 DEF Messages, DispatchStates
<1>3. /\ msg \in Messages /\ msg.dispatch = "ACCEPTED" /\ msg.at = at
      /\ msg.inbound = messages[i].inbound /\ msg.key = messages[i].key
      /\ msg.retryOf = messages[i].retryOf
  BY <1>1 DEF Messages, DispatchStates
<1>4. messages' = [all EXCEPT ![i].at = at]
  OBVIOUS
<1> HIDE DEF accepted, all
<1>5. all \in Seq(Messages) /\ Len(all) = Len(messages) /\ all[i] = accepted
      /\ \A j \in 1..Len(messages) : j # i => all[j] = messages[j]
  BY <1>1, <1>2 DEF all
<1>6. messages' = [all EXCEPT ![i] = msg]
  BY <1>4, <1>5
<1> HIDE DEF msg
<1>7. /\ messages' \in Seq(Messages) /\ Len(messages') = Len(messages) /\ messages'[i] = msg
      /\ \A j \in 1..Len(messages) : j # i => messages'[j] = all[j]
  <2>1. i \in 1..Len(all) /\ all \in Seq(Messages) /\ msg \in Messages
    BY <1>3, <1>5
  <2> DEFINE new == [all EXCEPT ![i] = msg]
  <2>2. /\ new \in Seq(Messages) /\ Len(new) = Len(all) /\ new[i] = msg
        /\ \A j \in 1..Len(all) : j # i => new[j] = all[j]
    BY <2>1, UpdateIs
  <2>3. messages' = new
    BY <1>6
  <2> HIDE DEF new
  <2> QED BY <1>5, <2>2, <2>3
<1> QED BY <1>3, <1>5, <1>7 DEF MessageBecomes

LEMMA BecomesKeeps ==
  ASSUME TInv, NEW i \in 1..Len(messages), ~messages[i].inbound, NEW s, NEW at,
         MessageBecomes(i, s, at)
  PROVE  /\ \A j \in 1..Len(messages) :
              /\ messages'[j].inbound = messages[j].inbound
              /\ messages'[j].key = messages[j].key
              /\ messages[j].inbound => messages'[j] = messages[j]
         /\ Received(messages') = Received(messages)
         /\ KeysAreDistinct' /\ InboundOK'
         /\ \A k : Recorded(k)' <=> Recorded(k)
<1>1. \A j \in 1..Len(messages) :
        /\ messages'[j].inbound = messages[j].inbound
        /\ messages'[j].key = messages[j].key
        /\ messages[j].inbound => messages'[j] = messages[j]
  BY DEF MessageBecomes
<1>2. Len(messages') = Len(messages)
  BY DEF MessageBecomes
<1>3. Received(messages') = Received(messages)
  BY <1>1, <1>2 DEF Received
<1>4. KeysAreDistinct'
  BY <1>1, <1>2 DEF TInv, KeysAreDistinct
<1>5. InboundOK'
  BY <1>1, <1>2 DEF TInv, InboundOK
<1>6. \A k : Recorded(k)' <=> Recorded(k)
  BY <1>1, <1>2 DEF Recorded
<1> QED BY <1>1, <1>3, <1>4, <1>5, <1>6

Steps == {"idle", "start", "call", "reconcile"}
Answers == {"none", "accepted", "refused", "unknown"}

LEMMA GoToIs ==
  ASSUME TInv, NEW q \in Requests, NEW step \in Steps, NEW answer \in Answers,
         GoTo(q, step, answer)
  PROVE  /\ request' \in [Requests -> [step : Steps, message : Nat, answer : Answers]]
         /\ \A p \in Requests \ {q} : request'[p] = request[p]
         /\ request'[q].step = step
         /\ step # "idle" => /\ request'[q].message = request[q].message
                             /\ request'[q].answer = answer
<1> DEFINE new == IF step = "idle"
                  THEN [step |-> "idle", message |-> 0, answer |-> "none"]
                  ELSE [request[q] EXCEPT !.step = step, !.answer = answer]
<1>1. request \in [Requests -> [step : Steps, message : Nat, answer : Answers]]
  BY DEF TInv, TypeOK, Steps, Answers
<1>2. /\ new \in [step : Steps, message : Nat, answer : Answers] /\ new.step = step
      /\ step # "idle" => new.message = request[q].message /\ new.answer = answer
  BY <1>1 DEF Steps, Answers
<1>3. request' = [request EXCEPT ![q] = new]
  BY DEF GoTo
<1> HIDE DEF new
<1> QED BY <1>1, <1>2, <1>3

LEMMA UnderWay ==
  ASSUME TInv, NEW q \in Requests, request[q].step # "idle"
  PROVE  /\ request[q].message \in 1..Len(messages) /\ request[q].message \in 1..MaxMessages
         /\ ~messages[request[q].message].inbound
<1>1. Len(messages) <= MaxMessages /\ Len(messages) \in Nat
  BY TypesGive DEF TInv, TypeOK
<1>2. /\ request[q].message \in 1..Len(messages)
      /\ ~messages[request[q].message].inbound
  BY DEF TInv, RequestOK
<1>3. MaxMessages \in Nat
  BY InboxAssumption, FS_CardinalityType DEF MaxMessages
<1> QED BY <1>1, <1>2, <1>3

\* Steps of a reply keep the rest of the types.
LEMMA ReplyTyped ==
  ASSUME TInv,
         UNCHANGED <<marketVars, held, clock, link, readTo, handledTo, reassigned>>,
         row' = row \/ (row # NoRow /\ row' \in Rows /\ row'.resolved = row.resolved
                          /\ row'.customer = row.customer
                          /\ (row'.since # 0 => Received(messages) # {})),
         messages' \in Seq(Messages), Len(messages') \in Len(messages)..MaxMessages,
         KeysAreDistinct', InboundOK', Received(messages') = Received(messages),
         \A m \in Inbounds : Recorded(m)' => Recorded(m),
         messages # <<>> \/ row # NoRow \/ messages' = messages,
         events' \in Seq(Events), overlapped' \in BOOLEAN,
         wire' \in [1..MaxMessages -> Nat], calls' \in [1..MaxMessages -> Nat],
         request' \in [Requests -> [step : Steps, message : Nat, answer : Answers]],
         RequestOK'
  PROVE  TInv'
<1>1. row' \in Rows \cup {NoRow} /\ (row # NoRow <=> row' # NoRow)
  BY NoRowIsNone DEF TInv, TypeOK
<1>2. row' # NoRow => (row'.resolved => row'.customer # NoRow)
  BY <1>1 DEF TInv, TypeOK
<1>3. readTo' \in 0..Len(messages') /\ handledTo' \in 0..Len(messages') /\ Len(messages') <= MaxMessages
  BY TypesGive
<1>4. TypeOK'
  BY <1>1, <1>2, <1>3 DEF TInv, TypeOK, marketVars, Steps, Answers
<1>5. OneWebhook'
  BY <1>1 DEF TInv, OneWebhook
<1>6. RowOK'
  <2>1. row' = NoRow => messages' = <<>>
    BY <1>1 DEF TInv, RowOK
  <2>2. row' # NoRow /\ row'.since # 0 => Received(messages') # {}
    BY <1>1 DEF TInv, RowOK
  <2> QED BY <2>1, <2>2 DEF RowOK
<1> QED BY <1>4, <1>5, <1>6 DEF TInv

-----------------------------------------------------------------------------
(* What the steps of the webhooks do.                                      *)

LEMMA OpenWhatsAppIs ==
  ASSUME TInv, NEW c \in Customers, OpenWhatsApp(c) # {}
  PROVE  /\ Least(OpenWhatsApp(c)) \in 1..Len(opportunities)
         /\ opportunities[Least(OpenWhatsApp(c))].customer = c
<1>1. OpenWhatsApp(c) \in SUBSET Nat
  BY TypesGive DEF OpenWhatsApp
<1>2. Least(OpenWhatsApp(c)) \in OpenWhatsApp(c)
  BY <1>1, LeastIs
<1> QED BY <1>2 DEF OpenWhatsApp

LEMMA LinkInboundIs ==
  ASSUME TInv, NEW c \in Customers, LinkInbound(c)
  PROVE  /\ opportunities' \in Seq(Opportunities)
         /\ link' \in 1..Len(opportunities') /\ opportunities'[link'].customer = c
<1>1. CASE OpenWhatsApp(c) # {}
  <2>1. link' = Least(OpenWhatsApp(c)) /\ opportunities' = opportunities
    BY <1>1 DEF LinkInbound
  <2> QED BY <1>1, <2>1, OpenWhatsAppIs, TypesGive
<1>2. CASE OpenWhatsApp(c) = {}
  <2>1. /\ opportunities' = Append(opportunities, NewOpportunity(c, TRUE))
        /\ link' = Len(opportunities) + 1
    BY <1>2 DEF LinkInbound
  <2>2. /\ opportunities' \in Seq(Opportunities)
        /\ Len(opportunities') = Len(opportunities) + 1
        /\ opportunities'[Len(opportunities) + 1] = NewOpportunity(c, TRUE)
    BY <2>1, NewOpportunityIs, OpportunitiesGrow
  <2>3. NewOpportunity(c, TRUE).customer = c
    BY NewOpportunityIs
  <2>4. link' \in 1..Len(opportunities')
    BY <2>1, <2>2, TypesGive
  <2>5. opportunities'[link'] = NewOpportunity(c, TRUE)
    BY <2>1, <2>2
  <2> QED BY <2>2, <2>3, <2>4, <2>5
<1> QED BY <1>1, <1>2

\* A webhook at work records a message that is not recorded.
LEMMA InboundMessageIs ==
  ASSUME TInv, NEW m \in Inbounds, NEW at \in Nat \ {0}, held[m] # Idle,
         messages' = Append(messages, InboundMessage(m, at)),
         held' = [held EXCEPT ![m] = Idle]
  PROVE  /\ messages' \in Seq(Messages) /\ Len(messages') = Len(messages) + 1
         /\ Len(messages') <= MaxMessages
         /\ messages'[Len(messages) + 1] = InboundMessage(m, at)
         /\ \A i \in 1..Len(messages) : messages'[i] = messages[i]
         /\ Received(messages') = Received(messages) \cup {Len(messages) + 1}
         /\ KeysAreDistinct' /\ InboundOK'
         /\ \A n \in Inbounds : held'[n] = Idle
<1>1. clock \in Nat
  BY DEF TInv, TypeOK
<1>2. /\ InboundMessage(m, at) \in Messages /\ InboundMessage(m, at).at # 0
      /\ InboundMessage(m, at).dispatch = "NONE" /\ InboundMessage(m, at).inbound
      /\ InboundMessage(m, at).key = m
  BY <1>1 DEF InboundMessage, Messages, DispatchStates
<1>3. \A i \in 1..Len(messages) : messages[i].key # m
  BY DEF TInv, OneWebhook, Recorded
<1>4. /\ messages' \in Seq(Messages) /\ Len(messages') = Len(messages) + 1
      /\ Len(messages') <= MaxMessages
      /\ messages'[Len(messages) + 1] = InboundMessage(m, at)
      /\ \A i \in 1..Len(messages) : messages'[i] = messages[i]
      /\ KeysAreDistinct' /\ InboundOK'
  BY <1>2, <1>3, AppendedIs
<1>5. Received(messages') = Received(messages) \cup {Len(messages) + 1}
  <2>1. \A i : i \in 1..Len(messages') <=> i \in 1..Len(messages) \/ i = Len(messages) + 1
    BY <1>4, TypesGive
  <2> QED BY <1>2, <1>4, <2>1 DEF Received
<1>6. \A n \in Inbounds : held'[n] = Idle
  BY DEF TInv, TypeOK, OneWebhook
<1> QED BY <1>4, <1>5, <1>6

\* The type invariant after a webhook's transaction.
LEMMA InboundTyped ==
  ASSUME TInv, NEW m \in Inbounds, NEW at \in Nat \ {0}, held[m] # Idle,
         messages' = Append(messages, InboundMessage(m, at)),
         held' = [held EXCEPT ![m] = Idle],
         row' \in Rows, row'.resolved => row'.customer # NoRow,
         opportunities' \in Seq(Opportunities), link' \in 0..Len(opportunities'),
         customers' \in [Customers -> {"absent", "live", "deleted"}],
         owners' \subseteq Customers,
         UNCHANGED <<delivery, events, providerVars, historyVars, request, clock>>
  PROVE  TInv'
<1>1. /\ messages' \in Seq(Messages) /\ Len(messages') = Len(messages) + 1
      /\ Len(messages') <= MaxMessages
      /\ \A i \in 1..Len(messages) : messages'[i] = messages[i]
      /\ Received(messages') = Received(messages) \cup {Len(messages) + 1}
      /\ KeysAreDistinct' /\ InboundOK'
      /\ \A n \in Inbounds : held'[n] = Idle
  BY InboundMessageIs
<1>2. held' \in [Inbounds -> Rows \cup {NoRow, Idle}]
  BY DEF TInv, TypeOK
<1>3. readTo' \in 0..Len(messages') /\ handledTo' \in 0..Len(messages')
  BY <1>1, TypesGive DEF historyVars
<1>4. TypeOK'
  BY <1>1, <1>2, <1>3 DEF TInv, TypeOK, providerVars, historyVars
<1>5. OneWebhook'
  BY <1>1 DEF OneWebhook
<1>6. RowOK'
  BY <1>1, NoRowIsNone DEF RowOK
<1>7. RequestOK'
  BY <1>1, TypesGive DEF TInv, RequestOK
<1> QED BY <1>1, <1>4, <1>5, <1>6, <1>7 DEF TInv

LEMMA ReceiveIs ==
  ASSUME TInv, NEW m \in Inbounds, NEW at \in Nat \ {0}, Receive(m, at)
  PROVE  /\ held[m] \in Rows /\ row \in Rows /\ row' \in Rows
         /\ row'.unread = held[m].unread + 1 /\ row'.customer = row.customer
         /\ row'.through = row.through
         /\ held[m] = row => row'.since = Since(messages', delivery, row.through)
         /\ row'.resolved => row.resolved
         /\ messages' = Append(messages, InboundMessage(m, at))
         /\ held' = [held EXCEPT ![m] = Idle] /\ held[m] # Idle
         /\ opportunities' \in Seq(Opportunities) /\ link' \in 0..Len(opportunities')
         /\ \/ UNCHANGED <<link, opportunities>>
            \/ opportunities'[link'].customer = held[m].customer
         /\ UNCHANGED <<delivery, events, customers, owners, providerVars, historyVars, request, clock>>
<1> DEFINE read == held[m]
           ms == Append(messages, InboundMessage(m, at))
           new == AfterInbound(read, at, ms)
<1>1. /\ read # Idle /\ read # NoRow /\ messages' = ms
      /\ row' = Written(read, new, row) /\ held' = [held EXCEPT ![m] = Idle]
      /\ (new.resolved /\ new.customer # NoRow) => LinkInbound(new.customer)
      /\ ~(new.resolved /\ new.customer # NoRow) => UNCHANGED <<link, opportunities>>
      /\ UNCHANGED <<delivery, events, customers, owners, providerVars, historyVars, request, clock>>
  BY DEF Receive
<1>2. /\ ms \in Seq(Messages)
      /\ \A i \in 1..Len(ms) : ms[i].inbound => ms[i].at # 0
  BY <1>1, InboundMessageIs DEF InboundOK
<1>3. read \in Rows
  BY <1>1 DEF TInv, TypeOK
<1>4. row \in Rows
  BY <1>1, RowIs DEF TInv, OneWebhook
<1>a. new = AfterInbound(read, at, ms)
  OBVIOUS
<1> HIDE DEF read, ms, new
<1>5. /\ new \in Rows
      /\ new.unread = read.unread + 1 /\ new.customer = read.customer
      /\ new.through = read.through
      /\ new.since = Since(ms, delivery, read.through)
      /\ new.resolved => read.resolved
  <2>1. at \in Nat
    OBVIOUS
  <2>2. read.unread \in Nat
    BY <1>3 DEF Rows
  <2>3. new.unread = OneMore(read.unread)
    BY <1>2, <1>3, <1>a, <2>1, AfterInboundIs
  <2>4. new.unread = read.unread + 1
    BY <2>2, <2>3 DEF OneMore
  <2>5. new \in Rows
    BY <1>2, <1>3, <1>a, <2>1, AfterInboundIs
  <2>6. new.customer = read.customer
    BY <1>2, <1>3, <1>a, <2>1, AfterInboundIs
  <2>7. new.through = read.through
    BY <1>2, <1>3, <1>a, <2>1, AfterInboundIs
  <2>8. new.since = Since(ms, delivery, read.through)
    BY <1>2, <1>3, <1>a, <2>1, AfterInboundIs
  <2>9. new.resolved => read.resolved
    BY <1>2, <1>3, <1>a, <2>1, AfterInboundIs
  <2> QED BY <2>4, <2>5, <2>6, <2>7, <2>8, <2>9
<1>6. read.unread \in Nat /\ read.resolved \in BOOLEAN /\ new.resolved \in BOOLEAN
      /\ new.customer \in Customers \cup {NoRow} /\ row.resolved \in BOOLEAN
  BY <1>3, <1>4, <1>5 DEF Rows
<1>7. /\ row' \in Rows
      /\ \A f \in RowFields : row'[f] = IF new[f] # read[f] THEN new[f] ELSE row[f]
  BY <1>1, <1>3, <1>4, <1>5, WrittenIs
<1>8. /\ row'.unread = IF new.unread # read.unread THEN new.unread ELSE row.unread
      /\ row'.customer = IF new.customer # read.customer THEN new.customer ELSE row.customer
      /\ row'.through = IF new.through # read.through THEN new.through ELSE row.through
      /\ row'.since = IF new.since # read.since THEN new.since ELSE row.since
      /\ row'.resolved = IF new.resolved # read.resolved THEN new.resolved ELSE row.resolved
  BY <1>7 DEF RowFields
<1>9. new.unread # read.unread
  BY <1>5, <1>6
<1>10. row'.unread = read.unread + 1 /\ row'.customer = row.customer /\ row'.through = row.through
  BY <1>5, <1>8, <1>9
<1>11. read = row => row'.since = Since(messages', delivery, row.through)
  BY <1>1, <1>5, <1>8
<1>12. row'.resolved => row.resolved
  BY <1>5, <1>6, <1>8
<1>13. /\ opportunities' \in Seq(Opportunities) /\ link' \in 0..Len(opportunities')
       /\ \/ UNCHANGED <<link, opportunities>>
          \/ opportunities'[link'].customer = read.customer
  <2>1. CASE new.resolved /\ new.customer # NoRow
    <3>1. new.customer \in Customers /\ LinkInbound(new.customer)
      BY <1>1, <1>6, <2>1
    <3>2. /\ opportunities' \in Seq(Opportunities)
          /\ link' \in 1..Len(opportunities') /\ opportunities'[link'].customer = new.customer
      BY <3>1, LinkInboundIs
    <3> QED BY <1>5, <3>2
  <2>2. CASE ~(new.resolved /\ new.customer # NoRow)
    BY <1>1, <2>2, TypesGive
  <2> QED BY <2>1, <2>2
<1> QED BY <1>1, <1>3, <1>4, <1>7, <1>10, <1>11, <1>12, <1>13 DEF read, ms

LEMMA ReceiveFirstIs ==
  ASSUME TInv, NEW m \in Inbounds, NEW at \in Nat \ {0}, ReceiveFirst(m, at)
  PROVE  /\ held[m] = NoRow /\ held[m] # Idle /\ row = NoRow /\ messages = <<>>
         /\ row' \in Rows /\ row'.unread = 1 /\ row'.through = 0
         /\ row'.since = Since(messages', delivery, 0)
         /\ row'.resolved => row'.customer # NoRow
         /\ messages' = Append(messages, InboundMessage(m, at))
         /\ held' = [held EXCEPT ![m] = Idle]
         /\ opportunities' \in Seq(Opportunities) /\ link' \in 0..Len(opportunities')
         /\ \/ UNCHANGED link
            \/ opportunities'[link'].customer = row'.customer
         /\ customers' \in [Customers -> {"absent", "live", "deleted"}]
         /\ owners' \subseteq Customers
         /\ UNCHANGED <<delivery, events, providerVars, historyVars, request, clock>>
<1> DEFINE new(c) == [customer |-> c, resolved |-> c # NoRow, hidden |-> FALSE, unread |-> 0,
                      since |-> 0, through |-> 0, lastInbound |-> 0]
           ms == Append(messages, InboundMessage(m, at))
<1>1. PICK c \in FirstContact :
        /\ messages' = ms /\ row' = AfterInbound(new(c), at, ms)
        /\ c = NoRow => UNCHANGED <<link, opportunities, customers>>
        /\ c # NoRow => LinkInbound(c) /\ customers' = [customers EXCEPT ![c] = "live"]
        /\ owners' = owners \cup ({c} \ {NoRow})
  BY DEF ReceiveFirst
<1>2. /\ held[m] = NoRow /\ row = NoRow /\ held' = [held EXCEPT ![m] = Idle]
      /\ UNCHANGED <<delivery, events, providerVars, historyVars, request, clock>>
      /\ held[m] # Idle /\ messages = <<>>
  BY InboxAssumption DEF ReceiveFirst, TInv, RowOK
<1>3. owners \subseteq Customers
  BY DEF TInv, TypeOK
<1>4. c \in Customers \cup {NoRow}
  BY <1>1, <1>3 DEF FirstContact
<1> DEFINE r == new(c)
<1>5. /\ r \in Rows /\ r.unread = 0 /\ r.through = 0 /\ r.customer = c
      /\ (r.resolved => c # NoRow)
  BY <1>4 DEF Rows
<1>6. /\ ms \in Seq(Messages)
      /\ \A i \in 1..Len(ms) : ms[i].inbound => ms[i].at # 0
  BY <1>1, <1>2, InboundMessageIs DEF InboundOK
<1>7. row' = AfterInbound(r, at, ms)
  BY <1>1
<1> HIDE DEF r, ms
<1>8. /\ row' \in Rows /\ row'.unread = OneMore(r.unread) /\ row'.customer = r.customer
      /\ row'.through = r.through /\ row'.since = Since(ms, delivery, r.through)
      /\ row'.resolved => r.resolved
  BY <1>5, <1>6, <1>7, AfterInboundIs
<1>9. /\ row'.unread = 1 /\ row'.through = 0 /\ row'.customer = c
      /\ row'.since = Since(messages', delivery, 0) /\ (row'.resolved => row'.customer # NoRow)
  BY <1>1, <1>5, <1>8 DEF OneMore
<1>10. /\ opportunities' \in Seq(Opportunities) /\ link' \in 0..Len(opportunities')
       /\ UNCHANGED link \/ opportunities'[link'].customer = c
  <2>1. CASE c = NoRow
    BY <1>1, <2>1, TypesGive
  <2>2. CASE c # NoRow
    <3>1. /\ opportunities' \in Seq(Opportunities)
          /\ link' \in 1..Len(opportunities') /\ opportunities'[link'].customer = c
      BY <1>1, <1>4, <2>2, LinkInboundIs
    <3> QED BY <3>1
  <2> QED BY <2>1, <2>2
<1>11. customers' \in [Customers -> {"absent", "live", "deleted"}]
  BY <1>1, TypesGive
<1>12. owners' \subseteq Customers
  BY <1>1, <1>3, <1>4
<1> QED BY <1>1, <1>2, <1>8, <1>9, <1>10, <1>11, <1>12 DEF ms

-----------------------------------------------------------------------------
(* The steps of replies and their evidence.                                *)

LEMMA PrepareIs ==
  ASSUME TInv, NEW q \in Requests, NEW k \in Replies,
         NEW t \in {0} \cup {i \in 1..Len(messages) : ~messages[i].inbound},
         NEW template \in BOOLEAN, Prepare(q, k, t, template)
  PROVE  LET i == Len(messages) + 1 IN
         /\ row # NoRow /\ Resendable(t) /\ Unsettled(t) = {}
         /\ messages' \in Seq(Messages) /\ Len(messages') = i /\ Len(messages') <= MaxMessages
         /\ ~messages'[i].inbound /\ messages'[i].dispatch = "PENDING" /\ messages'[i].retryOf = t
         /\ \A j \in 1..Len(messages) : messages'[j] = messages[j]
         /\ Received(messages') = Received(messages)
         /\ KeysAreDistinct' /\ InboundOK'
         /\ \A m \in Inbounds : Recorded(m)' => Recorded(m)
         /\ request' = [request EXCEPT ![q] = [step |-> "start", message |-> i, answer |-> "none"]]
         /\ overlapped' \in BOOLEAN /\ (~overlapped' => ~overlapped)
         /\ UNCHANGED <<conversationVars, delivery, events, marketVars, providerVars, held, clock,
                        readTo, handledTo, reassigned>>
<1> DEFINE msg == [inbound |-> FALSE, key |-> k, at |-> 0, created |-> clock,
                   dispatch |-> "PENDING", retryOf |-> t]
<1>1. /\ row # NoRow /\ Resendable(t) /\ Unsettled(t) = {} /\ MessageOf(k) = {}
      /\ messages' = Append(messages, msg)
      /\ request' = [request EXCEPT ![q] = [step |-> "start", message |-> Len(messages) + 1,
                                            answer |-> "none"]]
      /\ UNCHANGED <<conversationVars, delivery, events, marketVars, providerVars, held, clock,
                     readTo, handledTo, reassigned>>
  BY DEF Prepare, SendOpen, Visible
<1>2. overlapped' \in BOOLEAN /\ (~overlapped' => ~overlapped)
  BY Zenon DEF Prepare, NoteCommit
<1>3. clock \in Nat /\ t \in Nat /\ Len(messages) \in Nat
  BY TypesGive DEF TInv, TypeOK
<1>4. /\ msg \in Messages /\ msg.inbound = FALSE /\ msg.dispatch = "PENDING"
      /\ msg.retryOf = t /\ msg.key = k
  BY <1>3 DEF Messages, DispatchStates
<1>5. \A i \in 1..Len(messages) : messages[i].key # k
  BY <1>1 DEF MessageOf
<1> HIDE DEF msg
<1>6. /\ messages' \in Seq(Messages) /\ Len(messages') = Len(messages) + 1
      /\ Len(messages') <= MaxMessages
      /\ messages'[Len(messages) + 1] = msg
      /\ \A i \in 1..Len(messages) : messages'[i] = messages[i]
      /\ KeysAreDistinct' /\ InboundOK'
  BY <1>1, <1>4, <1>5, AppendedIs
<1>7. \A i : i \in 1..Len(messages') <=> i \in 1..Len(messages) \/ i = Len(messages) + 1
  BY <1>3, <1>6
<1>8. Received(messages') = Received(messages)
  BY <1>4, <1>6, <1>7 DEF Received
<1>9. \A m \in Inbounds : Recorded(m)' => Recorded(m)
  BY <1>4, <1>6, <1>7, InboxAssumption DEF Recorded
<1> QED BY <1>1, <1>2, <1>4, <1>6, <1>8, <1>9

LEMMA PrepareTyped ==
  ASSUME TInv, NEW q \in Requests, NEW k \in Replies,
         NEW t \in {0} \cup {i \in 1..Len(messages) : ~messages[i].inbound},
         NEW template \in BOOLEAN, Prepare(q, k, t, template)
  PROVE  TInv'
<1>1. /\ row # NoRow
      /\ messages' \in Seq(Messages) /\ Len(messages') = Len(messages) + 1
      /\ Len(messages') <= MaxMessages
      /\ ~messages'[Len(messages) + 1].inbound
      /\ \A j \in 1..Len(messages) : messages'[j] = messages[j]
      /\ Received(messages') = Received(messages) /\ KeysAreDistinct' /\ InboundOK'
      /\ \A m \in Inbounds : Recorded(m)' => Recorded(m)
      /\ request' = [request EXCEPT ![q] = [step |-> "start", message |-> Len(messages) + 1,
                                            answer |-> "none"]]
      /\ overlapped' \in BOOLEAN
      /\ UNCHANGED <<conversationVars, delivery, events, marketVars, providerVars, held, clock,
                     readTo, handledTo, reassigned>>
  BY PrepareIs
<1>2. Len(messages) \in Nat /\ MaxMessages \in Nat
  BY TypesGive, InboxAssumption, FS_CardinalityType DEF MaxMessages
<1>3. /\ request' \in [Requests -> [step : Steps, message : Nat, answer : Answers]]
      /\ \A p \in Requests \ {q} : request'[p] = request[p]
      /\ request'[q].message = Len(messages) + 1
  BY <1>1, <1>2 DEF TInv, TypeOK, Steps, Answers
<1>4. RequestOK'
  BY <1>1, <1>2, <1>3 DEF TInv, RequestOK
<1>5. /\ wire \in [1..MaxMessages -> Nat] /\ calls \in [1..MaxMessages -> Nat]
      /\ events \in Seq(Events)
  BY DEF TInv, TypeOK
<1>6. Len(messages') \in Len(messages)..MaxMessages
  BY <1>1, <1>2
<1> QED BY <1>1, <1>3, <1>4, <1>5, <1>6, ReplyTyped DEF conversationVars, providerVars

\* A step that changes the dispatch state of a reply under way, or none.
LEMMA SettleTyped ==
  ASSUME TInv, NEW i \in 1..Len(messages), NEW s, NEW at, ~messages[i].inbound,
         MessageBecomes(i, s, at) \/ messages' = messages,
         UNCHANGED <<marketVars, providerVars, held, clock, link, readTo, handledTo, reassigned>>,
         row' = row \/ (row # NoRow /\ row' \in Rows /\ row'.resolved = row.resolved
                          /\ row'.customer = row.customer
                          /\ (row'.since # 0 => Received(messages) # {})),
         events' \in Seq(Events), overlapped' \in BOOLEAN,
         NEW q \in Requests, NEW step \in Steps, NEW answer \in Answers, GoTo(q, step, answer),
         request[q].step # "idle"
  PROVE  TInv'
<1>1. /\ messages' \in Seq(Messages) /\ Len(messages') = Len(messages)
      /\ \A j \in 1..Len(messages) : messages'[j].inbound = messages[j].inbound
      /\ KeysAreDistinct' /\ InboundOK' /\ Received(messages') = Received(messages)
      /\ \A m \in Inbounds : Recorded(m)' => Recorded(m)
  <2>1. CASE MessageBecomes(i, s, at)
    BY <2>1, BecomesKeeps DEF MessageBecomes
  <2>2. CASE messages' = messages
    BY <2>2, TypesGive DEF TInv, KeysAreDistinct, InboundOK, Recorded
  <2> QED BY <2>1, <2>2
<1>2. /\ request' \in [Requests -> [step : Steps, message : Nat, answer : Answers]]
      /\ \A p \in Requests \ {q} : request'[p] = request[p]
      /\ request'[q].step = step
      /\ step # "idle" => request'[q].message = request[q].message
  BY GoToIs
<1>3. RequestOK'
  BY <1>1, <1>2 DEF TInv, RequestOK
<1>4. /\ wire \in [1..MaxMessages -> Nat] /\ calls \in [1..MaxMessages -> Nat]
      /\ Len(messages) \in Nat /\ Len(messages) <= MaxMessages
  BY TypesGive DEF TInv, TypeOK
<1>5. MaxMessages \in Nat
  BY InboxAssumption, FS_CardinalityType DEF MaxMessages
<1>6. Len(messages') \in Len(messages)..MaxMessages
  BY <1>1, <1>4, <1>5
<1>7. messages # <<>> \/ row # NoRow \/ messages' = messages
  BY <1>4
<1>8. wire' \in [1..MaxMessages -> Nat] /\ calls' \in [1..MaxMessages -> Nat]
  BY <1>4 DEF providerVars
<1> QED BY <1>1, <1>2, <1>3, <1>6, <1>7, <1>8, ReplyTyped

LEMMA RecomputedRow ==
  ASSUME TInv, row # NoRow, row' = Recomputed(row, messages, delivery)
  PROVE  /\ row' \in Rows /\ row'.resolved = row.resolved /\ row'.customer = row.customer
         /\ row'.unread = row.unread /\ row'.through = row.through
         /\ row'.since = Since(messages, delivery, row.through)
         /\ row'.since # 0 => Received(messages) # {}
<1>1. row \in Rows /\ row.through \in Nat
  BY RowIs
<1>2. /\ row' \in Rows
      /\ row'.since = Since(messages, delivery, row.through)
      /\ \A f \in RowFields \ {"since"} : row'[f] = row[f]
  BY <1>1, RecomputedIs, TypesGive
<1>3. Since(messages, delivery, row.through) # 0 => Received(messages) # {}
  BY <1>1, SinceIs, TypesGive
<1> QED BY <1>2, <1>3 DEF RowFields

LEMMA ConversationExists ==
  ASSUME TInv, NEW i \in 1..Len(messages)
  PROVE  row # NoRow
BY DEF TInv, RowOK

LEMMA StartDispatchTyped ==
  ASSUME TInv, NEW q \in Requests, StartDispatch(q)
  PROVE  TInv'
<1> DEFINE i == request[q].message
<1>1. /\ request[q].step # "idle"
      /\ \/ SetDispatch(i, "IN_PROGRESS") /\ GoTo(q, "call", "none") /\ NoteCommit
         \/ UNCHANGED <<messages, overlapped>> /\ GoTo(q, "idle", "none")
      /\ UNCHANGED <<row, link, events, marketVars, providerVars, held, clock,
                     readTo, handledTo, reassigned>>
  BY DEF StartDispatch, conversationVars
<1>2. i \in 1..Len(messages) /\ ~messages[i].inbound
  BY <1>1, UnderWay
<1>3. events' \in Seq(Events)
  BY <1>1, TypesGive
<1> HIDE DEF i
<1>4. CASE SetDispatch(i, "IN_PROGRESS") /\ GoTo(q, "call", "none") /\ NoteCommit
  <2>1. MessageBecomes(i, "IN_PROGRESS", messages[i].at)
    BY <1>2, <1>4, SetDispatchIs DEF DispatchStates
  <2>2. overlapped' \in BOOLEAN
    BY <1>4, Zenon DEF NoteCommit
  <2> QED BY <1>1, <1>2, <1>3, <1>4, <2>1, <2>2, SettleTyped DEF Steps, Answers
<1>5. CASE UNCHANGED <<messages, overlapped>> /\ GoTo(q, "idle", "none")
  BY <1>1, <1>2, <1>3, <1>5, TypesGive, SettleTyped DEF Steps, Answers
<1> QED BY <1>1, <1>4, <1>5

LEMMA CallTyped ==
  ASSUME TInv, NEW q \in Requests, NEW accepted \in BOOLEAN,
         NEW answer \in {"accepted", "refused", "unknown"}, Call(q, accepted, answer)
  PROVE  TInv'
<1>1. /\ request[q].step # "idle" /\ GoTo(q, "reconcile", answer)
      /\ calls' = [calls EXCEPT ![request[q].message] = @ + 1]
      /\ wire' = IF accepted THEN [wire EXCEPT ![request[q].message] = clock] ELSE wire
      /\ UNCHANGED <<conversationVars, messageVars, marketVars, historyVars, held, clock, budget>>
  BY DEF Call
<1>2. /\ request' \in [Requests -> [step : Steps, message : Nat, answer : Answers]]
      /\ \A p \in Requests \ {q} : request'[p] = request[p]
      /\ request'[q].message = request[q].message
  BY <1>1, GoToIs DEF Steps, Answers
<1>3. RequestOK'
  BY <1>1, <1>2 DEF TInv, RequestOK, messageVars
<1>4. /\ wire' \in [1..MaxMessages -> Nat] /\ calls' \in [1..MaxMessages -> Nat]
  <2>1. request[q].message \in 1..MaxMessages
    BY <1>1, UnderWay
  <2>2. /\ wire \in [1..MaxMessages -> Nat] /\ calls \in [1..MaxMessages -> Nat]
        /\ clock \in Nat
    BY DEF TInv, TypeOK
  <2> QED BY <1>1, <2>1, <2>2
<1>5. TypeOK'
  BY <1>1, <1>2, <1>4
     DEF TInv, TypeOK, conversationVars, messageVars, marketVars, historyVars, Steps, Answers
<1>6. KeysAreDistinct' /\ InboundOK' /\ OneWebhook' /\ RowOK'
  BY <1>1 DEF TInv, KeysAreDistinct, InboundOK, OneWebhook, RowOK, Recorded,
              conversationVars, messageVars
<1> QED BY <1>3, <1>5, <1>6 DEF TInv

LEMMA AttachedIs ==
  ASSUME events \in Seq(Events), NEW i
  PROVE  /\ Attached(i) \in Seq(Events) /\ Len(Attached(i)) = Len(events)
         /\ \A n \in 1..Len(events) : Attached(i)[n].state = events[n].state
<1> DEFINE e(n) == [events[n] EXCEPT !.attached = @ \/ events[n].message = i]
<1>1. ASSUME NEW n \in 1..Len(events)
      PROVE  e(n) \in Events /\ e(n).state = events[n].state
  <2>1. events[n] \in Events
    OBVIOUS
  <2> DEFINE attached == events[n].attached \/ events[n].message = i
  <2>2. attached \in BOOLEAN
    OBVIOUS
  <2>3. e(n) = [events[n] EXCEPT !.attached = attached]
    OBVIOUS
  <2> HIDE DEF attached, e
  <2> QED BY <2>1, <2>2, <2>3 DEF Events
<1>2. Attached(i) = [n \in 1..Len(events) |-> e(n)]
  BY DEF Attached
<1> HIDE DEF e
<1>3. Attached(i) \in [1..Len(events) -> Events]
  BY <1>1, <1>2
<1>4. Attached(i) \in Seq(Events) /\ Len(Attached(i)) = Len(events)
  BY <1>3
<1> QED BY <1>1, <1>2, <1>4

\* What the answer of an accepted reply does.
LEMMA ReconcileAcceptedIs ==
  ASSUME TInv, NEW q \in Requests, ReconcileAccepted(q)
  PROVE  LET i == request[q].message IN
         /\ request[q].step = "reconcile" /\ GoTo(q, "idle", "none")
         /\ i \in 1..Len(messages) /\ ~messages[i].inbound /\ row # NoRow
         /\ UNCHANGED <<link, marketVars, providerVars, held, clock, readTo, handledTo, reassigned>>
         /\ \/ UNCHANGED <<messageVars, row, overlapped>>
            \/ /\ messages[i].dispatch = "IN_PROGRESS"
               /\ MessageBecomes(i, "ACCEPTED", wire[i])
               /\ events' = Attached(i) /\ row' = Recomputed(row, messages, delivery)
               /\ delivery' = [delivery EXCEPT ![i] = DeliveryAttached(i)]
               /\ Commits
<1> DEFINE i == request[q].message
<1>1. /\ request[q].step = "reconcile" /\ GoTo(q, "idle", "none")
      /\ UNCHANGED <<link, marketVars, providerVars, held, clock, readTo, handledTo, reassigned>>
      /\ \/ UNCHANGED <<messageVars, row, overlapped>>
         \/ /\ messages[i].dispatch = "IN_PROGRESS"
            /\ messages' = [messages EXCEPT ![i].dispatch = "ACCEPTED", ![i].at = wire[i]]
            /\ events' = Attached(i) /\ row' = Recomputed(row, messages, delivery)
            /\ delivery' = [delivery EXCEPT ![i] = DeliveryAttached(i)]
            /\ NoteCommit
  BY DEF ReconcileAccepted, Settles
<1>2. i \in 1..Len(messages) /\ i \in 1..MaxMessages /\ ~messages[i].inbound
  BY <1>1, UnderWay
<1>3. row # NoRow
  BY <1>2, ConversationExists
<1>4. wire[i] \in Nat
  BY <1>2 DEF TInv, TypeOK
<1> HIDE DEF i
<1>5. messages' = [messages EXCEPT ![i].dispatch = "ACCEPTED", ![i].at = wire[i]]
        => MessageBecomes(i, "ACCEPTED", wire[i])
  BY <1>2, <1>4, AcceptedIs
<1>6. NoteCommit => Commits
  BY Zenon DEF NoteCommit, Commits
<1> QED BY <1>1, <1>2, <1>3, <1>5, <1>6 DEF i

LEMMA ReconcileAcceptedTyped ==
  ASSUME TInv, NEW q \in Requests, ReconcileAccepted(q)
  PROVE  TInv'
<1> DEFINE i == request[q].message
<1>1. /\ request[q].step # "idle" /\ GoTo(q, "idle", "none")
      /\ i \in 1..Len(messages) /\ ~messages[i].inbound /\ row # NoRow
      /\ UNCHANGED <<link, marketVars, providerVars, held, clock, readTo, handledTo, reassigned>>
      /\ \/ UNCHANGED <<messageVars, row, overlapped>>
         \/ /\ MessageBecomes(i, "ACCEPTED", wire[i])
            /\ events' = Attached(i) /\ row' = Recomputed(row, messages, delivery)
            /\ overlapped' \in BOOLEAN
  BY ReconcileAcceptedIs DEF Commits
<1> HIDE DEF i
<1>2. CASE UNCHANGED <<messageVars, row, overlapped>>
  BY <1>1, <1>2, TypesGive, SettleTyped DEF Steps, Answers, messageVars
<1>3. CASE /\ MessageBecomes(i, "ACCEPTED", wire[i])
           /\ events' = Attached(i) /\ row' = Recomputed(row, messages, delivery)
           /\ overlapped' \in BOOLEAN
  <2>1. /\ row' \in Rows /\ row'.resolved = row.resolved /\ row'.customer = row.customer
        /\ (row'.since # 0 => Received(messages) # {})
    BY <1>1, <1>3, RecomputedRow
  <2>2. events' \in Seq(Events)
    BY <1>3, AttachedIs, TypesGive
  <2> QED BY <1>1, <1>3, <2>1, <2>2, SettleTyped DEF Steps, Answers
<1> QED BY <1>1, <1>2, <1>3

LEMMA ReconcileErrorTyped ==
  ASSUME TInv, NEW q \in Requests, ReconcileError(q)
  PROVE  TInv'
<1> DEFINE i == request[q].message
           s == IF request[q].answer = "unknown" THEN "UNKNOWN" ELSE "DEFINITIVE_FAILED"
<1>1. /\ request[q].step # "idle" /\ GoTo(q, "idle", "none")
      /\ SetDispatch(i, s) \/ UNCHANGED messages
      /\ UNCHANGED <<row, link, events, marketVars, providerVars, held, clock,
                     readTo, handledTo, reassigned, overlapped>>
  BY DEF ReconcileError, conversationVars, historyVars
<1>2. i \in 1..Len(messages) /\ ~messages[i].inbound
  BY <1>1, UnderWay
<1>3. events' \in Seq(Events) /\ overlapped' \in BOOLEAN
  BY <1>1, TypesGive
<1>4. s \in DispatchStates
  BY DEF DispatchStates
<1> HIDE DEF i, s
<1>5. MessageBecomes(i, s, messages[i].at) \/ messages' = messages
  BY <1>1, <1>2, <1>4, SetDispatchIs
<1> QED BY <1>1, <1>2, <1>3, <1>5, SettleTyped DEF Steps, Answers


LEMMA EventRecordedIs ==
  ASSUME TInv, NEW i \in 1..Len(messages), NEW s \in Reports, NEW at \in 1..clock, Record(i, s, at)
  PROVE  /\ row # NoRow /\ wire[i] # 0
         /\ events' \in Seq(Events) /\ Len(events') \in Nat /\ Len(events) <= Len(events')
         /\ \A n \in 1..Len(events) : events'[n].state = events[n].state
         /\ \E n \in 1..Len(events') : events'[n].state = s
         /\ \/ UNCHANGED <<delivery, row, overlapped>>
            \/ /\ \E e \in Events : /\ e.state = s
                                    /\ delivery' = [delivery EXCEPT ![i] = Applied(@, e)]
               /\ row' = Recomputed(row, messages, delivery)
               /\ Commits
         /\ UNCHANGED <<link, messages, marketVars, providerVars, held, request, clock,
                        readTo, handledTo, reassigned>>
<1> DEFINE new == [message |-> i, state |-> s, at |-> at, attached |-> Matched(i)]
           known == {n \in 1..Len(events) : events[n].message = i /\ events[n].state = s}
<1>1. /\ wire[i] # 0
      /\ events' = IF known = {} THEN Append(events, new)
                   ELSE [n \in 1..Len(events) |->
                           IF n \in known /\ Matched(i) THEN new ELSE events[n]]
      /\ \/ UNCHANGED <<delivery, row, overlapped>>
         \/ /\ delivery' = [delivery EXCEPT ![i] = Applied(@, new)]
            /\ row' = Recomputed(row, messages, delivery) /\ NoteCommit
      /\ UNCHANGED <<link, messages, marketVars, providerVars, held, request, clock,
                     readTo, handledTo, reassigned>>
  BY DEF Record
<1>2. NoteCommit => Commits
  BY Zenon DEF NoteCommit, Commits
<1>3. events \in Seq(Events) /\ Len(events) \in Nat /\ i \in Nat /\ at \in Nat
  BY TypesGive DEF TInv, TypeOK
<1>4. new \in Events /\ new.state = s
  <2>1. Matched(i) \in BOOLEAN
    BY DEF Matched
  <2> QED BY <1>3, <2>1 DEF Events
<1>5. known \subseteq 1..Len(events) /\ \A n \in known : events[n].state = s
  OBVIOUS
<1>6. row # NoRow
  BY ConversationExists
<1> HIDE DEF new, known
<1>7. /\ events' \in Seq(Events) /\ Len(events') \in Nat /\ Len(events) <= Len(events')
      /\ \A n \in 1..Len(events) : events'[n].state = events[n].state
      /\ \E n \in 1..Len(events') : events'[n].state = s
  <2>1. CASE known = {}
    <3>1. events' = Append(events, new)
      BY <1>1, <2>1
    <3>2. /\ events' \in Seq(Events) /\ Len(events') = Len(events) + 1
          /\ events'[Len(events) + 1] = new
          /\ \A n \in 1..Len(events) : events'[n] = events[n]
      BY <1>3, <1>4, <3>1
    <3> QED BY <1>3, <1>4, <3>2
  <2>2. CASE known # {}
    <3> DEFINE e(n) == IF n \in known /\ Matched(i) THEN new ELSE events[n]
    <3>1. events' = [n \in 1..Len(events) |-> e(n)]
      BY <1>1, <2>2
    <3>2. \A n \in 1..Len(events) : e(n) \in Events /\ e(n).state = events[n].state
      BY <1>3, <1>4, <1>5
    <3> HIDE DEF e
    <3>3. events' \in [1..Len(events) -> Events] /\ events' \in Seq(Events) /\ Len(events') = Len(events)
      BY <1>3, <3>1, <3>2
    <3>4. PICK n \in 1..Len(events) : events[n].state = s
      BY <1>5, <2>2
    <3> QED BY <1>3, <3>1, <3>2, <3>3, <3>4
  <2> QED BY <2>1, <2>2
<1> QED BY <1>1, <1>2, <1>4, <1>6, <1>7

LEMMA RecordTyped ==
  ASSUME TInv, NEW i \in 1..Len(messages), NEW s \in Reports, NEW at \in 1..clock, Record(i, s, at)
  PROVE  TInv'
<1>1. /\ row # NoRow /\ events' \in Seq(Events)
      /\ \/ UNCHANGED <<row, overlapped>>
         \/ row' = Recomputed(row, messages, delivery) /\ overlapped' \in BOOLEAN
      /\ UNCHANGED <<link, messages, marketVars, providerVars, held, request, clock,
                     readTo, handledTo, reassigned>>
  BY EventRecordedIs DEF Commits
<1>2. /\ row' = row \/ (row # NoRow /\ row' \in Rows /\ row'.resolved = row.resolved
                          /\ row'.customer = row.customer
                          /\ (row'.since # 0 => Received(messages) # {}))
  BY <1>1, RecomputedRow
<1>3. overlapped' \in BOOLEAN
  BY <1>1, TypesGive
<1>4. /\ wire' \in [1..MaxMessages -> Nat] /\ calls' \in [1..MaxMessages -> Nat]
      /\ request' \in [Requests -> [step : Steps, message : Nat, answer : Answers]]
      /\ Len(messages) \in Nat /\ Len(messages) <= MaxMessages
  BY <1>1, TypesGive DEF TInv, TypeOK, Steps, Answers, providerVars
<1>5. KeysAreDistinct' /\ InboundOK' /\ RequestOK' /\ \A m \in Inbounds : Recorded(m)' => Recorded(m)
  BY <1>1 DEF TInv, KeysAreDistinct, InboundOK, RequestOK, Recorded
<1>6. MaxMessages \in Nat
  BY InboxAssumption, FS_CardinalityType DEF MaxMessages
<1>7. Len(messages') \in Len(messages)..MaxMessages /\ messages' \in Seq(Messages)
      /\ Received(messages') = Received(messages)
  BY <1>1, <1>4, <1>6, TypesGive
<1> QED BY <1>1, <1>2, <1>3, <1>4, <1>5, <1>7, ReplyTyped

-----------------------------------------------------------------------------
(* Steps that leave the conversation, its messages and the replies alone.  *)

\* Discover, a collision and the death of a webhook.
Webhooks ==
  \E m \in Inbounds : Discover(m) \/ CollideFirst(m) \/ AbandonInbound(m)

LEMMA WebhooksAre ==
  ASSUME TInv, Webhooks
  PROVE  /\ UNCHANGED <<conversationVars, messageVars, marketVars, providerVars, historyVars,
                        request, clock>>
         /\ \E m \in Inbounds :
              \/ held' = [held EXCEPT ![m] = Idle]
              \/ LocksFree(m) /\ ~Recorded(m) /\ held' = [held EXCEPT ![m] = row]
<1>1. PICK m \in Inbounds : Discover(m) \/ CollideFirst(m) \/ AbandonInbound(m)
  BY DEF Webhooks
<1> QED BY <1>1 DEF Discover, CollideFirst, AbandonInbound

LEMMA WebhooksTyped ==
  ASSUME TInv, Webhooks
  PROVE  TInv'
<1>1. PICK m \in Inbounds :
        \/ held' = [held EXCEPT ![m] = Idle]
        \/ LocksFree(m) /\ ~Recorded(m) /\ held' = [held EXCEPT ![m] = row]
  BY WebhooksAre
<1>2. UNCHANGED <<row, link, messages, events, customers, owners, opportunities, wire, calls,
                  readTo, handledTo, overlapped, reassigned, request, clock>>
  BY WebhooksAre
     DEF conversationVars, messageVars, marketVars, providerVars, historyVars
<1>3. held \in [Inbounds -> Rows \cup {NoRow, Idle}] /\ row \in Rows \cup {NoRow}
  BY DEF TInv, TypeOK
<1>4. held' \in [Inbounds -> Rows \cup {NoRow, Idle}]
  BY <1>1, <1>3
<1>5. TypeOK'
  BY <1>2, <1>4 DEF TInv, TypeOK
<1>6. OneWebhook'
  <2>1. CASE held' = [held EXCEPT ![m] = Idle]
    BY <1>2, <1>3, <2>1 DEF TInv, OneWebhook, Recorded
  <2>2. CASE LocksFree(m) /\ ~Recorded(m) /\ held' = [held EXCEPT ![m] = row]
    BY <1>2, <1>3, <2>2 DEF TInv, OneWebhook, Recorded, LocksFree
  <2> QED BY <1>1, <2>1, <2>2
<1>7. KeysAreDistinct' /\ InboundOK' /\ RowOK' /\ RequestOK'
  BY <1>2 DEF TInv, KeysAreDistinct, InboundOK, RowOK, RequestOK
<1> QED BY <1>5, <1>6, <1>7 DEF TInv

\* Time passes, and other services change customers and opportunities.
Elsewhere ==
  \/ Tick
  \/ \E c \in Customers : DeleteCustomer(c) \/ AddOpportunity(c)
  \/ \E o \in 1..Len(opportunities), s \in {"closed", "deleted"} : EndOpportunity(o, s)

LEMMA ElsewhereIs ==
  ASSUME TInv, Elsewhere
  PROVE  /\ UNCHANGED <<conversationVars, messageVars, owners, providerVars, historyVars,
                        held, request>>
         /\ clock' \in Nat \ {0}
         /\ customers' \in [Customers -> {"absent", "live", "deleted"}]
         /\ opportunities' \in Seq(Opportunities) /\ Len(opportunities) <= Len(opportunities')
         /\ \A o \in 1..Len(opportunities) : opportunities'[o].customer = opportunities[o].customer
<1>1. clock \in Nat \ {0}
  BY DEF TInv, TypeOK
<1>2. CASE Tick
  BY <1>1, <1>2, TypesGive DEF Tick, marketVars
<1>3. ASSUME NEW c \in Customers, DeleteCustomer(c)
      PROVE  /\ UNCHANGED <<conversationVars, messageVars, owners, providerVars, historyVars,
                            held, request, clock, opportunities>>
             /\ customers' \in [Customers -> {"absent", "live", "deleted"}]
  BY <1>3, TypesGive DEF DeleteCustomer, Change
<1>4. ASSUME NEW c \in Customers, AddOpportunity(c)
      PROVE  /\ UNCHANGED <<conversationVars, messageVars, owners, providerVars, historyVars,
                            held, request, clock, customers>>
             /\ opportunities' = Append(opportunities, NewOpportunity(c, FALSE))
  BY <1>4 DEF AddOpportunity, Change
<1>5. ASSUME NEW o \in 1..Len(opportunities), NEW s \in {"closed", "deleted"}, EndOpportunity(o, s)
      PROVE  /\ UNCHANGED <<conversationVars, messageVars, owners, providerVars, historyVars,
                            held, request, clock, customers>>
             /\ opportunities' \in Seq(Opportunities) /\ Len(opportunities') = Len(opportunities)
             /\ \A p \in 1..Len(opportunities) :
                  opportunities'[p].customer = opportunities[p].customer
  <2>1. opportunities \in Seq(Opportunities) /\ opportunities[o] \in Opportunities
    BY TypesGive
  <2> DEFINE ended == [opportunities[o] EXCEPT !.status = s]
  <2>2. ended \in Opportunities /\ ended.customer = opportunities[o].customer
    BY <2>1 DEF Opportunities
  <2>3. /\ UNCHANGED <<conversationVars, messageVars, owners, providerVars, historyVars,
                       held, request, clock, customers>>
        /\ opportunities' = [opportunities EXCEPT ![o] = ended]
    BY <1>5 DEF EndOpportunity, Change
  <2> HIDE DEF ended
  <2> QED BY <2>1, <2>2, <2>3
<1>6. ASSUME NEW c \in Customers, AddOpportunity(c)
      PROVE  /\ opportunities' \in Seq(Opportunities) /\ Len(opportunities) <= Len(opportunities')
             /\ \A o \in 1..Len(opportunities) : opportunities'[o].customer = opportunities[o].customer
  <2>1. NewOpportunity(c, FALSE) \in Opportunities
    BY NewOpportunityIs
  <2>2. opportunities' = Append(opportunities, NewOpportunity(c, FALSE))
    BY <1>4, <1>6
  <2>3. /\ opportunities' \in Seq(Opportunities)
        /\ Len(opportunities') = Len(opportunities) + 1
        /\ \A o \in 1..Len(opportunities) : opportunities'[o] = opportunities[o]
    BY <2>1, <2>2, OpportunitiesGrow
  <2> QED BY <2>3, TypesGive
<1>7. CASE \E c \in Customers : DeleteCustomer(c)
  BY <1>1, <1>3, <1>7, TypesGive
<1>8. CASE \E c \in Customers : AddOpportunity(c)
  BY <1>1, <1>4, <1>6, <1>8, TypesGive
<1>9. CASE \E o \in 1..Len(opportunities), s \in {"closed", "deleted"} : EndOpportunity(o, s)
  BY <1>1, <1>5, <1>9, TypesGive
<1> QED BY <1>2, <1>7, <1>8, <1>9 DEF Elsewhere

LEMMA ElsewhereTyped ==
  ASSUME TInv, Elsewhere
  PROVE  TInv'
<1>1. /\ UNCHANGED <<row, link, messages, events, owners, wire, calls,
                     readTo, handledTo, overlapped, reassigned, held, request>>
      /\ clock' \in Nat \ {0}
      /\ customers' \in [Customers -> {"absent", "live", "deleted"}]
      /\ opportunities' \in Seq(Opportunities) /\ Len(opportunities) <= Len(opportunities')
  BY ElsewhereIs DEF conversationVars, messageVars, providerVars, historyVars
<1>2. link' \in 0..Len(opportunities')
  BY <1>1, TypesGive
<1>3. TypeOK'
  BY <1>1, <1>2 DEF TInv, TypeOK
<1>4. KeysAreDistinct' /\ InboundOK' /\ OneWebhook' /\ RowOK' /\ RequestOK'
  BY <1>1 DEF TInv, KeysAreDistinct, InboundOK, OneWebhook, RowOK, RequestOK, Recorded
<1> QED BY <1>3, <1>4 DEF TInv


\* A repeated request finds its message again, or a request's process dies.
Resumes ==
  \E q \in Requests :
    AbandonRequest(q) \/ \E k \in Replies, template \in BOOLEAN : Repeat(q, k, template)

LEMMA ResumesIs ==
  ASSUME TInv, Resumes
  PROVE  /\ UNCHANGED <<conversationVars, messageVars, marketVars, providerVars, historyVars,
                        held, clock>>
         /\ \E q \in Requests :
              /\ request' \in [Requests -> [step : Steps, message : Nat, answer : Answers]]
              /\ \A p \in Requests \ {q} : request'[p] = request[p]
              /\ request'[q].step \in {"idle", "start"}
              /\ request'[q].step # "idle" =>
                   /\ request'[q].message \in 1..Len(messages)
                   /\ ~messages[request'[q].message].inbound
<1>1. ASSUME NEW q \in Requests, AbandonRequest(q)
      PROVE  /\ UNCHANGED <<conversationVars, messageVars, marketVars, providerVars, historyVars,
                            held, clock>>
             /\ request' \in [Requests -> [step : Steps, message : Nat, answer : Answers]]
             /\ \A p \in Requests \ {q} : request'[p] = request[p]
             /\ request'[q].step = "idle"
  <2>1. /\ GoTo(q, "idle", "none")
        /\ UNCHANGED <<conversationVars, messageVars, marketVars, providerVars, historyVars,
                       held, clock>>
    BY <1>1 DEF AbandonRequest
  <2> QED BY <2>1, GoToIs DEF Steps, Answers
<1>2. ASSUME NEW q \in Requests, NEW k \in Replies, NEW template \in BOOLEAN,
             Repeat(q, k, template)
      PROVE  /\ UNCHANGED <<conversationVars, messageVars, marketVars, providerVars, historyVars,
                            held, clock>>
             /\ request' \in [Requests -> [step : Steps, message : Nat, answer : Answers]]
             /\ \A p \in Requests \ {q} : request'[p] = request[p]
             /\ request'[q].step = "start"
             /\ request'[q].message \in 1..Len(messages)
             /\ ~messages[request'[q].message].inbound
  <2>1. PICK i \in 1..Len(messages) :
          /\ messages[i].dispatch = "PENDING"
          /\ request' = [request EXCEPT ![q] = [step |-> "start", message |-> i, answer |-> "none"]]
    BY <1>2 DEF Repeat, MessageOf
  <2>2. request \in [Requests -> [step : Steps, message : Nat, answer : Answers]] /\ i \in Nat
    BY TypesGive DEF TInv, TypeOK, Steps, Answers
  <2>3. ~messages[i].inbound
    BY <2>1, MessageIs, TypesGive DEF TInv, InboundOK
  <2>4. UNCHANGED <<conversationVars, messageVars, marketVars, providerVars, historyVars,
                    held, clock>>
    BY <1>2 DEF Repeat
  <2> QED BY <2>1, <2>2, <2>3, <2>4 DEF Steps, Answers
<1>3. CASE \E q \in Requests : AbandonRequest(q)
  BY <1>1, <1>3
<1>4. CASE \E q \in Requests, k \in Replies, template \in BOOLEAN : Repeat(q, k, template)
  BY <1>2, <1>4
<1> QED BY <1>3, <1>4 DEF Resumes

LEMMA ResumesTyped ==
  ASSUME TInv, Resumes
  PROVE  TInv'
<1>1. PICK q \in Requests :
        /\ request' \in [Requests -> [step : Steps, message : Nat, answer : Answers]]
        /\ \A p \in Requests \ {q} : request'[p] = request[p]
        /\ request'[q].step # "idle" =>
             /\ request'[q].message \in 1..Len(messages)
             /\ ~messages[request'[q].message].inbound
  BY ResumesIs
<1>2. UNCHANGED <<row, link, messages, events, customers, owners, opportunities, wire, calls,
                  readTo, handledTo, overlapped, reassigned, held, clock>>
  BY ResumesIs
     DEF conversationVars, messageVars, marketVars, providerVars, historyVars
<1>3. RequestOK'
  BY <1>1, <1>2 DEF TInv, RequestOK
<1>4. TypeOK'
  BY <1>1, <1>2 DEF TInv, TypeOK, Steps, Answers
<1>5. KeysAreDistinct' /\ InboundOK' /\ OneWebhook' /\ RowOK'
  BY <1>2 DEF TInv, KeysAreDistinct, InboundOK, OneWebhook, RowOK, Recorded
<1> QED BY <1>3, <1>4, <1>5 DEF TInv

-----------------------------------------------------------------------------
(* The type invariant.                                                     *)

\* The steps, as the proofs tell them apart.
Inbound ==
  \E m \in Inbounds, at \in Nat \ {0} : Receive(m, at) \/ ReceiveFirst(m, at)
Prepares ==
  \E q \in Requests, k \in Replies, template \in BOOLEAN :
    \E t \in {0} \cup {i \in 1..Len(messages) : ~messages[i].inbound} : Prepare(q, k, t, template)
Dispatches ==
  \E q \in Requests :
    \/ StartDispatch(q) \/ ReconcileAccepted(q) \/ ReconcileError(q)
    \/ \E accepted \in BOOLEAN, answer \in {"accepted", "refused", "unknown"} :
         Call(q, accepted, answer)
Records ==
  \E i \in 1..Len(messages), s \in Reports, at \in 1..clock : Record(i, s, at)

LEMMA NextCases ==
  ASSUME TInv, Next
  PROVE  \/ Elsewhere \/ Webhooks \/ Inbound \/ Commands \/ Prepares \/ Resumes
         \/ Dispatches \/ Records
<1>1. clock \in Nat \ {0}
  BY DEF TInv, TypeOK
<1>2. \A at \in {clock - 1, clock} \ {0} : at \in Nat \ {0}
  BY <1>1
<1>3. (\E m \in Inbounds, at \in {clock - 1, clock} \ {0} : Receive(m, at) \/ ReceiveFirst(m, at))
        => Inbound
  BY <1>2 DEF Inbound
<1>4. CASE \E q \in Requests, k \in Replies, template \in BOOLEAN :
             \/ \E t \in {0} \cup {i \in 1..Len(messages) : ~messages[i].inbound} : Prepare(q, k, t, template)
             \/ Repeat(q, k, template)
  BY <1>4 DEF Prepares, Resumes
<1>5. CASE \E q \in Requests :
             \/ StartDispatch(q) \/ ReconcileAccepted(q) \/ ReconcileError(q) \/ AbandonRequest(q)
             \/ \E accepted \in BOOLEAN, answer \in {"accepted", "refused", "unknown"} :
                  Call(q, accepted, answer)
  BY <1>5 DEF Dispatches, Resumes
<1>6. CASE \E c \in Customers : Resolve(c) \/ DeleteCustomer(c) \/ AddOpportunity(c)
  BY <1>6 DEF Commands, Elsewhere
<1>7. CASE \E o \in 1..Len(opportunities) :
             \/ LinkOpportunity(o) \/ OpenForOpportunity(o)
             \/ \E s \in {"closed", "deleted"} : EndOpportunity(o, s)
  BY <1>7 DEF Commands, Elsewhere
<1>8. CASE MarkRead \/ MarkHandled \/ Hide \/ CreateOpportunity \/ Unlink
  BY <1>8 DEF Commands
<1>9. CASE Tick \/ \E m \in Inbounds : Discover(m) \/ CollideFirst(m) \/ AbandonInbound(m)
  BY <1>9 DEF Elsewhere, Webhooks
<1>10. CASE \E i \in 1..Len(messages), s \in Reports, at \in 1..clock : Record(i, s, at)
  BY <1>10 DEF Records
<1> QED BY <1>3, <1>4, <1>5, <1>6, <1>7, <1>8, <1>9, <1>10 DEF Next

LEMMA InitTyped ==
  ASSUME Init
  PROVE  TInv
<1>1. TypeOK
  <2>1. MaxMessages \in Nat
    BY InboxAssumption, FS_CardinalityType DEF MaxMessages
  <2>2. messages \in Seq(Messages) /\ events \in Seq(Events) /\ opportunities \in Seq(Opportunities)
        /\ Len(messages) = 0 /\ Len(opportunities) = 0
    BY DEF Init
  <2>3. customers \in [Customers -> {"absent", "live", "deleted"}] /\ owners \subseteq Customers
    BY DEF Init
  <2>4. /\ held \in [Inbounds -> Rows \cup {NoRow, Idle}]
        /\ request \in [Requests -> [step : {"idle", "start", "call", "reconcile"}, message : Nat,
                                     answer : {"none", "accepted", "refused", "unknown"}]]
        /\ wire \in [1..MaxMessages -> Nat] /\ calls \in [1..MaxMessages -> Nat]
    BY DEF Init
  <2>5. /\ row = NoRow /\ link = 0 /\ clock = 1 /\ readTo = 0 /\ handledTo = 0
        /\ overlapped = FALSE /\ reassigned = FALSE
    BY DEF Init
  <2>6. /\ link \in 0..Len(opportunities) /\ Len(messages) <= MaxMessages
        /\ readTo \in 0..Len(messages) /\ handledTo \in 0..Len(messages) /\ clock \in Nat \ {0}
    BY <2>1, <2>2, <2>5
  <2>7. overlapped \in BOOLEAN /\ reassigned \in BOOLEAN
    BY <2>5
  <2>8. row \in Rows \cup {NoRow} /\ (row # NoRow => (row.resolved => row.customer # NoRow))
    BY <2>5
  <2> QED BY <2>2, <2>3, <2>4, <2>6, <2>7, <2>8 DEF TypeOK
<1>2. KeysAreDistinct /\ InboundOK /\ OneWebhook /\ RowOK /\ RequestOK
  BY DEF Init, KeysAreDistinct, InboundOK, OneWebhook, RowOK, RequestOK
<1> QED BY <1>1, <1>2 DEF TInv

LEMMA NextTyped ==
  ASSUME TInv, [Next]_vars
  PROVE  TInv'
<1>1. CASE Inbound
  <2>1. PICK m \in Inbounds, at \in Nat \ {0} : Receive(m, at) \/ ReceiveFirst(m, at)
    BY <1>1 DEF Inbound
  <2>2. CASE Receive(m, at)
    <3>1. /\ row \in Rows /\ row' \in Rows /\ row'.customer = row.customer
          /\ row'.resolved => row.resolved
          /\ messages' = Append(messages, InboundMessage(m, at))
          /\ held' = [held EXCEPT ![m] = Idle] /\ held[m] # Idle
          /\ opportunities' \in Seq(Opportunities) /\ link' \in 0..Len(opportunities')
          /\ UNCHANGED <<delivery, events, customers, owners, providerVars, historyVars, request, clock>>
      BY <2>2, ReceiveIs
    <3>2. row'.resolved => row'.customer # NoRow
      BY <3>1, NoRowIsNone, RowIs
    <3>3. customers' \in [Customers -> {"absent", "live", "deleted"}] /\ owners' \subseteq Customers
      BY <3>1 DEF TInv, TypeOK
    <3> QED BY <3>1, <3>2, <3>3, InboundTyped
  <2>3. CASE ReceiveFirst(m, at)
    <3>1. /\ row' \in Rows /\ (row'.resolved => row'.customer # NoRow)
          /\ messages' = Append(messages, InboundMessage(m, at))
          /\ held' = [held EXCEPT ![m] = Idle] /\ held[m] # Idle
          /\ opportunities' \in Seq(Opportunities) /\ link' \in 0..Len(opportunities')
          /\ customers' \in [Customers -> {"absent", "live", "deleted"}]
          /\ owners' \subseteq Customers
          /\ UNCHANGED <<delivery, events, providerVars, historyVars, request, clock>>
      BY <2>3, ReceiveFirstIs
    <3> QED BY <3>1, InboundTyped
  <2> QED BY <2>1, <2>2, <2>3
<1>2. CASE Prepares
  BY <1>2, PrepareTyped DEF Prepares
<1>3. CASE Dispatches
  BY <1>3, StartDispatchTyped, ReconcileAcceptedTyped, ReconcileErrorTyped, CallTyped DEF Dispatches
<1>4. CASE Records
  BY <1>4, RecordTyped DEF Records
<1>5. CASE UNCHANGED vars
  <2>1. UNCHANGED <<row, link, messages, events, customers, owners, opportunities, wire, calls,
                    readTo, handledTo, overlapped, reassigned, held, request, clock>>
    BY <1>5 DEF vars, conversationVars, messageVars, marketVars, providerVars, historyVars
  <2> QED BY <2>1 DEF TInv, TypeOK, KeysAreDistinct, InboundOK, OneWebhook, RowOK, RequestOK, Recorded
<1> QED BY <1>1, <1>2, <1>3, <1>4, <1>5, NextCases, ElsewhereTyped, WebhooksTyped, CommandsTyped,
           ResumesTyped

\* The variables keep their types, no message id has two rows, and a request
\* under way has a reply (the transactions of receive() and of the sender).
THEOREM TypeCorrect == Spec => []TypeOK
<1>1. Init => TInv
  BY InitTyped
<1>2. TInv /\ [Next]_vars => TInv'
  BY NextTyped
<1>3. TInv => TypeOK
  BY DEF TInv
<1> QED BY <1>1, <1>2, <1>3, PTL DEF Spec

-----------------------------------------------------------------------------
(* One reply at a time.                                                    *)

\* A reply is handed over by the one request that started it.
Sending == {q \in Requests : request[q].step \in {"call", "reconcile"}}
SendInv ==
  /\ \A q \in Sending : messages[request[q].message].dispatch = "IN_PROGRESS"
  /\ \A p, q \in Sending : request[p].message = request[q].message => p = q
  /\ \A q \in Requests : request[q].step = "call" => calls[request[q].message] = 0
  /\ \A i \in 1..MaxMessages :
       (i <= Len(messages) => messages[i].dispatch = "PENDING") => calls[i] = 0
  /\ OneReplyAtATime

LEMMA SendKept ==
  ASSUME SendInv, UNCHANGED <<messages, request, calls>>
  PROVE  SendInv'
BY DEF SendInv, Sending, OneReplyAtATime, Open

LEMMA InboundSends ==
  ASSUME TInv, SendInv, Inbound
  PROVE  SendInv'
<1>1. PICK m \in Inbounds, at \in Nat \ {0} : Receive(m, at) \/ ReceiveFirst(m, at)
  BY DEF Inbound
<1>2. /\ messages' = Append(messages, InboundMessage(m, at))
      /\ held' = [held EXCEPT ![m] = Idle] /\ held[m] # Idle
      /\ UNCHANGED <<providerVars, request>>
  BY <1>1, ReceiveIs, ReceiveFirstIs
<1>3. /\ Len(messages') = Len(messages) + 1
      /\ messages'[Len(messages) + 1] = InboundMessage(m, at)
      /\ \A i \in 1..Len(messages) : messages'[i] = messages[i]
  BY <1>2, InboundMessageIs
<1>4. messages'[Len(messages) + 1].dispatch = "NONE"
  BY <1>3 DEF InboundMessage
<1>5. calls' = calls /\ request' = request /\ Sending' = Sending
  BY <1>2 DEF providerVars, Sending
<1>6. Len(messages) \in Nat /\ MaxMessages \in Nat
  BY TypesGive, InboxAssumption, FS_CardinalityType DEF MaxMessages
<1>7. Open' = Open
  BY <1>3, <1>4, <1>6 DEF Open
<1>8. OneReplyAtATime'
  BY <1>3, <1>5, <1>7 DEF SendInv, OneReplyAtATime, Open
<1>9. \A q \in Sending : request[q].message \in 1..Len(messages)
  BY UnderWay DEF Sending
<1>10. \A i \in 1..MaxMessages :
         (i <= Len(messages') => messages'[i].dispatch = "PENDING") => calls[i] = 0
  BY <1>3, <1>4, <1>6 DEF SendInv
<1> QED BY <1>3, <1>5, <1>8, <1>9, <1>10 DEF SendInv

LEMMA PreparesSends ==
  ASSUME TInv, SendInv, Prepares
  PROVE  SendInv'
<1>1. PICK q \in Requests, k \in Replies, template \in BOOLEAN,
           t \in {0} \cup {i \in 1..Len(messages) : ~messages[i].inbound} : Prepare(q, k, t, template)
  BY DEF Prepares
<1> DEFINE i == Len(messages) + 1
<1>2. /\ Resendable(t) /\ Unsettled(t) = {} /\ Len(messages') = i /\ Len(messages') <= MaxMessages
      /\ messages'[i].dispatch = "PENDING" /\ messages'[i].retryOf = t
      /\ \A j \in 1..Len(messages) : messages'[j] = messages[j]
      /\ request' = [request EXCEPT ![q] = [step |-> "start", message |-> i, answer |-> "none"]]
      /\ UNCHANGED providerVars
  BY <1>1, PrepareIs
<1>3. request[q].step = "idle"
  BY <1>1 DEF Prepare
<1>4. calls' = calls /\ Len(messages) \in Nat /\ MaxMessages \in Nat /\ i \in 1..MaxMessages
  BY <1>2, TypesGive, InboxAssumption, FS_CardinalityType DEF MaxMessages, providerVars
<1>5. request'[q].step = "start" /\ \A p \in Requests \ {q} : request'[p] = request[p]
  BY <1>2 DEF TInv, TypeOK
<1>6. Sending' = Sending /\ q \notin Sending
  BY <1>3, <1>5 DEF Sending
<1>7. \A p \in Sending : request'[p] = request[p] /\ request[p].message \in 1..Len(messages)
  BY <1>5, <1>6, UnderWay DEF Sending
<1>8. \A p \in Sending : messages'[request'[p].message].dispatch = "IN_PROGRESS"
  BY <1>2, <1>7 DEF SendInv
<1>9. \A p \in Requests : request'[p].step = "call" => calls[request'[p].message] = 0
  BY <1>5 DEF SendInv
<1>10. \A j \in 1..MaxMessages :
         (j <= Len(messages') => messages'[j].dispatch = "PENDING") => calls[j] = 0
  BY <1>2, <1>4 DEF SendInv
<1>11. Open' = Open \cup {i}
  BY <1>2, <1>4 DEF Open
<1>12. \A j \in Open : j = t /\ messages[j].dispatch = "UNKNOWN" /\ j \in 1..Len(messages)
  BY <1>2 DEF Open, Unsettled, Resendable
<1>13. \A j, n \in Open' : j < n => messages'[j].dispatch = "UNKNOWN" /\ messages'[n].retryOf = j
  BY <1>2, <1>4, <1>11, <1>12
<1>14. OneReplyAtATime'
  BY <1>4, <1>13 DEF SendInv, OneReplyAtATime
<1>15. \A p, r \in Sending : request'[p].message = request'[r].message => p = r
  BY <1>7 DEF SendInv
<1> QED BY <1>4, <1>6, <1>8, <1>9, <1>10, <1>14, <1>15 DEF SendInv

LEMMA ResumesSends ==
  ASSUME TInv, SendInv, Resumes
  PROVE  SendInv'
<1>1. PICK q \in Requests :
        /\ \A p \in Requests \ {q} : request'[p] = request[p]
        /\ request'[q].step \in {"idle", "start"}
  BY ResumesIs
<1>2. messages' = messages /\ calls' = calls
  BY ResumesIs DEF messageVars, providerVars
<1>3. Sending' = Sending \ {q}
  BY <1>1 DEF Sending
<1>4. OneReplyAtATime'
  BY <1>2 DEF SendInv, OneReplyAtATime, Open
<1>5. \A p \in Sending' : request'[p] = request[p] /\ p \in Sending
  BY <1>1, <1>3 DEF Sending
<1>6. \A p \in Requests : request'[p].step = "call" => calls'[request'[p].message] = 0
  BY <1>1, <1>2 DEF SendInv
<1> QED BY <1>2, <1>4, <1>5, <1>6 DEF SendInv

\* Of two open replies the change concerns the later one.
LEMMA PairsKept ==
  ASSUME TInv, SendInv, NEW i \in 1..Len(messages), NEW s, NEW at, MessageBecomes(i, s, at),
         messages[i].dispatch \in {"PENDING", "IN_PROGRESS"},
         \A n \in 1..MaxMessages : calls'[n] <= 1
  PROVE  OneReplyAtATime'
<1>1. Open' \subseteq Open
  BY DEF MessageBecomes, Open
<1>2. ASSUME NEW j \in Open', NEW n \in Open', j < n
      PROVE  messages'[j].dispatch = "UNKNOWN" /\ messages'[n].retryOf = j
  <2>1. j \in Open /\ n \in Open /\ j \in 1..Len(messages) /\ n \in 1..Len(messages)
    BY <1>1 DEF Open
  <2>2. messages[j].dispatch = "UNKNOWN" /\ messages[n].retryOf = j
    BY <1>2, <2>1 DEF SendInv, OneReplyAtATime
  <2>3. j # i
    BY <2>2
  <2> QED BY <2>1, <2>2, <2>3 DEF MessageBecomes
<1> QED BY <1>2 DEF OneReplyAtATime

LEMMA StartDispatchSends ==
  ASSUME TInv, SendInv, NEW q \in Requests, StartDispatch(q)
  PROVE  SendInv'
<1> DEFINE i == request[q].message
<1>1. /\ request[q].step = "start" /\ calls' = calls
      /\ \/ messages[i].dispatch = "PENDING" /\ SetDispatch(i, "IN_PROGRESS") /\ GoTo(q, "call", "none")
         \/ messages' = messages /\ GoTo(q, "idle", "none")
  BY DEF StartDispatch, Startable, providerVars
<1>2. i \in 1..Len(messages) /\ i \in 1..MaxMessages
  BY <1>1, UnderWay
<1>3. q \notin Sending
  BY <1>1 DEF Sending
<1>4. \A p \in Sending : request[p].message \in 1..Len(messages)
  BY UnderWay DEF Sending
<1>5. CASE messages[i].dispatch = "PENDING" /\ SetDispatch(i, "IN_PROGRESS") /\ GoTo(q, "call", "none")
  <2>1. MessageBecomes(i, "IN_PROGRESS", messages[i].at)
    BY <1>2, <1>5, SetDispatchIs DEF DispatchStates
  <2>2. /\ \A p \in Requests \ {q} : request'[p] = request[p]
        /\ request'[q].step = "call" /\ request'[q].message = i
    BY <1>5, GoToIs DEF Steps, Answers
  <2> HIDE DEF i
  <2>3. Sending' = Sending \cup {q} /\ \A p \in Sending : request'[p] = request[p]
    BY <1>3, <2>2 DEF Sending
  <2>4. calls[i] = 0
    BY <1>2, <1>5 DEF SendInv
  <2>5. \A p \in Sending : request[p].message # i
    BY <1>5 DEF SendInv
  <2>6. OneReplyAtATime'
    BY <1>1, <1>2, <1>5, <2>1, PairsKept DEF SendInv, OneReplyAtATime
  <2>7. \A p \in Sending' : messages'[request'[p].message].dispatch = "IN_PROGRESS"
    BY <1>4, <2>1, <2>2, <2>3, <2>5 DEF SendInv, MessageBecomes
  <2>8. \A p, r \in Sending' : request'[p].message = request'[r].message => p = r
    BY <2>2, <2>3, <2>5 DEF SendInv
  <2>9. \A p \in Requests : request'[p].step = "call" => calls'[request'[p].message] = 0
    BY <1>1, <2>2, <2>4 DEF SendInv
  <2>10. \A n \in 1..MaxMessages :
           (n <= Len(messages') => messages'[n].dispatch = "PENDING") => calls'[n] = 0
    <3>1. TAKE n \in 1..MaxMessages
    <3>2. CASE n = i
      BY <1>1, <2>4, <3>2
    <3>3. CASE n # i
      <4>1. n <= Len(messages) => n \in 1..Len(messages)
        OBVIOUS
      <4> QED BY <1>1, <2>1, <3>3, <4>1 DEF SendInv, MessageBecomes
    <3> QED BY <3>2, <3>3
  <2> QED BY <2>6, <2>7, <2>8, <2>9, <2>10 DEF SendInv
<1>6. CASE messages' = messages /\ GoTo(q, "idle", "none")
  <2>1. request'[q].step = "idle" /\ \A p \in Requests \ {q} : request'[p] = request[p]
    BY <1>6, GoToIs DEF Steps, Answers
  <2>2. Sending' = Sending /\ \A p \in Sending : request'[p] = request[p]
    BY <1>3, <2>1 DEF Sending
  <2>3. OneReplyAtATime'
    BY <1>1, <1>6 DEF SendInv, OneReplyAtATime, Open
  <2>4. \A p \in Requests : request'[p].step = "call" => calls'[request'[p].message] = 0
    BY <1>1, <2>1 DEF SendInv
  <2> QED BY <1>1, <1>6, <2>2, <2>3, <2>4 DEF SendInv
<1> QED BY <1>1, <1>5, <1>6

LEMMA CallSends ==
  ASSUME TInv, SendInv, NEW q \in Requests, NEW accepted \in BOOLEAN,
         NEW answer \in {"accepted", "refused", "unknown"}, Call(q, accepted, answer)
  PROVE  SendInv'
<1> DEFINE i == request[q].message
<1>1. /\ request[q].step = "call" /\ GoTo(q, "reconcile", answer) /\ messages' = messages
      /\ calls' = [calls EXCEPT ![i] = @ + 1]
  BY DEF Call, messageVars
<1>2. i \in 1..Len(messages) /\ i \in 1..MaxMessages
  BY <1>1, UnderWay
<1>3. /\ \A p \in Requests \ {q} : request'[p] = request[p]
      /\ request'[q].step = "reconcile" /\ request'[q].message = i
  BY <1>1, GoToIs DEF Steps, Answers
<1>4. q \in Sending /\ calls[i] = 0 /\ messages[i].dispatch = "IN_PROGRESS"
  BY <1>1 DEF Sending, SendInv
<1>5. calls \in [1..MaxMessages -> Nat]
  BY DEF TInv, TypeOK
<1> HIDE DEF i
<1>6. calls'[i] = 1 /\ \A n \in 1..MaxMessages : n # i => calls'[n] = calls[n]
  BY <1>1, <1>2, <1>4, <1>5
<1>7. Sending' = Sending /\ \A p \in Sending : request'[p].message = request[p].message
  BY <1>3, <1>4 DEF Sending, i
<1>8. \A p \in Requests : request'[p].step = "call" => calls'[request'[p].message] = 0
  <2>1. TAKE p \in Requests
  <2>2. HAVE request'[p].step = "call"
  <2>3. p # q /\ request'[p] = request[p]
    BY <1>3, <2>2
  <2>4. p \in Sending /\ calls[request[p].message] = 0
    BY <2>2, <2>3 DEF SendInv, Sending
  <2>5. request[p].message # i
    BY <1>4, <2>3, <2>4 DEF SendInv, i
  <2>6. request[p].message \in 1..MaxMessages
    BY <2>2, <2>3, UnderWay
  <2> QED BY <1>6, <2>3, <2>4, <2>5, <2>6
<1>9. \A n \in 1..MaxMessages :
        (n <= Len(messages') => messages'[n].dispatch = "PENDING") => calls'[n] = 0
  BY <1>1, <1>2, <1>4, <1>6 DEF SendInv
<1>10. \A n \in 1..MaxMessages : calls'[n] <= 1
  BY <1>5, <1>6 DEF SendInv, OneReplyAtATime
<1>11. OneReplyAtATime'
  BY <1>1, <1>10 DEF SendInv, OneReplyAtATime, Open
<1> QED BY <1>1, <1>7, <1>8, <1>9, <1>11 DEF SendInv

\* The end of a request: its reply, if it was in progress, is settled.
LEMMA SettleSends ==
  ASSUME TInv, SendInv, NEW q \in Requests, request[q].step = "reconcile",
         GoTo(q, "idle", "none"), calls' = calls, NEW s, NEW at, s # "PENDING",
         MessageBecomes(request[q].message, s, at) \/ messages' = messages
  PROVE  SendInv'
<1> DEFINE i == request[q].message
<1>1. i \in 1..Len(messages) /\ i \in 1..MaxMessages
  BY UnderWay
<1>2. request'[q].step = "idle" /\ \A p \in Requests \ {q} : request'[p] = request[p]
  BY GoToIs DEF Steps, Answers
<1>3. q \in Sending /\ messages[i].dispatch = "IN_PROGRESS"
  BY DEF Sending, SendInv
<1>4. Sending' = Sending \ {q} /\ \A p \in Sending' : request'[p] = request[p]
  BY <1>2 DEF Sending
<1>5. \A p \in Sending' : request[p].message \in 1..Len(messages) /\ request[p].message # i
  BY <1>3, <1>4, UnderWay DEF Sending, SendInv
<1>6. \A p \in Requests : request'[p].step = "call" => calls'[request'[p].message] = 0
  BY <1>2 DEF SendInv
<1>7. \A p, r \in Sending' : request'[p].message = request'[r].message => p = r
  BY <1>4 DEF SendInv
<1> HIDE DEF i
<1>8. CASE MessageBecomes(i, s, at)
  <2>1. OneReplyAtATime'
    BY <1>1, <1>3, <1>8, PairsKept DEF SendInv, OneReplyAtATime
  <2>2. \A p \in Sending' : messages'[request'[p].message].dispatch = "IN_PROGRESS"
    BY <1>4, <1>5, <1>8 DEF SendInv, MessageBecomes
  <2>3. \A n \in 1..MaxMessages :
          (n <= Len(messages') => messages'[n].dispatch = "PENDING") => calls'[n] = 0
    <3>1. TAKE n \in 1..MaxMessages
    <3>2. CASE n = i
      BY <1>1, <1>8, <3>2 DEF MessageBecomes
    <3>3. CASE n # i
      <4>1. n <= Len(messages) => n \in 1..Len(messages)
        OBVIOUS
      <4> QED BY <1>8, <3>3, <4>1 DEF SendInv, MessageBecomes
    <3> QED BY <3>2, <3>3
  <2> QED BY <1>6, <1>7, <2>1, <2>2, <2>3 DEF SendInv
<1>9. CASE messages' = messages
  <2>1. OneReplyAtATime'
    BY <1>9 DEF SendInv, OneReplyAtATime, Open
  <2> QED BY <1>4, <1>6, <1>7, <1>9, <2>1 DEF SendInv
<1> QED BY <1>8, <1>9 DEF i

LEMMA DispatchesSends ==
  ASSUME TInv, SendInv, Dispatches
  PROVE  SendInv'
<1>1. ASSUME NEW q \in Requests, ReconcileAccepted(q)
      PROVE  SendInv'
  <2>1. /\ request[q].step = "reconcile" /\ GoTo(q, "idle", "none")
        /\ calls' = calls
        /\ MessageBecomes(request[q].message, "ACCEPTED", wire[request[q].message])
             \/ messages' = messages
    BY <1>1, ReconcileAcceptedIs DEF providerVars, messageVars
  <2> QED BY <2>1, SettleSends
<1>2. ASSUME NEW q \in Requests, ReconcileError(q)
      PROVE  SendInv'
  <2> DEFINE s == IF request[q].answer = "unknown" THEN "UNKNOWN" ELSE "DEFINITIVE_FAILED"
             i == request[q].message
  <2>1. /\ request[q].step = "reconcile" /\ GoTo(q, "idle", "none") /\ calls' = calls
        /\ SetDispatch(i, s) \/ messages' = messages
    BY <1>2 DEF ReconcileError, providerVars
  <2>2. i \in 1..Len(messages)
    BY <2>1, UnderWay
  <2>3. s \in DispatchStates /\ s # "PENDING"
    BY DEF DispatchStates
  <2> HIDE DEF s
  <2>4. MessageBecomes(i, s, messages[i].at) \/ messages' = messages
    BY <2>1, <2>2, <2>3, SetDispatchIs
  <2> QED BY <2>1, <2>3, <2>4, SettleSends
<1> QED BY <1>1, <1>2, StartDispatchSends, CallSends DEF Dispatches

LEMMA InitSends ==
  ASSUME Init
  PROVE  SendInv
<1>1. MaxMessages \in Nat /\ Len(messages) = 0
  BY InboxAssumption, FS_CardinalityType DEF MaxMessages, Init
<1>2. Sending = {} /\ Open = {} /\ \A i \in 1..MaxMessages : calls[i] = 0
  BY <1>1 DEF Init, Sending, Open
<1>3. \A q \in Requests : request[q].step = "idle"
  BY DEF Init
<1> QED BY <1>2, <1>3 DEF SendInv, OneReplyAtATime

LEMMA NextSends ==
  ASSUME TInv, SendInv, [Next]_vars
  PROVE  SendInv'
<1>1. Elsewhere \/ Webhooks \/ Commands \/ Records \/ UNCHANGED vars
        => SendInv'
  <2>1. Elsewhere => UNCHANGED <<messages, request, calls>>
    BY ElsewhereIs DEF messageVars, providerVars
  <2>2. Webhooks => UNCHANGED <<messages, request, calls>>
    BY WebhooksAre DEF messageVars, providerVars
  <2>3. Commands => UNCHANGED <<messages, request, calls>>
    BY DEF Commands, MarkRead, MarkHandled, Hide, CreateOpportunity, Unlink, Resolve,
           LinkOpportunity, OpenForOpportunity, Command, providerVars
  <2>4. Records => UNCHANGED <<messages, request, calls>>
    BY EventRecordedIs DEF Records, providerVars
  <2>5. UNCHANGED vars => UNCHANGED <<messages, request, calls>>
    BY DEF vars, messageVars, providerVars
  <2> QED BY <2>1, <2>2, <2>3, <2>4, <2>5, SendKept
<1> QED BY <1>1, NextCases, InboundSends, PreparesSends, ResumesSends, DispatchesSends

\* No reply is sent beside another of open fate, and none is handed to the
\* provider twice, whatever the requests repeat and whenever they die
\* (_prepare, _start_dispatch and the reconciliations).
THEOREM OneReplyAtATimeCorrect == Spec => []OneReplyAtATime
<1>1. Init => TInv /\ SendInv
  BY InitTyped, InitSends
<1>2. TInv /\ SendInv /\ [Next]_vars => TInv' /\ SendInv'
  BY NextTyped, NextSends
<1>3. TInv /\ SendInv => OneReplyAtATime
  BY DEF SendInv
<1> QED BY <1>1, <1>2, <1>3, PTL DEF Spec

-----------------------------------------------------------------------------
(* The unread count.                                                       *)

\* The inbound messages since the conversation was last read.
NewMessages == {i \in Received(messages) : i > readTo}

\* What a webhook has read is the row, unless a transaction has committed in
\* between; its unread count hides nothing either.
HeldInv ==
  /\ \A m \in Inbounds : held[m] # Idle => held[m] = row \/ overlapped
  /\ \A m \in Inbounds :
       held[m] \notin {Idle, NoRow} => held[m].unread >= Cardinality(NewMessages)
  /\ UnreadIsSeen

LEMMA NewMessagesAre ==
  ASSUME TInv
  PROVE  IsFiniteSet(NewMessages) /\ Cardinality(NewMessages) \in Nat
<1>1. IsFiniteSet(Received(messages)) /\ NewMessages \subseteq Received(messages)
  BY ReceivedIs, TypesGive DEF NewMessages
<1> QED BY <1>1, FS_Subset, FS_CardinalityType

LEMMA UnreadIs ==
  UnreadIsSeen <=> (row # NoRow => /\ row.unread >= Cardinality(NewMessages)
                                   /\ ~overlapped => row.unread = Cardinality(NewMessages))
BY DEF UnreadIsSeen, NewMessages

LEMMA UnreadIsNext ==
  UnreadIsSeen' <=> (row' # NoRow => /\ row'.unread >= Cardinality(NewMessages)'
                                     /\ ~overlapped' => row'.unread = Cardinality(NewMessages)')
BY DEF UnreadIsSeen, NewMessages

\* Steps that neither record an inbound message nor read the conversation.
LEMMA HeldKept ==
  ASSUME TInv, HeldInv, held' = held, readTo' = readTo,
         Received(messages') = Received(messages), ~overlapped' => ~overlapped,
         \/ row' = row
         \/ /\ row # NoRow /\ row' # NoRow /\ row'.unread = row.unread
            /\ ~overlapped' => \A m \in Inbounds : held[m] = Idle
  PROVE  HeldInv'
<1>1. NewMessages' = NewMessages
  BY DEF NewMessages
<1>2. UnreadIsSeen'
  BY <1>1, UnreadIs, UnreadIsNext DEF HeldInv
<1>3. \A m \in Inbounds : held'[m] # Idle => held'[m] = row' \/ overlapped'
  BY DEF HeldInv
<1>4. \A m \in Inbounds :
        held'[m] \notin {Idle, NoRow} => held'[m].unread >= Cardinality(NewMessages)'
  BY <1>1 DEF HeldInv
<1> QED BY <1>2, <1>3, <1>4 DEF HeldInv

LEMMA WebhooksHeld ==
  ASSUME TInv, HeldInv, Webhooks
  PROVE  HeldInv'
<1>1. PICK m \in Inbounds :
        \/ held' = [held EXCEPT ![m] = Idle]
        \/ held' = [held EXCEPT ![m] = row]
  BY WebhooksAre
<1>2. UNCHANGED <<row, messages, readTo, overlapped>>
  BY WebhooksAre DEF conversationVars, messageVars, historyVars
<1>3. NewMessages' = NewMessages
  BY <1>2 DEF NewMessages
<1>4. DOMAIN held = Inbounds
  BY DEF TInv, TypeOK
<1>5. \A n \in Inbounds : held'[n] = held[n] \/ held'[n] = Idle \/ held'[n] = row
  BY <1>1, <1>4
<1>6. row # NoRow => row.unread >= Cardinality(NewMessages)
  BY UnreadIs DEF HeldInv
<1>7. UnreadIsSeen'
  BY <1>2, <1>3, UnreadIs, UnreadIsNext DEF HeldInv
<1>8. \A n \in Inbounds : held'[n] # Idle => held'[n] = row' \/ overlapped'
  BY <1>2, <1>5 DEF HeldInv
<1>9. \A n \in Inbounds :
        held'[n] \notin {Idle, NoRow} => held'[n].unread >= Cardinality(NewMessages)'
  BY <1>3, <1>5, <1>6 DEF HeldInv
<1> QED BY <1>7, <1>8, <1>9 DEF HeldInv

LEMMA InboundHeld ==
  ASSUME TInv, HeldInv, Inbound
  PROVE  HeldInv'
<1>1. PICK m \in Inbounds, at \in Nat \ {0} : Receive(m, at) \/ ReceiveFirst(m, at)
  BY DEF Inbound
<1>2. /\ messages' = Append(messages, InboundMessage(m, at))
      /\ held' = [held EXCEPT ![m] = Idle] /\ held[m] # Idle
      /\ UNCHANGED historyVars
  BY <1>1, ReceiveIs, ReceiveFirstIs
<1>3. /\ Received(messages') = Received(messages) \cup {Len(messages) + 1}
      /\ \A n \in Inbounds : held'[n] = Idle
  BY <1>2, InboundMessageIs
<1>4. /\ readTo' = readTo /\ overlapped' = overlapped
      /\ readTo \in 0..Len(messages) /\ Len(messages) \in Nat
  BY <1>2, TypesGive DEF historyVars
<1>5. Received(messages) \subseteq 1..Len(messages)
  BY ReceivedIs, TypesGive
<1>6. NewMessages' = NewMessages \cup {Len(messages) + 1} /\ Len(messages) + 1 \notin NewMessages
  BY <1>3, <1>4, <1>5 DEF NewMessages
<1> DEFINE c == Cardinality(NewMessages)
<1>7. Cardinality(NewMessages)' = c + 1 /\ c \in Nat
  BY <1>6, NewMessagesAre, FS_AddElement
<1>8. CASE Receive(m, at)
  <2>1. held[m] \in Rows /\ row \in Rows /\ row'.unread = held[m].unread + 1
    BY <1>8, ReceiveIs
  <2>2. held[m].unread >= c /\ (held[m] = row \/ overlapped) /\ held[m].unread \in Nat
    BY <1>2, <2>1, NoRowIsNone DEF HeldInv, Rows
  <2>3. ~overlapped => row.unread = c
    BY <2>1, NoRowIsNone, UnreadIs DEF HeldInv
  <2> HIDE DEF c
  <2>4. row'.unread >= c + 1 /\ (~overlapped => row'.unread = c + 1)
    BY <1>7, <2>1, <2>2, <2>3
  <2> QED BY <1>3, <1>4, <1>7, <2>4, UnreadIsNext DEF HeldInv
<1>9. CASE ReceiveFirst(m, at)
  <2>1. row'.unread = 1 /\ messages = <<>>
    BY <1>9, ReceiveFirstIs
  <2>2. c = 0
    <3>1. NewMessages = {}
      BY <2>1 DEF NewMessages, Received
    <3> QED BY <3>1, FS_EmptySet
  <2> HIDE DEF c
  <2> QED BY <1>3, <1>4, <1>7, <2>1, <2>2, UnreadIsNext DEF HeldInv
<1> QED BY <1>1, <1>8, <1>9

LEMMA CommandsHeld ==
  ASSUME TInv, HeldInv, Commands
  PROVE  HeldInv'
<1>1. Command
  BY DEF Commands, MarkRead, MarkHandled, Hide, CreateOpportunity, Unlink, Resolve,
         LinkOpportunity, OpenForOpportunity
<1>2. /\ held' = held
      /\ ~overlapped' => ~overlapped /\ \A m \in Inbounds : held[m] = Idle
  BY <1>1, CommandIs
<1>3. CASE MarkRead
  <2>1. row # NoRow /\ row' = [row EXCEPT !.unread = 0] /\ readTo' = Len(messages) /\ messages' = messages
    BY <1>3 DEF MarkRead, Visible
  <2>2. row'.unread = 0
    BY <2>1, RowIs DEF RowFields
  <2>3. NewMessages' = {}
    BY <2>1, ReceivedIs, TypesGive DEF NewMessages
  <2>4. Cardinality(NewMessages)' = 0
    BY <2>3, FS_EmptySet
  <2>5. \A m \in Inbounds : held'[m] \notin {Idle, NoRow} => held'[m].unread >= 0
    <3>1. \A m \in Inbounds : held[m] \notin {Idle, NoRow} => held[m] \in Rows
      BY DEF TInv, TypeOK
    <3> QED BY <1>2, <3>1 DEF Rows
  <2>6. UnreadIsSeen'
    BY <2>2, <2>4, UnreadIsNext
  <2> QED BY <1>2, <2>4, <2>5, <2>6 DEF HeldInv
<1>4. CASE MarkHandled
  <2>1. readTo' = readTo /\ messages' = messages
    BY <1>4 DEF MarkHandled
  <2>2. row # NoRow /\ row' # NoRow /\ row'.unread = row.unread
    BY <1>4, HandledIs, NoRowIsNone
  <2> QED BY <1>2, <2>1, <2>2, HeldKept
<1>5. CASE Hide \/ CreateOpportunity \/ Unlink \/ (\E c \in Customers : Resolve(c))
             \/ \E o \in 1..Len(opportunities) : LinkOpportunity(o)
  <2>1. /\ readTo' = readTo /\ messages' = messages /\ row # NoRow
        /\ \/ row' = row
           \/ row' = [row EXCEPT !.hidden = TRUE]
           \/ \E c \in Customers : row' = [row EXCEPT !.customer = c, !.resolved = TRUE]
    BY <1>5 DEF Hide, CreateOpportunity, Unlink, Resolve, LinkOpportunity, Visible
  <2>2. row \in Rows /\ DOMAIN row = RowFields
    BY <2>1, RowIs
  <2>3. row' = row \/ (row' \in Rows /\ row'.unread = row.unread)
    BY <2>1, <2>2 DEF Rows, RowFields
  <2> QED BY <1>2, <2>1, <2>3, NoRowIsNone, HeldKept
<1>6. ASSUME NEW o \in 1..Len(opportunities), OpenForOpportunity(o)
      PROVE  HeldInv'
  <2>1. /\ readTo' = readTo /\ messages' = messages
        /\ row' \in Rows
        /\ row = NoRow => row'.unread = 0
        /\ row # NoRow => row'.unread = row.unread
    BY <1>6, OpenIs
  <2>2. CASE row # NoRow
    BY <1>2, <2>1, <2>2, NoRowIsNone, HeldKept
  <2>3. CASE row = NoRow
    <3>1. NewMessages = {} /\ NewMessages' = {}
      BY <2>1, <2>3 DEF TInv, RowOK, NewMessages, Received
    <3>2. Cardinality(NewMessages) = 0 /\ Cardinality(NewMessages)' = 0
      BY <3>1, FS_EmptySet
    <3>3. UnreadIsSeen'
      BY <2>1, <2>3, <3>2, UnreadIsNext
    <3> QED BY <1>2, <3>2, <3>3 DEF HeldInv
  <2> QED BY <2>2, <2>3
<1> QED BY <1>3, <1>4, <1>5, <1>6 DEF Commands

LEMMA RepliesHeld ==
  ASSUME TInv, HeldInv, Prepares \/ Dispatches \/ Records
  PROVE  HeldInv'
<1>1. CASE Prepares
  <2>1. /\ held' = held /\ readTo' = readTo /\ row' = row
        /\ Received(messages') = Received(messages) /\ (~overlapped' => ~overlapped)
    BY <1>1, PrepareIs DEF Prepares, conversationVars
  <2> QED BY <2>1, HeldKept
<1>2. ASSUME NEW q \in Requests, StartDispatch(q)
      PROVE  HeldInv'
  <2> DEFINE i == request[q].message
  <2>1. /\ request[q].step # "idle" /\ held' = held /\ readTo' = readTo /\ row' = row
        /\ SetDispatch(i, "IN_PROGRESS") \/ messages' = messages
        /\ NoteCommit \/ overlapped' = overlapped
    BY <1>2 DEF StartDispatch, conversationVars
  <2>2. i \in 1..Len(messages) /\ ~messages[i].inbound
    BY <2>1, UnderWay
  <2>3. Received(messages') = Received(messages)
    BY <2>1, <2>2, SetDispatchIs, BecomesKeeps DEF DispatchStates
  <2>4. ~overlapped' => ~overlapped
    BY <2>1, Zenon DEF NoteCommit
  <2> QED BY <2>1, <2>3, <2>4, HeldKept
<1>3. ASSUME NEW q \in Requests, NEW accepted \in BOOLEAN,
             NEW answer \in {"accepted", "refused", "unknown"}, Call(q, accepted, answer)
      PROVE  HeldInv'
  <2>1. held' = held /\ readTo' = readTo /\ row' = row /\ messages' = messages /\ overlapped' = overlapped
    BY <1>3 DEF Call, conversationVars, messageVars, historyVars
  <2> QED BY <2>1, HeldKept
<1>4. ASSUME NEW q \in Requests, ReconcileAccepted(q)
      PROVE  HeldInv'
  <2> DEFINE i == request[q].message
  <2>1. /\ i \in 1..Len(messages) /\ ~messages[i].inbound /\ row # NoRow
        /\ held' = held /\ readTo' = readTo
        /\ \/ messages' = messages /\ row' = row /\ overlapped' = overlapped
           \/ /\ MessageBecomes(i, "ACCEPTED", wire[i])
              /\ row' = Recomputed(row, messages, delivery) /\ Commits
    BY <1>4, ReconcileAcceptedIs DEF messageVars
  <2>2. Received(messages') = Received(messages)
    BY <2>1, BecomesKeeps
  <2>3. row' = Recomputed(row, messages, delivery) => row' # NoRow /\ row'.unread = row.unread
    BY <2>1, NoRowIsNone, RecomputedRow
  <2>4. Commits => (~overlapped' => ~overlapped /\ \A m \in Inbounds : held[m] = Idle)
    BY DEF Commits
  <2> QED BY <2>1, <2>2, <2>3, <2>4, HeldKept
<1>5. ASSUME NEW q \in Requests, ReconcileError(q)
      PROVE  HeldInv'
  <2> DEFINE i == request[q].message
             s == IF request[q].answer = "unknown" THEN "UNKNOWN" ELSE "DEFINITIVE_FAILED"
  <2>1. /\ request[q].step # "idle" /\ held' = held /\ readTo' = readTo /\ row' = row
        /\ SetDispatch(i, s) \/ messages' = messages
        /\ overlapped' = overlapped
    BY <1>5 DEF ReconcileError, conversationVars, historyVars
  <2>2. i \in 1..Len(messages) /\ ~messages[i].inbound /\ s \in DispatchStates
    BY <2>1, UnderWay DEF DispatchStates
  <2>3. Received(messages') = Received(messages)
    <3> HIDE DEF s, i
    <3> QED BY <2>1, <2>2, SetDispatchIs, BecomesKeeps
  <2> QED BY <2>1, <2>3, HeldKept
<1>6. CASE Records
  <2>1. /\ row # NoRow /\ held' = held /\ readTo' = readTo /\ messages' = messages
        /\ \/ row' = row /\ overlapped' = overlapped
           \/ row' = Recomputed(row, messages, delivery) /\ Commits
    BY <1>6, EventRecordedIs DEF Records
  <2>2. row' = Recomputed(row, messages, delivery) => row' # NoRow /\ row'.unread = row.unread
    BY <2>1, NoRowIsNone, RecomputedRow
  <2>3. Commits => (~overlapped' => ~overlapped /\ \A m \in Inbounds : held[m] = Idle)
    BY DEF Commits
  <2> QED BY <2>1, <2>2, <2>3, HeldKept
<1> QED BY <1>1, <1>2, <1>3, <1>4, <1>5, <1>6 DEF Dispatches

LEMMA NextHeld ==
  ASSUME TInv, HeldInv, [Next]_vars
  PROVE  HeldInv'
<1>1. Elsewhere \/ Resumes \/ UNCHANGED vars
        => UNCHANGED <<row, messages, held, readTo, overlapped>>
  <2>1. Elsewhere => UNCHANGED <<row, messages, held, readTo, overlapped>>
    BY ElsewhereIs DEF conversationVars, messageVars, historyVars
  <2>2. Resumes => UNCHANGED <<row, messages, held, readTo, overlapped>>
    BY ResumesIs DEF conversationVars, messageVars, historyVars
  <2>3. UNCHANGED vars => UNCHANGED <<row, messages, held, readTo, overlapped>>
    BY DEF vars, conversationVars, messageVars, historyVars
  <2> QED BY <2>1, <2>2, <2>3
<1>2. UNCHANGED <<row, messages, held, readTo, overlapped>> => HeldInv'
  BY HeldKept
<1> QED BY <1>1, <1>2, NextCases, WebhooksHeld, InboundHeld, CommandsHeld, RepliesHeld

\* The unread count is never below the number of messages nobody has read,
\* and exact while no commit comes between a webhook's reading and its use
\* (receive() under the phone's advisory lock, mark_read).
THEOREM UnreadIsSeenCorrect == Spec => []UnreadIsSeen
<1>1. Init => TInv /\ HeldInv
  <2>1. Init => HeldInv
    BY DEF Init, HeldInv, UnreadIsSeen
  <2> QED BY <2>1, InitTyped
<1>2. TInv /\ HeldInv /\ [Next]_vars => TInv' /\ HeldInv'
  BY NextTyped, NextHeld
<1>3. TInv /\ HeldInv => UnreadIsSeen
  BY DEF HeldInv
<1> QED BY <1>1, <1>2, <1>3, PTL DEF Spec

-----------------------------------------------------------------------------
(* Waiting for an answer.                                                  *)

WaitInv ==
  /\ delivery = [i \in 1..MaxMessages |-> delivery[i]]
  /\ row # NoRow => row.through <= handledTo
  /\ UnansweredIsWaiting

\* Message i is handled, or older than a reply that answers.
Settled(ms, ds, to, i) ==
  \/ i <= to
  \/ \E j \in 1..Len(ms) :
       ms[j].dispatch = "ACCEPTED" /\ ds[j].state # "FAILED" /\ ms[j].at >= ms[i].at

LEMMA NothingOwedIs ==
  /\ NothingOwed <=> \A i \in Received(messages) : Settled(messages, delivery, handledTo, i)
  /\ NothingOwed' <=> \A i \in Received(messages') : Settled(messages', delivery', handledTo', i)
BY DEF NothingOwed, Settled

\* What the projection computes when nothing waits.
LEMMA SinceSettles ==
  ASSUME NEW ms \in Seq(Messages), NEW ds, NEW through \in Nat, NEW to \in Nat,
         through <= to, \A i \in 1..Len(ms) : ms[i].inbound => ms[i].at # 0,
         Since(ms, ds, through) = 0
  PROVE  \A i \in Received(ms) : Settled(ms, ds, to, i)
<1>1. TAKE i \in Received(ms)
<1>2. i \in 1..Len(ms) /\ i \in Nat /\ ms[i].at \in Nat
  BY MessageIs DEF Received
<1>3. i <= through \/ \E j \in 1..Len(ms) : Valid(ms, ds, j) /\ ms[i].at <= ms[j].at
  BY SinceIs
<1>4. ASSUME NEW j \in 1..Len(ms), Valid(ms, ds, j), ms[i].at <= ms[j].at
      PROVE  Settled(ms, ds, to, i)
  <2>1. ms[j].dispatch = "ACCEPTED" /\ ds[j].state # "FAILED"
    BY <1>4 DEF Valid
  <2>2. ms[j].at >= ms[i].at
    BY <1>2, <1>4, MessageIs
  <2> QED BY <2>1, <2>2 DEF Settled
<1>5. i <= through => Settled(ms, ds, to, i)
  BY <1>2 DEF Settled
<1> QED BY <1>3, <1>4, <1>5

\* What answers goes on answering: a later step leaves accepted replies, their
\* delivery and the inbound messages.
AnswersStay ==
  /\ Received(messages') = Received(messages)
  /\ \A i \in Received(messages) : messages'[i] = messages[i]
  /\ \A j \in 1..Len(messages) :
       messages[j].dispatch = "ACCEPTED" /\ delivery[j].state # "FAILED" =>
         /\ j \in 1..Len(messages') /\ messages'[j] = messages[j]
         /\ ~Failed' => delivery'[j].state # "FAILED"
  /\ ~Failed' => ~Failed
  /\ ~overlapped' => ~overlapped
  /\ handledTo' = handledTo
  /\ delivery' = [i \in 1..MaxMessages |-> delivery'[i]]

LEMMA OwedKept ==
  ASSUME AnswersStay, ~Failed', NothingOwed
  PROVE  NothingOwed'
<1>1. \A i \in Received(messages) : Settled(messages, delivery, handledTo, i)
  BY NothingOwedIs
<1>2. ASSUME NEW i \in Received(messages)
      PROVE  Settled(messages', delivery', handledTo', i)
  <2>1. CASE i <= handledTo
    BY <2>1 DEF Settled, AnswersStay
  <2>2. CASE \E j \in 1..Len(messages) :
               /\ messages[j].dispatch = "ACCEPTED" /\ delivery[j].state # "FAILED"
               /\ messages[j].at >= messages[i].at
    BY <1>2, <2>2 DEF Settled, AnswersStay
  <2> QED BY <1>1, <2>1, <2>2 DEF Settled
<1> QED BY <1>2, NothingOwedIs DEF AnswersStay

\* Steps that record no inbound message and leave the cutoff.
LEMMA WaitKept ==
  ASSUME TInv, WaitInv, AnswersStay,
         \/ row' = row
         \/ row # NoRow /\ row'.since = row.since /\ row'.through = row.through
         \/ row # NoRow /\ row' = Recomputed(row, messages, delivery)
  PROVE  WaitInv'
<1>1. handledTo \in Nat
  BY TypesGive
<1>2. row # NoRow => row.through \in Nat /\ row.through <= handledTo
  BY RowIs DEF WaitInv
<1>3. row # NoRow /\ row' = Recomputed(row, messages, delivery)
        => row'.through = row.through /\ row'.since = Since(messages, delivery, row.through)
  BY RecomputedRow
<1>4. row' # NoRow => row'.through <= handledTo'
  BY <1>2, <1>3 DEF AnswersStay
<1>5. ASSUME row' # NoRow, ~overlapped', ~Failed', row'.since = 0
      PROVE  NothingOwed
  <2>1. ~overlapped /\ ~Failed
    BY <1>5 DEF AnswersStay
  <2>2. CASE row # NoRow /\ row.since = 0
    BY <2>1, <2>2 DEF WaitInv, UnansweredIsWaiting
  <2>3. CASE row # NoRow /\ row' = Recomputed(row, messages, delivery)
    <3>1. Since(messages, delivery, row.through) = 0
      BY <1>3, <1>5, <2>3
    <3>2. messages \in Seq(Messages) /\ \A i \in 1..Len(messages) : messages[i].inbound => messages[i].at # 0
      BY TypesGive
    <3>3. \A i \in Received(messages) : Settled(messages, delivery, handledTo, i)
      BY <1>1, <1>2, <2>3, <3>1, <3>2, SinceSettles
    <3> QED BY <3>3, NothingOwedIs
  <2> QED BY <1>5, <2>2, <2>3
<1>6. UnansweredIsWaiting'
  <2>1. row' # NoRow /\ ~overlapped' /\ ~Failed' /\ row'.since = 0 => NothingOwed'
    BY <1>5, OwedKept
  <2> QED BY <2>1 DEF UnansweredIsWaiting
<1> QED BY <1>4, <1>6 DEF WaitInv, AnswersStay

\* Steps that leave messages, delivery and events.
LEMMA QuietWaits ==
  ASSUME TInv, WaitInv, UNCHANGED <<messages, delivery, events, handledTo>>,
         ~overlapped' => ~overlapped,
         row' = row \/ (row # NoRow /\ row'.since = row.since /\ row'.through = row.through)
  PROVE  WaitInv'
<1>1. Failed' <=> Failed
  BY DEF Failed
<1>2. AnswersStay
  BY <1>1 DEF AnswersStay, WaitInv, Received
<1> QED BY <1>2, WaitKept

LEMMA InboundWaits ==
  ASSUME TInv, WaitInv, HeldInv, Inbound
  PROVE  WaitInv'
<1>1. PICK m \in Inbounds, at \in Nat \ {0} : Receive(m, at) \/ ReceiveFirst(m, at)
  BY DEF Inbound
<1>2. /\ messages' = Append(messages, InboundMessage(m, at))
      /\ held' = [held EXCEPT ![m] = Idle] /\ held[m] # Idle
      /\ UNCHANGED <<delivery, historyVars>>
  BY <1>1, ReceiveIs, ReceiveFirstIs
<1>3. messages' \in Seq(Messages) /\ InboundOK'
  BY <1>2, InboundMessageIs
<1>4. delivery' = delivery /\ handledTo' = handledTo /\ overlapped' = overlapped /\ handledTo \in Nat
  BY <1>2, TypesGive DEF historyVars
<1>5. ASSUME NEW through \in Nat, through <= handledTo, Since(messages', delivery, through) = 0
      PROVE  NothingOwed'
  <2>1. \A i \in 1..Len(messages') : messages'[i].inbound => messages'[i].at # 0
    BY <1>3 DEF InboundOK
  <2>2. \A i \in Received(messages') : Settled(messages', delivery, handledTo, i)
    BY <1>3, <1>4, <1>5, <2>1, SinceSettles
  <2> QED BY <1>4, <2>2, NothingOwedIs
<1>6. CASE Receive(m, at)
  <2>1. /\ row \in Rows /\ row'.through = row.through
        /\ held[m] = row => row'.since = Since(messages', delivery, row.through)
    BY <1>6, ReceiveIs
  <2>2. row # NoRow /\ row.through \in Nat /\ row.through <= handledTo
    BY <2>1, NoRowIsNone, RowIs DEF WaitInv
  <2>3. ~overlapped => held[m] = row
    BY <1>2 DEF HeldInv
  <2>4. row' # NoRow /\ ~overlapped' /\ ~Failed' /\ row'.since = 0 => NothingOwed'
    BY <1>4, <1>5, <2>1, <2>2, <2>3
  <2> QED BY <1>4, <2>1, <2>2, <2>4 DEF WaitInv, UnansweredIsWaiting
<1>7. CASE ReceiveFirst(m, at)
  <2>1. row'.through = 0 /\ row'.since = Since(messages', delivery, 0)
    BY <1>7, ReceiveFirstIs
  <2>2. row' # NoRow /\ ~overlapped' /\ ~Failed' /\ row'.since = 0 => NothingOwed'
    BY <1>4, <1>5, <2>1
  <2> QED BY <1>4, <2>1, <2>2 DEF WaitInv, UnansweredIsWaiting
<1> QED BY <1>1, <1>6, <1>7

LEMMA CommandsWaits ==
  ASSUME TInv, WaitInv, Commands
  PROVE  WaitInv'
<1>1. Command
  BY DEF Commands, MarkRead, MarkHandled, Hide, CreateOpportunity, Unlink, Resolve,
         LinkOpportunity, OpenForOpportunity
<1>2. delivery' = delivery /\ events' = events /\ (~overlapped' => ~overlapped)
  BY <1>1, CommandIs
<1>3. CASE MarkHandled
  <2>1. messages' = messages /\ handledTo' = Len(messages)
    BY <1>3 DEF MarkHandled
  <2>2. row'.through \in 1..Len(messages) /\ Len(messages) \in Nat
    BY <1>3, HandledIs, ReceivedIs, TypesGive
  <2>3. \A i \in Received(messages) : i <= Len(messages)
    BY <2>2, ReceivedIs, TypesGive
  <2>4. NothingOwed'
    BY <2>1, <2>3, NothingOwedIs DEF Settled
  <2> QED BY <1>2, <2>1, <2>2, <2>4 DEF WaitInv, UnansweredIsWaiting
<1>4. CASE MarkRead \/ Hide \/ CreateOpportunity \/ Unlink \/ (\E c \in Customers : Resolve(c))
             \/ \E o \in 1..Len(opportunities) : LinkOpportunity(o)
  <2>1. /\ handledTo' = handledTo /\ messages' = messages /\ row # NoRow
        /\ \/ row' = row
           \/ row' = [row EXCEPT !.unread = 0]
           \/ row' = [row EXCEPT !.hidden = TRUE]
           \/ \E c \in Customers : row' = [row EXCEPT !.customer = c, !.resolved = TRUE]
    BY <1>4 DEF MarkRead, Hide, CreateOpportunity, Unlink, Resolve, LinkOpportunity, Visible
  <2>2. DOMAIN row = RowFields
    BY <2>1, RowIs
  <2>3. row' = row \/ (row'.since = row.since /\ row'.through = row.through)
    BY <2>1, <2>2 DEF RowFields
  <2> QED BY <1>2, <2>1, <2>3, QuietWaits
<1>5. ASSUME NEW o \in 1..Len(opportunities), OpenForOpportunity(o)
      PROVE  WaitInv'
  <2>1. /\ messages' = messages /\ handledTo' = handledTo
        /\ row = NoRow => row'.since = 0 /\ row'.through = 0
        /\ row # NoRow => row'.since = row.since /\ row'.through = row.through
    BY <1>5, OpenIs
  <2>2. CASE row # NoRow
    BY <1>2, <2>1, <2>2, QuietWaits
  <2>3. CASE row = NoRow
    <3>1. Received(messages') = {} /\ handledTo' \in Nat
      BY <2>1, <2>3, TypesGive DEF TInv, RowOK, Received
    <3>2. NothingOwed'
      BY <3>1, NothingOwedIs
    <3> QED BY <1>2, <2>1, <2>3, <3>1, <3>2 DEF WaitInv, UnansweredIsWaiting
  <2> QED BY <2>2, <2>3
<1> QED BY <1>3, <1>4, <1>5 DEF Commands

\* A reply that is not accepted yet can change without an answer being lost.
LEMMA ReplyStays ==
  ASSUME TInv, NEW i \in 1..Len(messages), ~messages[i].inbound,
         messages[i].dispatch # "ACCEPTED", NEW s, NEW at, MessageBecomes(i, s, at)
  PROVE  /\ Received(messages') = Received(messages)
         /\ \A j \in Received(messages) : messages'[j] = messages[j]
         /\ \A j \in 1..Len(messages) :
              messages[j].dispatch = "ACCEPTED" => j \in 1..Len(messages') /\ messages'[j] = messages[j]
<1>1. Received(messages') = Received(messages)
  BY BecomesKeeps
<1>2. \A j \in Received(messages) : j \in 1..Len(messages) /\ j # i
  BY DEF Received
<1> QED BY <1>1, <1>2 DEF MessageBecomes

LEMMA PreparesWaits ==
  ASSUME TInv, WaitInv, Prepares
  PROVE  WaitInv'
<1>1. /\ row' = row /\ UNCHANGED <<delivery, events, handledTo>>
      /\ Len(messages') = Len(messages) + 1
      /\ \A j \in 1..Len(messages) : messages'[j] = messages[j]
      /\ Received(messages') = Received(messages) /\ (~overlapped' => ~overlapped)
  BY PrepareIs DEF Prepares, conversationVars
<1>2. Failed' <=> Failed
  BY <1>1 DEF Failed
<1>3. Received(messages) \subseteq 1..Len(messages) /\ Len(messages) \in Nat
  BY ReceivedIs, TypesGive
<1>4. AnswersStay
  BY <1>1, <1>2, <1>3 DEF AnswersStay, WaitInv
<1> QED BY <1>1, <1>4, WaitKept

LEMMA DispatchesWaits ==
  ASSUME TInv, WaitInv, Dispatches
  PROVE  WaitInv'
<1>1. ASSUME NEW q \in Requests, NEW s \in DispatchStates, request[q].step # "idle",
             messages[request[q].message].dispatch \in {"PENDING", "IN_PROGRESS"},
             SetDispatch(request[q].message, s),
             UNCHANGED <<row, delivery, events, handledTo>>, ~overlapped' => ~overlapped
      PROVE  WaitInv'
  <2> DEFINE i == request[q].message
  <2>1. i \in 1..Len(messages) /\ ~messages[i].inbound
    BY <1>1, UnderWay
  <2>2. MessageBecomes(i, s, messages[i].at) /\ messages[i].dispatch # "ACCEPTED"
    BY <1>1, <2>1, SetDispatchIs
  <2>3. Failed' <=> Failed
    BY <1>1 DEF Failed
  <2> HIDE DEF i
  <2>4. AnswersStay
    BY <1>1, <2>1, <2>2, <2>3, ReplyStays DEF AnswersStay, WaitInv
  <2> QED BY <1>1, <2>4, WaitKept
<1>2. ASSUME NEW q \in Requests, StartDispatch(q)
      PROVE  WaitInv'
  <2>1. /\ request[q].step # "idle" /\ UNCHANGED <<row, delivery, events, handledTo>>
        /\ \/ /\ messages[request[q].message].dispatch = "PENDING"
              /\ SetDispatch(request[q].message, "IN_PROGRESS")
           \/ messages' = messages
    BY <1>2 DEF StartDispatch, Startable, conversationVars
  <2>2. ~overlapped' => ~overlapped
    BY <1>2, Zenon DEF StartDispatch, NoteCommit
  <2> QED BY <1>1, <2>1, <2>2, QuietWaits DEF DispatchStates
<1>3. ASSUME NEW q \in Requests, ReconcileError(q)
      PROVE  WaitInv'
  <2> DEFINE s == IF request[q].answer = "unknown" THEN "UNKNOWN" ELSE "DEFINITIVE_FAILED"
  <2>1. /\ request[q].step # "idle" /\ UNCHANGED <<row, delivery, events, handledTo, overlapped>>
        /\ \/ /\ messages[request[q].message].dispatch = "IN_PROGRESS"
              /\ SetDispatch(request[q].message, s)
           \/ messages' = messages
    BY <1>3 DEF ReconcileError, Settles, conversationVars, historyVars
  <2>2. s \in DispatchStates
    BY DEF DispatchStates
  <2> HIDE DEF s
  <2> QED BY <1>1, <2>1, <2>2, QuietWaits
<1>4. ASSUME NEW q \in Requests, NEW accepted \in BOOLEAN,
             NEW answer \in {"accepted", "refused", "unknown"}, Call(q, accepted, answer)
      PROVE  WaitInv'
  <2>1. UNCHANGED <<row, messages, delivery, events, handledTo, overlapped>>
    BY <1>4 DEF Call, conversationVars, messageVars, historyVars
  <2> QED BY <2>1, QuietWaits
<1>5. ASSUME NEW q \in Requests, ReconcileAccepted(q)
      PROVE  WaitInv'
  <2> DEFINE i == request[q].message
  <2>1. /\ i \in 1..Len(messages) /\ ~messages[i].inbound /\ row # NoRow /\ handledTo' = handledTo
        /\ \/ UNCHANGED <<row, messages, delivery, events, overlapped>>
           \/ /\ messages[i].dispatch = "IN_PROGRESS"
              /\ MessageBecomes(i, "ACCEPTED", wire[i])
              /\ events' = Attached(i) /\ row' = Recomputed(row, messages, delivery)
              /\ delivery' = [delivery EXCEPT ![i] = DeliveryAttached(i)]
              /\ ~overlapped' => ~overlapped
    BY <1>5, ReconcileAcceptedIs DEF messageVars, Commits
  <2> HIDE DEF i
  <2>2. CASE UNCHANGED <<row, messages, delivery, events, overlapped>>
    BY <2>1, <2>2, QuietWaits
  <2>3. CASE /\ messages[i].dispatch = "IN_PROGRESS"
             /\ MessageBecomes(i, "ACCEPTED", wire[i])
             /\ events' = Attached(i) /\ row' = Recomputed(row, messages, delivery)
             /\ delivery' = [delivery EXCEPT ![i] = DeliveryAttached(i)]
             /\ ~overlapped' => ~overlapped
    <3>1. Failed' <=> Failed
      <4>1. Len(events') = Len(events) /\ \A n \in 1..Len(events) : events'[n].state = events[n].state
        BY <2>3, AttachedIs, TypesGive
      <4> QED BY <4>1 DEF Failed
    <3>2. \A j : j # i => delivery'[j] = delivery[j]
      BY <2>3 DEF WaitInv
    <3>3. delivery' = [j \in 1..MaxMessages |-> delivery'[j]]
      BY <2>3 DEF WaitInv
    <3>4. AnswersStay
      BY <2>1, <2>3, <3>1, <3>2, <3>3, ReplyStays DEF AnswersStay
    <3> QED BY <2>1, <2>3, <3>4, WaitKept
  <2> QED BY <2>1, <2>2, <2>3
<1> QED BY <1>2, <1>3, <1>4, <1>5 DEF Dispatches

LEMMA RecordsWaits ==
  ASSUME TInv, WaitInv, Records
  PROVE  WaitInv'
<1>1. PICK i \in 1..Len(messages), s \in Reports, at \in 1..clock : Record(i, s, at)
  BY DEF Records
<1>2. /\ row # NoRow /\ Len(events') \in Nat /\ Len(events) <= Len(events') /\ Len(events) \in Nat
      /\ \A n \in 1..Len(events) : events'[n].state = events[n].state
      /\ \E n \in 1..Len(events') : events'[n].state = s
      /\ \/ UNCHANGED <<delivery, row, overlapped>>
         \/ /\ \E e \in Events : e.state = s /\ delivery' = [delivery EXCEPT ![i] = Applied(@, e)]
            /\ row' = Recomputed(row, messages, delivery)
            /\ ~overlapped' => ~overlapped
      /\ messages' = messages /\ handledTo' = handledTo
  BY <1>1, EventRecordedIs, TypesGive DEF Commits
<1>3. ~Failed' => ~Failed /\ s # "FAILED"
  BY <1>2 DEF Failed
<1>4. ASSUME NEW j \in 1..Len(messages), delivery[j].state # "FAILED", ~Failed'
      PROVE  delivery'[j].state # "FAILED"
  <2>1. CASE delivery' = delivery
    BY <1>4, <2>1
  <2>2. ASSUME NEW e \in Events, e.state = s, delivery' = [delivery EXCEPT ![i] = Applied(@, e)]
        PROVE  delivery'[j].state # "FAILED"
    <3>1. delivery'[j] = delivery[j] \/ (j = i /\ delivery'[j] = Applied(delivery[j], e))
      BY <2>2 DEF WaitInv
    <3>2. Applied(delivery[j], e).state \in {delivery[j].state, s}
      BY <2>2 DEF Applied
    <3> QED BY <1>3, <1>4, <3>1, <3>2
  <2> QED BY <1>2, <2>1, <2>2
<1>5. delivery' = [j \in 1..MaxMessages |-> delivery'[j]]
  BY <1>2 DEF WaitInv
<1>6. AnswersStay
  BY <1>2, <1>3, <1>4, <1>5 DEF AnswersStay, Received
<1> QED BY <1>2, <1>6, WaitKept

LEMMA NextWaits ==
  ASSUME TInv, HeldInv, WaitInv, [Next]_vars
  PROVE  WaitInv'
<1>1. Elsewhere \/ Webhooks \/ Resumes \/ UNCHANGED vars
        => UNCHANGED <<row, messages, delivery, events, handledTo, overlapped>>
  <2>1. Elsewhere => UNCHANGED <<row, messages, delivery, events, handledTo, overlapped>>
    BY ElsewhereIs DEF conversationVars, messageVars, historyVars
  <2>2. Webhooks => UNCHANGED <<row, messages, delivery, events, handledTo, overlapped>>
    BY WebhooksAre DEF conversationVars, messageVars, historyVars
  <2>3. Resumes => UNCHANGED <<row, messages, delivery, events, handledTo, overlapped>>
    BY ResumesIs DEF conversationVars, messageVars, historyVars
  <2>4. UNCHANGED vars => UNCHANGED <<row, messages, delivery, events, handledTo, overlapped>>
    BY DEF vars, conversationVars, messageVars, historyVars
  <2> QED BY <2>1, <2>2, <2>3, <2>4
<1>2. UNCHANGED <<row, messages, delivery, events, handledTo, overlapped>> => WaitInv'
  BY QuietWaits
<1> QED BY <1>1, <1>2, NextCases, InboundWaits, CommandsWaits, PreparesWaits, DispatchesWaits,
           RecordsWaits

\* A conversation that does not wait owes no answer, while no delivery fails
\* and no commit comes between a webhook's reading and its use
\* (recompute_response_projection and its callers).
THEOREM UnansweredIsWaitingCorrect == Spec => []UnansweredIsWaiting
<1>1. Init => TInv /\ HeldInv /\ WaitInv
  <2>1. Init => HeldInv
    BY DEF Init, HeldInv, UnreadIsSeen
  <2>2. Init => WaitInv
    BY DEF Init, WaitInv, UnansweredIsWaiting
  <2> QED BY <2>1, <2>2, InitTyped
<1>2. TInv /\ HeldInv /\ WaitInv /\ [Next]_vars => TInv' /\ HeldInv' /\ WaitInv'
  BY NextTyped, NextHeld, NextWaits
<1>3. TInv /\ HeldInv /\ WaitInv => UnansweredIsWaiting
  BY DEF WaitInv
<1> QED BY <1>1, <1>2, <1>3, PTL DEF Spec

-----------------------------------------------------------------------------
(* The link.                                                               *)

LinkInv == (row = NoRow => link = 0) /\ LinkFollowsCustomer

\* Steps that change neither the link nor whose the conversation and the
\* opportunities are.
LEMMA LinkKept ==
  ASSUME TInv, LinkInv, link' = link, row' = NoRow => row = NoRow,
         row' = row \/ (row # NoRow /\ row'.customer = row.customer),
         Len(opportunities) <= Len(opportunities'),
         \A o \in 1..Len(opportunities) : opportunities'[o].customer = opportunities[o].customer,
         ~overlapped' => ~overlapped, ~reassigned' => ~reassigned
  PROVE  LinkInv'
<1>1. link # 0 => link \in 1..Len(opportunities)
  BY TypesGive
<1> QED BY <1>1 DEF LinkInv, LinkFollowsCustomer

LEMMA InboundLinks ==
  ASSUME TInv, HeldInv, LinkInv, Inbound
  PROVE  LinkInv'
<1>1. PICK m \in Inbounds, at \in Nat \ {0} : Receive(m, at) \/ ReceiveFirst(m, at)
  BY DEF Inbound
<1>2. CASE Receive(m, at)
  <2>1. /\ row \in Rows /\ row' \in Rows /\ row'.customer = row.customer /\ held[m] # Idle
        /\ \/ UNCHANGED <<link, opportunities>>
           \/ opportunities'[link'].customer = held[m].customer
        /\ UNCHANGED historyVars
    BY <1>2, ReceiveIs
  <2>2. row # NoRow /\ row' # NoRow /\ (~overlapped => held[m] = row)
    BY <2>1, NoRowIsNone DEF HeldInv
  <2> QED BY <2>1, <2>2 DEF LinkInv, LinkFollowsCustomer, historyVars
<1>3. CASE ReceiveFirst(m, at)
  <2>1. /\ row = NoRow /\ row' \in Rows
        /\ UNCHANGED link \/ opportunities'[link'].customer = row'.customer
    BY <1>3, ReceiveFirstIs
  <2>2. link = 0 /\ row' # NoRow
    BY <2>1, NoRowIsNone DEF LinkInv
  <2> QED BY <2>1, <2>2 DEF LinkInv, LinkFollowsCustomer
<1> QED BY <1>1, <1>2, <1>3

LEMMA CommandsLinks ==
  ASSUME TInv, LinkInv, Commands
  PROVE  LinkInv'
<1>1. Command
  BY DEF Commands, MarkRead, MarkHandled, Hide, CreateOpportunity, Unlink, Resolve,
         LinkOpportunity, OpenForOpportunity
<1>2. ~overlapped' => ~overlapped
  BY <1>1, CommandIs
<1>3. CASE MarkRead \/ Hide
  <2>1. /\ link' = link /\ opportunities' = opportunities /\ reassigned' = reassigned /\ row # NoRow
        /\ row' = [row EXCEPT !.unread = 0] \/ row' = [row EXCEPT !.hidden = TRUE]
    BY <1>3 DEF MarkRead, Hide, Visible
  <2>2. row \in Rows /\ DOMAIN row = RowFields
    BY <2>1, RowIs
  <2>3. [row EXCEPT !.unread = 0] \in Rows /\ [row EXCEPT !.unread = 0].customer = row.customer
    BY <2>2 DEF Rows, RowFields
  <2>4. [row EXCEPT !.hidden = TRUE] \in Rows /\ [row EXCEPT !.hidden = TRUE].customer = row.customer
    BY <2>2 DEF Rows, RowFields
  <2>5. row' \in Rows /\ row'.customer = row.customer
    BY <2>1, <2>3, <2>4
  <2> QED BY <1>2, <2>1, <2>5, NoRowIsNone, TypesGive, LinkKept
<1>4. CASE MarkHandled
  <2>1. link' = link /\ opportunities' = opportunities /\ reassigned' = reassigned
    BY <1>4 DEF MarkHandled
  <2>2. row # NoRow /\ row' # NoRow /\ row'.customer = row.customer
    BY <1>4, HandledIs, NoRowIsNone
  <2> QED BY <1>2, <2>1, <2>2, TypesGive, LinkKept
<1>5. CASE CreateOpportunity
  <2>1. /\ row # NoRow /\ row.customer \in Customers /\ UNCHANGED <<row, link, reassigned>>
        /\ opportunities' = Append(opportunities, NewOpportunity(row.customer, TRUE))
    BY <1>5, RowIs DEF CreateOpportunity, Visible, Available
  <2>2. NewOpportunity(row.customer, TRUE) \in Opportunities
    BY <2>1, NewOpportunityIs
  <2>3. /\ Len(opportunities') = Len(opportunities) + 1
        /\ \A o \in 1..Len(opportunities) : opportunities'[o] = opportunities[o]
    BY <2>1, <2>2, OpportunitiesGrow
  <2>4. Len(opportunities) <= Len(opportunities')
    BY <2>3, TypesGive
  <2> QED BY <1>2, <2>1, <2>3, <2>4, LinkKept
<1>6. CASE Unlink
  BY <1>6 DEF Unlink, Visible, LinkInv, LinkFollowsCustomer
<1>7. ASSUME NEW c \in Customers, Resolve(c)
      PROVE  LinkInv'
  <2>1. /\ row # NoRow /\ row' = [row EXCEPT !.customer = c, !.resolved = TRUE]
        /\ link' = link /\ opportunities' = opportunities
        /\ ~reassigned' => ~reassigned /\ (link = 0 \/ row.customer = c)
    BY <1>7, Zenon DEF Resolve, Visible
  <2>2. row \in Rows /\ DOMAIN row = RowFields
    BY <2>1, RowIs
  <2>3. row' \in Rows /\ row'.customer = c
    BY <2>1, <2>2 DEF Rows, RowFields
  <2> QED BY <1>2, <2>1, <2>3, NoRowIsNone DEF LinkInv, LinkFollowsCustomer
<1>8. ASSUME NEW o \in 1..Len(opportunities), LinkOpportunity(o)
      PROVE  LinkInv'
  BY <1>8 DEF LinkOpportunity, Linkable, Visible, LinkInv, LinkFollowsCustomer
<1>9. ASSUME NEW o \in 1..Len(opportunities), OpenForOpportunity(o)
      PROVE  LinkInv'
  <2>1. /\ link' = o /\ row' \in Rows /\ row'.customer = opportunities[o].customer
        /\ opportunities' = opportunities
    BY <1>9, OpenIs
  <2> QED BY <2>1, NoRowIsNone DEF LinkInv, LinkFollowsCustomer
<1> QED BY <1>3, <1>4, <1>5, <1>6, <1>7, <1>8, <1>9 DEF Commands

LEMMA RepliesLinks ==
  ASSUME TInv, LinkInv, Prepares \/ Dispatches \/ Records
  PROVE  LinkInv'
<1>1. /\ link' = link /\ opportunities' = opportunities /\ reassigned' = reassigned
      /\ ~overlapped' => ~overlapped
      /\ row' = row \/ (row # NoRow /\ row' = Recomputed(row, messages, delivery))
  <2>1. CASE Prepares
    BY <2>1, PrepareIs DEF Prepares, conversationVars, marketVars
  <2>2. ASSUME NEW q \in Requests, StartDispatch(q)
        PROVE  /\ UNCHANGED <<row, link, opportunities, reassigned>>
               /\ ~overlapped' => ~overlapped
    <3>1. UNCHANGED <<row, link, opportunities, reassigned>>
      BY <2>2 DEF StartDispatch, conversationVars, marketVars
    <3>2. ~overlapped' => ~overlapped
      BY <2>2, Zenon DEF StartDispatch, NoteCommit
    <3> QED BY <3>1, <3>2
  <2>3. ASSUME NEW q \in Requests, ReconcileError(q)
        PROVE  UNCHANGED <<row, link, opportunities, reassigned, overlapped>>
    BY <2>3 DEF ReconcileError, conversationVars, marketVars, historyVars
  <2>4. ASSUME NEW q \in Requests, NEW accepted \in BOOLEAN,
               NEW answer \in {"accepted", "refused", "unknown"}, Call(q, accepted, answer)
        PROVE  UNCHANGED <<row, link, opportunities, reassigned, overlapped>>
    BY <2>4 DEF Call, conversationVars, marketVars, historyVars
  <2>5. ASSUME NEW q \in Requests, ReconcileAccepted(q)
        PROVE  /\ UNCHANGED <<link, opportunities, reassigned>> /\ (~overlapped' => ~overlapped)
               /\ row' = row \/ (row # NoRow /\ row' = Recomputed(row, messages, delivery))
    BY <2>5, ReconcileAcceptedIs DEF Commits, marketVars
  <2>6. CASE Records
    BY <2>6, EventRecordedIs DEF Records, Commits, marketVars
  <2> QED BY <2>1, <2>2, <2>3, <2>4, <2>5, <2>6 DEF Dispatches
<1>2. row # NoRow /\ row' = Recomputed(row, messages, delivery)
        => row' # NoRow /\ row'.customer = row.customer
  BY RecomputedRow, NoRowIsNone
<1> QED BY <1>1, <1>2, TypesGive, LinkKept

LEMMA NextLinks ==
  ASSUME TInv, HeldInv, LinkInv, [Next]_vars
  PROVE  LinkInv'
<1>1. CASE Elsewhere
  <2>1. /\ UNCHANGED <<row, link, overlapped, reassigned>>
        /\ Len(opportunities) <= Len(opportunities')
        /\ \A o \in 1..Len(opportunities) : opportunities'[o].customer = opportunities[o].customer
    BY <1>1, ElsewhereIs DEF conversationVars, historyVars
  <2> QED BY <2>1, LinkKept
<1>2. CASE Webhooks \/ Resumes \/ UNCHANGED vars
  <2>1. UNCHANGED <<row, link, opportunities, overlapped, reassigned>>
    BY <1>2, WebhooksAre, ResumesIs DEF vars, conversationVars, marketVars, historyVars
  <2> QED BY <2>1 DEF LinkInv, LinkFollowsCustomer
<1> QED BY <1>1, <1>2, NextCases, InboundLinks, CommandsLinks, RepliesLinks

\* The link leads to an opportunity of the conversation's customer until a
\* user reassigns the conversation or a commit comes between a webhook's
\* reading and its use (receive, link_opportunity, open_or_create).
THEOREM LinkFollowsCustomerCorrect == Spec => []LinkFollowsCustomer
<1>1. Init => TInv /\ HeldInv /\ LinkInv
  <2>1. Init => HeldInv /\ LinkInv
    BY DEF Init, HeldInv, UnreadIsSeen, LinkInv, LinkFollowsCustomer
  <2> QED BY <2>1, InitTyped
<1>2. TInv /\ HeldInv /\ LinkInv /\ [Next]_vars => TInv' /\ HeldInv' /\ LinkInv'
  BY NextTyped, NextHeld, NextLinks
<1>3. TInv /\ HeldInv /\ LinkInv => LinkFollowsCustomer
  BY DEF LinkInv
<1> QED BY <1>1, <1>2, <1>3, PTL DEF Spec

-----------------------------------------------------------------------------
(* Delivery evidence.                                                      *)

\* What the events of a message say.
Fact(e) == [state |-> e.state, at |-> e.at]
Facts(i) == {Fact(events[n]) : n \in EvidenceOf(i)}
Deliveries == [state : Reports \cup {"NONE"}, at : Nat]

\* The provider's clock, as Plausible has it.
Coherent(E) ==
  /\ E \subseteq [state : Reports, at : Nat]
  /\ \A e, f \in E :
       /\ e.state = f.state => e = f
       /\ e.state # "FAILED" /\ f.state # "FAILED" /\ Rank(e.state) > Rank(f.state) => e.at >= f.at

\* The delivery state that follows from events, in whatever order they were
\* applied.
Shows(d, E) ==
  /\ d \in Deliveries
  /\ d.state = "NONE" <=> E = {}
  /\ E # {} => d \in E
  /\ d.state \notin {"NONE", "FAILED"} => \A e \in E : Rank(e.state) <= Rank(d.state)
  /\ d.state = "FAILED" => \A e \in E : e.state # "FAILED" => e.at < d.at

EventOK(n) ==
  /\ events[n].message \in 1..Len(messages)
  /\ events[n].attached <=> messages[events[n].message].dispatch = "ACCEPTED"
EvidenceInv ==
  /\ delivery = [i \in 1..MaxMessages |-> delivery[i]]
  /\ \A n \in 1..Len(events) : EventOK(n)
  /\ \A i \in 1..Len(messages) :
       /\ Coherent(Facts(i))
       /\ messages[i].dispatch = "ACCEPTED" => Shows(delivery[i], Facts(i))

LEMMA RankIs ==
  /\ Reports \subseteq {"SENT", "DELIVERED", "READ", "FAILED"}
  /\ Rank("FAILED") = 0 /\ Rank("SENT") = 1 /\ Rank("DELIVERED") = 2 /\ Rank("READ") = 3
  /\ \A s \in Reports : Rank(s) \in Nat /\ (Rank(s) = 0 <=> s = "FAILED")
  /\ \A s, t \in Reports : Rank(s) = Rank(t) => s = t
BY InboxAssumption DEF Rank

\* One more event.
LEMMA AppliedShows ==
  ASSUME NEW E, NEW d, NEW e, Fact(e) \in [state : Reports, at : Nat],
         Coherent(E \cup {Fact(e)}), Shows(d, E)
  PROVE  Shows(Applied(d, e), E \cup {Fact(e)})
<1> DEFINE f == Fact(e)
           D == E \cup {f}
<1>1. /\ f.state = e.state /\ f.at = e.at /\ f \in [state : Reports, at : Nat]
      /\ f.state \in Reports /\ f.at \in Nat /\ f \in Deliveries
  BY DEF Fact, Deliveries
<1>2. Applied(d, e) = IF Replaces(d, f) THEN f ELSE d
  BY DEF Applied, Replaces, Fact
<1>3. /\ \A x \in D : x \in [state : Reports, at : Nat]
      /\ \A x, y \in D :
           /\ x.state = y.state => x = y
           /\ x.state # "FAILED" /\ y.state # "FAILED" /\ Rank(x.state) > Rank(y.state) => x.at >= y.at
  BY DEF Coherent
<1>4. "NONE" \notin Reports
  BY RankIs
<1> HIDE DEF f, D
<1>5. f \in D /\ E \subseteq D /\ D # {} /\ \A x \in D : x = f \/ x \in E
  BY DEF D, f
<1>6. \A x \in D : x.state \in Reports /\ x.at \in Nat
  BY <1>3
<1>9. /\ \A x \in D : Rank(x.state) \in Nat /\ (Rank(x.state) = 0 <=> x.state = "FAILED")
      /\ \A x, y \in D : Rank(x.state) = Rank(y.state) => x = y
  BY <1>3, <1>6, RankIs
<1>7. ASSUME E = {}
      PROVE  Shows(Applied(d, e), D)
  <2>1. Applied(d, e) = f
    BY <1>2, <1>7 DEF Shows, Replaces
  <2>2. \A x \in D : x = f
    BY <1>5, <1>7
  <2> QED BY <1>1, <1>4, <1>5, <1>6, <1>9, <2>1, <2>2 DEF Shows
<1>8. ASSUME E # {}
      PROVE  Shows(Applied(d, e), D)
  <2>1. /\ d \in E /\ d \in D /\ d \in Deliveries /\ d.state \in Reports /\ d.at \in Nat
        /\ d.state # "NONE"
    BY <1>5, <1>6, <1>8 DEF Shows
  <2>2. CASE Replaces(d, f) /\ f.state = "FAILED"
    <3>1. f.at > d.at
      BY <1>1, <1>5, <1>9, <2>1, <2>2 DEF Replaces
    <3>2. ASSUME NEW x \in D, x.state # "FAILED"
          PROVE  x.at < f.at
      <4>1. x \in E
        BY <1>5, <2>2, <3>2
      <4>2. CASE d.state = "FAILED"
        BY <1>1, <1>6, <2>1, <3>1, <4>1, <4>2, <3>2 DEF Shows
      <4>3. CASE d.state # "FAILED"
        <5>1. Rank(x.state) <= Rank(d.state)
          BY <2>1, <4>1, <4>3 DEF Shows
        <5>2. x.at <= d.at
          <6>1. CASE Rank(x.state) = Rank(d.state)
            BY <1>5, <1>6, <1>9, <2>1, <4>1, <6>1
          <6>2. CASE Rank(x.state) # Rank(d.state)
            <7>1. Rank(d.state) > Rank(x.state)
              BY <1>5, <1>6, <1>9, <2>1, <4>1, <5>1, <6>2
            <7>2. d.at >= x.at
              BY <1>3, <2>1, <3>2, <4>3, <7>1
            <7> QED BY <1>6, <2>1, <7>2
          <6> QED BY <6>1, <6>2
        <5> QED BY <1>1, <1>6, <2>1, <3>1, <5>2
      <4> QED BY <4>2, <4>3
    <3>3. Applied(d, e) = f
      BY <1>2, <2>2
    <3> QED BY <1>1, <1>4, <1>5, <2>2, <3>2, <3>3 DEF Shows
  <2>3. CASE Replaces(d, f) /\ f.state # "FAILED"
    <3>1. f.at > d.at \/ (f.at = d.at /\ Rank(f.state) > Rank(d.state))
      BY <2>1, <2>3 DEF Replaces
    <3>2. ASSUME NEW x \in D
          PROVE  Rank(x.state) <= Rank(f.state)
      <4>1. CASE x = f
        BY <1>5, <1>9, <4>1
      <4>2. CASE x \in E /\ x.state = "FAILED"
        BY <1>5, <1>9, <4>2
      <4>3. CASE x \in E /\ x.state # "FAILED"
        <5>1. SUFFICES ASSUME Rank(x.state) > Rank(f.state) PROVE FALSE
          BY <1>5, <1>6, <1>9
        <5>2. x.at >= f.at
          BY <1>3, <1>5, <2>3, <4>3, <5>1
        <5>3. CASE d.state = "FAILED"
          <6>1. x.at < d.at
            BY <4>3, <5>3 DEF Shows
          <6> QED BY <1>1, <1>6, <2>1, <3>1, <5>2, <6>1
        <5>4. CASE d.state # "FAILED"
          <6>1. Rank(x.state) <= Rank(d.state)
            BY <2>1, <4>3, <5>4 DEF Shows
          <6>2. Rank(d.state) > Rank(f.state)
            BY <1>5, <1>9, <2>1, <5>1, <6>1, <4>3
          <6>3. d.at >= f.at
            BY <1>9, <1>3, <1>5, <2>1, <2>3, <5>4, <6>2
          <6> QED BY <1>1, <1>5, <1>6, <1>9, <2>1, <3>1, <6>2, <6>3
        <5> QED BY <5>3, <5>4
      <4> QED BY <1>5, <4>1, <4>2, <4>3
    <3>3. Applied(d, e) = f
      BY <1>2, <2>3
    <3> QED BY <1>1, <1>4, <1>5, <2>3, <3>2, <3>3 DEF Shows
  <2>4. CASE ~Replaces(d, f)
    <3>1. Applied(d, e) = d
      BY <1>2, <2>4
    <3>2. ASSUME d.state # "FAILED"
          PROVE  Rank(f.state) <= Rank(d.state)
      <4>1. CASE f.state = "FAILED"
        BY <1>5, <1>9, <2>1, <4>1
      <4>2. CASE f.state # "FAILED"
        <5>1. SUFFICES ASSUME Rank(f.state) > Rank(d.state) PROVE FALSE
          BY <1>5, <1>9, <2>1
        <5>2. f.at >= d.at
          BY <1>3, <1>5, <2>1, <3>2, <4>2, <5>1
        <5> QED BY <1>1, <2>1, <2>4, <4>2, <5>1, <5>2 DEF Replaces
      <4> QED BY <4>1, <4>2
    <3>3. ASSUME d.state = "FAILED", f.state # "FAILED"
          PROVE  f.at < d.at
      <4>1. Rank(f.state) > Rank(d.state)
        BY <1>5, <1>9, <2>1, <3>3
      <4> QED BY <1>1, <2>1, <2>4, <3>3, <4>1 DEF Replaces
    <3>4. d.state \notin {"NONE", "FAILED"} => \A x \in D : Rank(x.state) <= Rank(d.state)
      BY <1>5, <2>1, <3>2 DEF Shows
    <3>5. d.state = "FAILED" => \A x \in D : x.state # "FAILED" => x.at < d.at
      BY <1>5, <2>1, <3>3 DEF Shows
    <3> QED BY <1>5, <2>1, <3>1, <3>4, <3>5 DEF Shows
  <2> QED BY <2>2, <2>3, <2>4
<1> QED BY <1>7, <1>8 DEF D, f

LEMMA GreatestOfFirst ==
  ASSUME NEW n \in Nat
  PROVE  /\ \A s \in SUBSET (1..n) : s # {} => Max(s) \in s
         /\ \A k \in 1..n : Max(1..k) = k
<1>1. ASSUME NEW s \in SUBSET (1..n), s # {}
      PROVE  Max(s) \in s
  <2>1. IsFiniteSet(1..n)
    BY FS_Interval
  <2>2. IsFiniteSet(s)
    <3> HIDE <1>1
    <3> QED BY <2>1, FS_Subset
  <2>3. s \in SUBSET Nat
    OBVIOUS
  <2>4. PICK x \in s : \A y \in s : y <= x
    BY <1>1, <2>2, <2>3, GreatestExists
  <2>5. \A y \in s : x >= y
    BY <2>3, <2>4
  <2> QED BY <2>5 DEF Max
<1>2. ASSUME NEW k \in 1..n
      PROVE  Max(1..k) = k
  <2>1. \A x \in 1..k : (\A y \in 1..k : x >= y) <=> x = k
    OBVIOUS
  <2>2. k \in 1..k
    OBVIOUS
  <2> QED BY <2>1, <2>2 DEF Max
<1> QED BY <1>1, <1>2

\* The pending events are in a sequence, each once.
LEMMA PendingIs ==
  ASSUME TInv, NEW i
  PROVE  LET P == {n \in 1..Len(events) : events[n].message = i /\ ~events[n].attached} IN
         /\ Cardinality(P) \in Nat /\ Pending(i) \in [1..Cardinality(P) -> P]
         /\ \A n \in P : \E k \in 1..Cardinality(P) : Pending(i)[k] = n
<1> DEFINE P == {n \in 1..Len(events) : events[n].message = i /\ ~events[n].attached}
           less == {x \in P \X P : Earlier(x[1], x[2])}
           Ordered(q) == \A j, k \in DOMAIN q : j < k => Earlier(q[j], q[k])
<1>1. IsFiniteSet(P) /\ Cardinality(P) \in Nat
  <2>1. IsFiniteSet(1..Len(events))
    BY TypesGive, FS_Interval
  <2>2. P \in SUBSET (1..Len(events))
    OBVIOUS
  <2> HIDE DEF P
  <2>3. IsFiniteSet(P)
    BY <2>1, <2>2, FS_Subset
  <2> QED BY <2>3, FS_CardinalityType
<1>2. \A n \in P : n \in Nat /\ events[n].at \in Nat
  <2>1. \A n \in 1..Len(events) : events[n] \in Events
    BY TypesGive
  <2> QED BY <2>1 DEF Events
<1>3. P = {n \in 1..Len(events) : events[n].message = i /\ ~events[n].attached}
  OBVIOUS
<1> HIDE DEF P
<1>4. \A m, n \in P : <<m, n>> \in less <=> Earlier(m, n)
  OBVIOUS
<1> HIDE DEF less
<1>5. Orders(less, P)
  <2>1. \A m, n \in P : m # n => Earlier(m, n) \/ Earlier(n, m)
    BY <1>2 DEF Earlier
  <2>2. \A n \in P : ~Earlier(n, n)
    BY <1>2 DEF Earlier
  <2>3. \A l, m, n \in P : Earlier(l, m) /\ Earlier(m, n) => Earlier(l, n)
    BY <1>2 DEF Earlier
  <2> QED BY <1>4, <2>1, <2>2, <2>3 DEF Orders
<1>6. PICK q : Sorts(q, P, less)
  BY <1>1, <1>5, SortedExists
<1>7. q \in SetToSeqs(P) /\ Ordered(q)
  <2>1. /\ q \in [1..Cardinality(P) -> P]
        /\ \A j, k \in 1..Cardinality(P) : j < k => <<q[j], q[k]>> \in less
    BY <1>6 DEF Sorts
  <2>2. \A n \in P : <<n, n>> \notin less
    BY <1>5 DEF Orders
  <2>3. ASSUME NEW j \in 1..Cardinality(P), NEW k \in 1..Cardinality(P), j # k
        PROVE  q[j] # q[k]
    <3>1. j < k \/ k < j
      BY <1>1, <2>3
    <3> QED BY <2>1, <2>2, <3>1
  <2>4. q \in SetToSeqs(P)
    BY <2>1, <2>3 DEF SetToSeqs
  <2>5. Ordered(q)
    BY <1>4, <2>1
  <2> QED BY <2>4, <2>5
<1>8. Pending(i) \in SetToSeqs(P) /\ Ordered(Pending(i))
  <2>1. Pending(i) = CHOOSE ns \in SetToSeqs(P) : Ordered(ns)
    BY <1>3 DEF Pending
  <2> HIDE DEF Ordered
  <2> QED BY <1>7, <2>1, Zenon
<1>9. Pending(i) \in [1..Cardinality(P) -> P]
  BY <1>8 DEF SetToSeqs
<1>10. \A j, k \in 1..Cardinality(P) : j < k => <<Pending(i)[j], Pending(i)[k]>> \in less
  BY <1>4, <1>8, <1>9
<1>11. Sorts(Pending(i), P, less)
  BY <1>1, <1>5, <1>9, <1>10, SortedIs
<1> QED BY <1>1, <1>3, <1>9, <1>11 DEF Sorts

\* What a message accepted at last is shown to be.
LEMMA AttachedShows ==
  ASSUME TInv, NEW i, \A n \in EvidenceOf(i) : ~events[n].attached, Coherent(Facts(i))
  PROVE  Shows(DeliveryAttached(i), Facts(i))
<1> DEFINE P == EvidenceOf(i)
           base == [state |-> "NONE", at |-> 0]
           n == Cardinality(P)
           ns == Pending(i)
           V == Deliveries
           S == 1..n
           pick == [s \in SUBSET S |-> Max(s)]
           op == [xv \in S \X V |-> Applied(xv[2], events[ns[xv[1]]])]
           F(g) == [s \in SUBSET S |-> IF s = {} THEN base
                                       ELSE Applied(g[s \ {Max(s)}], events[ns[Max(s)]])]
<1>1. /\ n \in Nat /\ ns \in [1..n -> P]
      /\ \A m \in P : \E k \in 1..n : ns[k] = m
  <2>1. P = {m \in 1..Len(events) : events[m].message = i /\ ~events[m].attached}
    BY DEF EvidenceOf
  <2> HIDE DEF P, ns
  <2>2. LET Q == {m \in 1..Len(events) : events[m].message = i /\ ~events[m].attached} IN
         /\ Cardinality(Q) \in Nat /\ ns \in [1..Cardinality(Q) -> Q]
         /\ \A m \in Q : \E k \in 1..Cardinality(Q) : ns[k] = m
    BY PendingIs DEF ns
  <2> QED BY <2>1, <2>2
<1>2. \A m \in P : /\ events[m].state \in Reports /\ events[m].at \in Nat
                   /\ Fact(events[m]) \in [state : Reports, at : Nat]
  <2>1. \A m \in P : events[m] \in Events
    BY TypesGive DEF EvidenceOf
  <2> QED BY <2>1 DEF Events, Fact
<1> HIDE DEF P
<1>3. DeliveryAttached(i) = (CHOOSE g : g = F(g))[S]
  <2>1. DeliveryAttached(i) =
          LET g == CHOOSE g : g = [s \in SUBSET (DOMAIN ns) |->
                                     IF s = {} THEN base
                                     ELSE Applied(g[s \ {Max(s)}], events[ns[Max(s)]])]
          IN g[DOMAIN ns]
    BY DEF DeliveryAttached, FoldLeft, MapThenFoldSet
  <2>2. DOMAIN ns = S
    BY <1>1
  <2> QED BY <2>1, <2>2, Zenon
<1> HIDE DEF n, ns
<1>4. IsFiniteSet(S)
  BY <1>1, FS_Interval
<1>5. /\ \A s \in SUBSET S : s # {} => Max(s) \in s
      /\ \A k \in S : Max(1..k) = k
  BY <1>1, GreatestOfFirst
<1>6. ASSUME NEW x \in S, NEW v \in V
      PROVE  op[<<x, v>>] = Applied(v, events[ns[x]]) /\ op[<<x, v>>] \in V
  <2>1. op[<<x, v>>] = Applied(v, events[ns[x]])
    OBVIOUS
  <2>2. ns[x] \in P
    BY <1>1
  <2> HIDE DEF op
  <2>3. Applied(v, events[ns[x]]) \in V
    BY <1>2, <2>2 DEF Applied, Deliveries
  <2> QED BY <2>1, <2>3
<1>7. \A s \in SUBSET S : s # {} => pick[s] = Max(s) /\ pick[s] \in s
  BY <1>5
<1>8. \A k \in S : pick[1..k] = k
  <2>1. \A k \in S : 1..k \in SUBSET S
    BY <1>1
  <2> QED BY <1>5, <2>1
<1>9. base \in V
  BY DEF Deliveries
<1> HIDE DEF V, op, pick, base
<1>10. Foldable(S, V, base, pick, op)
  BY <1>4, <1>6, <1>7, <1>9 DEF Foldable
<1>11. PICK g \in [SUBSET S -> V] : Folds(g, S, base, pick, op)
  <2> HIDE DEF S
  <2> QED BY <1>4, <1>10, FoldExists
<1>12. \A h : Folds(h, S, base, pick, op) =>
         \A s \in SUBSET S : h[s] = IF s = {} THEN base ELSE op[<<pick[s], h[s \ {pick[s]}]>>]
  BY DEF Folds
<1>13. ASSUME NEW s \in SUBSET S
       PROVE  g[s] = IF s = {} THEN base ELSE Applied(g[s \ {Max(s)}], events[ns[Max(s)]])
  <2>1. CASE s # {}
    <3>1. Max(s) \in S /\ g[s \ {Max(s)}] \in V /\ pick[s] = Max(s)
      BY <1>5, <1>7, <1>11, <2>1
    <3>2. g[s] = op[<<pick[s], g[s \ {pick[s]}]>>]
      BY <1>11, <1>12, <2>1
    <3> HIDE DEF S
    <3> QED BY <1>6, <2>1, <3>1, <3>2
  <2> QED BY <1>11, <1>12, <2>1
<1>14. g = F(g)
  BY <1>11, <1>13
<1>15. PICK h : h = F(h) /\ DeliveryAttached(i) = h[S]
  BY <1>3, <1>14
<1>16. /\ h[{}] = base
       /\ \A s \in SUBSET S : s # {} => h[s] = Applied(h[s \ {Max(s)}], events[ns[Max(s)]])
  BY <1>15, Zenon
<1>17. ASSUME NEW k \in 1..n, h[1..(k - 1)] \in V
       PROVE  h[1..k] = op[<<k, h[1..(k - 1)]>>]
  <2>1. k \in 1..k /\ 1..k \in SUBSET S
    BY <1>1
  <2>2. 1..k # {} /\ Max(1..k) = k /\ (1..k) \ {k} = 1..(k - 1)
    <3>1. (1..k) \ {k} = 1..(k - 1)
      BY <1>1
    <3> QED BY <1>5, <2>1, <3>1
  <2>3. h[1..k] = Applied(h[(1..k) \ {Max(1..k)}], events[ns[Max(1..k)]])
    BY <1>16, <2>1, <2>2
  <2>4. h[1..k] = Applied(h[1..(k - 1)], events[ns[k]])
    BY <2>2, <2>3
  <2> QED BY <1>6, <1>17, <2>4
<1>18. \A k \in 1..n, v \in V : op[<<k, v>>] \in V
  BY <1>6
<1> HIDE DEF F
<1>19. PICK R \in [0..n -> V] :
         /\ R[0] = base /\ \A k \in 1..n : R[k] = op[<<k, R[k - 1]>>]
         /\ h[1..n] = R[n]
  <2> HIDE DEF S
  <2>1. DeliveryAttached(i) = h[1..n]
    BY <1>15 DEF S
  <2>2. \A k \in 1..n : h[1..(k - 1)] \in V => h[1..k] = op[<<k, h[1..(k - 1)]>>]
    BY <1>17
  <2>3. n \in Nat /\ base \in V /\ h[{}] = base
    BY <1>1, <1>9, <1>16
  <2>4. TakesTurns(h, n, V, base, op)
    BY <1>18, <2>2, <2>3 DEF TakesTurns
  <2> QED BY <2>4, FoldsInTurn
<1> DEFINE First(k) == {Fact(events[ns[j]]) : j \in 1..k}
<1>20. First(n) = Facts(i)
  <2>1. Facts(i) = {Fact(events[m]) : m \in P}
    BY DEF Facts, P
  <2> QED BY <1>1, <2>1
<1>21. \A k \in 0..n : Shows(R[k], First(k))
  <2> DEFINE T == {k \in Nat : k <= n => Shows(R[k], First(k))}
  <2>1. 0 \in T
    <3>1. First(0) = {} /\ base.state = "NONE" /\ base \in Deliveries
      BY <1>9 DEF base, V
    <3>2. Shows(base, {})
      BY <3>1 DEF Shows
    <3> QED BY <1>19, <3>1, <3>2
  <2>2. ASSUME NEW k \in Nat, k \in T
        PROVE  k + 1 \in T
    <3>1. SUFFICES ASSUME k + 1 <= n PROVE Shows(R[k + 1], First(k + 1))
      OBVIOUS
    <3>2. k + 1 \in 1..n /\ k \in 0..n /\ (k + 1) - 1 = k
      BY <1>1, <3>1
    <3>3. Shows(R[k], First(k)) /\ R[k] \in V
      BY <1>1, <1>19, <2>2, <3>2
    <3> DEFINE e == events[ns[k + 1]]
    <3>4. R[k + 1] = Applied(R[k], e)
      <4>1. R[k + 1] = op[<<k + 1, R[k]>>]
        BY <1>19, <3>2
      <4> QED BY <1>6, <3>2, <3>3, <4>1
    <3>5. First(k + 1) = First(k) \cup {Fact(e)} /\ First(k + 1) \subseteq First(n)
      BY <1>1, <3>2
    <3>6. ns[k + 1] \in P
      BY <1>1, <3>2
    <3> HIDE DEF First, e
    <3>7. Fact(e) \in [state : Reports, at : Nat]
      BY <1>2, <3>6 DEF e
    <3>8. Coherent(First(k) \cup {Fact(e)})
      BY <1>20, <3>5 DEF Coherent
    <3>9. Shows(Applied(R[k], e), First(k) \cup {Fact(e)})
      BY <3>3, <3>7, <3>8, AppliedShows
    <3> QED BY <3>4, <3>5, <3>9
  <2> HIDE DEF T
  <2>3. Nat \subseteq T
    BY <2>1, <2>2, AllNaturals
  <2>4. ASSUME NEW k \in 0..n
        PROVE  Shows(R[k], First(k))
    <3>1. k \in T /\ k <= n
      BY <1>1, <2>3
    <3> HIDE DEF First
    <3> QED BY <3>1 DEF T
  <2> QED BY <2>4
<1>22. n \in 0..n /\ DeliveryAttached(i) = R[n]
  BY <1>1, <1>15, <1>19
<1> HIDE DEF First
<1> QED BY <1>20, <1>21, <1>22

\* Steps that leave events and delivery, and accept no message.
LEMMA EvidenceKept ==
  ASSUME TInv, EvidenceInv, events' = events, delivery' = delivery,
         Len(messages') \in Nat, Len(messages) <= Len(messages'),
         \A i \in 1..Len(messages') :
           IF i <= Len(messages)
           THEN messages'[i].dispatch = "ACCEPTED" <=> messages[i].dispatch = "ACCEPTED"
           ELSE messages'[i].dispatch # "ACCEPTED"
  PROVE  EvidenceInv'
<1>1. Len(messages) \in Nat
  BY TypesGive
<1>2. \A i : Facts(i)' = Facts(i) /\ EvidenceOf(i)' = EvidenceOf(i)
  BY DEF Facts, EvidenceOf
<1>3. ASSUME NEW i \in 1..Len(messages'), ~(i <= Len(messages))
      PROVE  Coherent(Facts(i))
  <2>1. EvidenceOf(i) = {}
    BY <1>1, <1>3 DEF EvidenceInv, EventOK, EvidenceOf
  <2> QED BY <2>1 DEF Facts, Coherent
<1>4. \A n \in 1..Len(events) : EventOK(n)'
  BY <1>1 DEF EvidenceInv, EventOK
<1>5. ASSUME NEW i \in 1..Len(messages')
      PROVE  /\ Coherent(Facts(i))
             /\ messages'[i].dispatch = "ACCEPTED" => Shows(delivery[i], Facts(i))
  <2>1. CASE i <= Len(messages)
    <3>1. i \in 1..Len(messages)
      BY <1>1, <2>1
    <3> QED BY <2>1, <3>1 DEF EvidenceInv
  <2> QED BY <1>3, <2>1
<1> QED BY <1>2, <1>4, <1>5 DEF EvidenceInv

LEMMA QuietEvidence ==
  ASSUME TInv, EvidenceInv, UNCHANGED <<messages, events, delivery>>
  PROVE  EvidenceInv'
<1>1. Len(messages) \in Nat
  BY TypesGive
<1> QED BY <1>1, EvidenceKept

\* A reply changes, and is not accepted by that.
LEMMA ReplyEvidence ==
  ASSUME TInv, EvidenceInv, events' = events, delivery' = delivery, NEW i \in 1..Len(messages),
         messages[i].dispatch # "ACCEPTED", NEW s, s # "ACCEPTED", NEW at, MessageBecomes(i, s, at)
  PROVE  EvidenceInv'
<1>1. Len(messages) \in Nat /\ Len(messages') = Len(messages)
  BY TypesGive DEF MessageBecomes
<1>2. \A j \in 1..Len(messages) :
        messages'[j].dispatch = "ACCEPTED" <=> messages[j].dispatch = "ACCEPTED"
  BY DEF MessageBecomes
<1> QED BY <1>1, <1>2, EvidenceKept

LEMMA NewMessageEvidence ==
  ASSUME TInv, EvidenceInv, Inbound \/ Prepares
  PROVE  EvidenceInv'
<1>1. /\ events' = events /\ delivery' = delivery
      /\ Len(messages') = Len(messages) + 1
      /\ \A i \in 1..Len(messages) : messages'[i] = messages[i]
      /\ messages'[Len(messages) + 1].dispatch # "ACCEPTED"
  <2>1. CASE Inbound
    <3>1. PICK m \in Inbounds, at \in Nat \ {0} : Receive(m, at) \/ ReceiveFirst(m, at)
      BY <2>1 DEF Inbound
    <3>2. /\ messages' = Append(messages, InboundMessage(m, at))
          /\ held' = [held EXCEPT ![m] = Idle] /\ held[m] # Idle
          /\ delivery' = delivery /\ events' = events
      BY <3>1, ReceiveIs, ReceiveFirstIs
    <3> QED BY <3>2, InboundMessageIs DEF InboundMessage
  <2>2. CASE Prepares
    BY <2>2, PrepareIs DEF Prepares
  <2> QED BY <2>1, <2>2
<1>2. Len(messages) \in Nat
  BY TypesGive
<1>3. \A i \in 1..Len(messages') :
        IF i <= Len(messages)
        THEN messages'[i].dispatch = "ACCEPTED" <=> messages[i].dispatch = "ACCEPTED"
        ELSE messages'[i].dispatch # "ACCEPTED"
  <2>1. \A i \in 1..Len(messages') : i \in 1..Len(messages) \/ i = Len(messages) + 1
    BY <1>1, <1>2
  <2> QED BY <1>1, <1>2, <2>1
<1> QED BY <1>1, <1>2, <1>3, EvidenceKept

\* Acceptance: the events that waited for the message are applied.
LEMMA AcceptedEvidence ==
  ASSUME TInv, EvidenceInv, NEW i \in 1..Len(messages), messages[i].dispatch # "ACCEPTED",
         NEW at, MessageBecomes(i, "ACCEPTED", at), events' = Attached(i),
         delivery' = [delivery EXCEPT ![i] = DeliveryAttached(i)]
  PROVE  EvidenceInv'
<1>1. Len(messages') = Len(messages) /\ messages'[i].dispatch = "ACCEPTED"
      /\ \A j \in 1..Len(messages) : j # i => messages'[j] = messages[j]
  BY DEF MessageBecomes
<1>2. /\ Len(events') = Len(events) /\ Len(events) \in Nat
      /\ \A n \in 1..Len(events) :
           /\ events'[n].message = events[n].message
           /\ events'[n].state = events[n].state /\ events'[n].at = events[n].at
           /\ events'[n].attached <=> events[n].attached \/ events[n].message = i
  <2>1. events \in Seq(Events) /\ Len(events) \in Nat
    BY TypesGive
  <2>2. Len(events') = Len(events)
    BY <2>1, AttachedIs
  <2>3. \A n \in 1..Len(events) :
          events'[n] = [events[n] EXCEPT !.attached = @ \/ events[n].message = i]
    BY <2>1 DEF Attached
  <2>4. \A n \in 1..Len(events) : events[n] \in Events
    BY <2>1
  <2>5. ASSUME NEW n \in 1..Len(events)
        PROVE  /\ events'[n].message = events[n].message
               /\ events'[n].state = events[n].state /\ events'[n].at = events[n].at
               /\ events'[n].attached <=> events[n].attached \/ events[n].message = i
    <3> DEFINE e == events[n]
    <3>1. DOMAIN e = {"message", "state", "at", "attached"} /\ e.attached \in BOOLEAN
      BY <2>4 DEF Events
    <3>2. events'[n] = [e EXCEPT !.attached = e.attached \/ e.message = i]
      BY <2>3
    <3> HIDE DEF e
    <3>3. /\ events'[n].message = e.message /\ events'[n].state = e.state /\ events'[n].at = e.at
          /\ events'[n].attached = (e.attached \/ e.message = i)
      BY <3>1, <3>2
    <3> QED BY <3>1, <3>3 DEF e
  <2> QED BY <2>1, <2>2, <2>5
<1>3. \A j : EvidenceOf(j)' = EvidenceOf(j)
  BY <1>2 DEF EvidenceOf
<1>4. \A n \in 1..Len(events) : Fact(events'[n]) = Fact(events[n])
  BY <1>2 DEF Fact
<1>5. \A j : Facts(j)' = Facts(j)
  <2>1. \A j : EvidenceOf(j) \subseteq 1..Len(events)
    BY DEF EvidenceOf
  <2>2. \A j : Facts(j)' = {Fact(events'[n]) : n \in EvidenceOf(j)}
    BY <1>3 DEF Facts
  <2> QED BY <1>4, <2>1, <2>2 DEF Facts
<1>6. \A n \in 1..Len(events') : EventOK(n)'
  BY <1>1, <1>2 DEF EvidenceInv, EventOK
<1>7. Shows(DeliveryAttached(i), Facts(i))
  <2>1. \A n \in EvidenceOf(i) : ~events[n].attached
    BY DEF EvidenceInv, EventOK, EvidenceOf
  <2>2. Coherent(Facts(i))
    BY DEF EvidenceInv
  <2> QED BY <2>1, <2>2, AttachedShows
<1>8. i \in 1..MaxMessages
  <2>1. Len(messages) <= MaxMessages /\ Len(messages) \in Nat
    BY TypesGive DEF TInv, TypeOK
  <2>2. MaxMessages \in Nat
    BY InboxAssumption, FS_CardinalityType DEF MaxMessages
  <2> QED BY <2>1, <2>2
<1>9. /\ delivery' = [j \in 1..MaxMessages |-> delivery'[j]]
      /\ delivery'[i] = DeliveryAttached(i) /\ \A j : j # i => delivery'[j] = delivery[j]
  <2> DEFINE d == DeliveryAttached(i)
  <2>1. delivery = [j \in 1..MaxMessages |-> delivery[j]] /\ delivery' = [delivery EXCEPT ![i] = d]
    BY DEF EvidenceInv
  <2> HIDE DEF d
  <2>2. DOMAIN delivery = 1..MaxMessages
    BY <2>1
  <2>3. delivery'[i] = d /\ \A j : j # i => delivery'[j] = delivery[j]
    BY <1>8, <2>1, <2>2
  <2>4. delivery' = [j \in 1..MaxMessages |-> delivery'[j]]
    BY <2>1, <2>2
  <2> QED BY <2>3, <2>4 DEF d
<1>10. ASSUME NEW j \in 1..Len(messages')
       PROVE  /\ Coherent(Facts(j))
              /\ messages'[j].dispatch = "ACCEPTED" => Shows(delivery'[j], Facts(j))
  BY <1>1, <1>7, <1>9 DEF EvidenceInv
<1> QED BY <1>5, <1>6, <1>9, <1>10 DEF EvidenceInv

LEMMA DispatchesEvidence ==
  ASSUME TInv, EvidenceInv, Dispatches
  PROVE  EvidenceInv'
<1>1. ASSUME NEW q \in Requests, NEW s \in DispatchStates \ {"ACCEPTED"}, request[q].step # "idle",
             messages[request[q].message].dispatch # "ACCEPTED",
             SetDispatch(request[q].message, s), UNCHANGED <<events, delivery>>
      PROVE  EvidenceInv'
  <2> DEFINE i == request[q].message
  <2>1. i \in 1..Len(messages)
    BY <1>1, UnderWay
  <2>2. MessageBecomes(i, s, messages[i].at)
    BY <1>1, <2>1, SetDispatchIs
  <2> HIDE DEF i
  <2>3. messages[i].dispatch # "ACCEPTED" /\ events' = events /\ delivery' = delivery /\ s # "ACCEPTED"
    BY <1>1 DEF i
  <2> QED BY <2>1, <2>2, <2>3, ReplyEvidence
<1>2. ASSUME NEW q \in Requests, StartDispatch(q)
      PROVE  EvidenceInv'
  <2>1. /\ request[q].step # "idle" /\ UNCHANGED <<events, delivery>>
        /\ \/ /\ messages[request[q].message].dispatch = "PENDING"
              /\ SetDispatch(request[q].message, "IN_PROGRESS")
           \/ messages' = messages
    BY <1>2 DEF StartDispatch, Startable
  <2>2. "IN_PROGRESS" \in DispatchStates \ {"ACCEPTED"}
    BY DEF DispatchStates
  <2> QED BY <1>1, <2>1, <2>2, QuietEvidence
<1>3. ASSUME NEW q \in Requests, ReconcileError(q)
      PROVE  EvidenceInv'
  <2> DEFINE s == IF request[q].answer = "unknown" THEN "UNKNOWN" ELSE "DEFINITIVE_FAILED"
  <2>1. /\ request[q].step # "idle" /\ UNCHANGED <<events, delivery>>
        /\ \/ /\ messages[request[q].message].dispatch = "IN_PROGRESS"
              /\ SetDispatch(request[q].message, s)
           \/ messages' = messages
    BY <1>3 DEF ReconcileError, Settles
  <2>2. s \in DispatchStates \ {"ACCEPTED"}
    BY DEF DispatchStates
  <2> HIDE DEF s
  <2> QED BY <1>1, <2>1, <2>2, QuietEvidence
<1>4. ASSUME NEW q \in Requests, NEW accepted \in BOOLEAN,
             NEW answer \in {"accepted", "refused", "unknown"}, Call(q, accepted, answer)
      PROVE  EvidenceInv'
  <2>1. UNCHANGED <<messages, events, delivery>>
    BY <1>4 DEF Call, messageVars
  <2> QED BY <2>1, QuietEvidence
<1>5. ASSUME NEW q \in Requests, ReconcileAccepted(q)
      PROVE  EvidenceInv'
  <2> DEFINE i == request[q].message
  <2>1. /\ i \in 1..Len(messages)
        /\ \/ UNCHANGED <<messages, delivery, events>>
           \/ /\ messages[i].dispatch = "IN_PROGRESS"
              /\ MessageBecomes(i, "ACCEPTED", wire[i]) /\ events' = Attached(i)
              /\ delivery' = [delivery EXCEPT ![i] = DeliveryAttached(i)]
    BY <1>5, ReconcileAcceptedIs DEF messageVars
  <2> HIDE DEF i
  <2> QED BY <2>1, QuietEvidence, AcceptedEvidence
<1> QED BY <1>2, <1>3, <1>4, <1>5 DEF Dispatches

\* An event is recorded, again or for the first time.
LEMMA RecordedFacts ==
  ASSUME TInv, EvidenceInv, NEW i \in 1..Len(messages), NEW s \in Reports, NEW at \in 1..clock,
         Record(i, s, at)
  PROVE  LET f == [state |-> s, at |-> at] IN
         /\ messages' = messages
         /\ \A n \in 1..Len(events') : EventOK(n)'
         /\ Facts(i)' = Facts(i) \cup {f}
         /\ \A j : j # i => Facts(j)' = Facts(j)
<1> DEFINE f == [state |-> s, at |-> at]
           new == [message |-> i, state |-> s, at |-> at, attached |-> Matched(i)]
           known == {n \in 1..Len(events) : events[n].message = i /\ events[n].state = s}
<1>1. /\ Plausible(i, s, at) /\ messages' = messages
      /\ events' = IF known = {} THEN Append(events, new)
                   ELSE [n \in 1..Len(events) |->
                           IF n \in known /\ Matched(i) THEN new ELSE events[n]]
  BY DEF Record
<1>2. events \in Seq(Events) /\ Len(events) \in Nat
  BY TypesGive
<1>3. /\ new.message = i /\ new.attached = Matched(i) /\ Fact(new) = f
      /\ new.state = s /\ new.at = at
  BY DEF Fact
<1>4. Matched(i) = (messages[i].dispatch = "ACCEPTED")
  BY DEF Matched
<1>5. \A n \in 1..Len(events) : n \in known <=> events[n].message = i /\ events[n].state = s
  OBVIOUS
<1>6. known \subseteq 1..Len(events)
  OBVIOUS
<1> HIDE DEF new, known, f
<1>7. \A j : /\ Facts(j) = {Fact(events[n]) : n \in EvidenceOf(j)}
             /\ Facts(j)' = {Fact(events'[n]) : n \in EvidenceOf(j)'}
  BY DEF Facts
<1>8. /\ \A j, n : n \in EvidenceOf(j) <=> n \in 1..Len(events) /\ events[n].message = j
      /\ \A j, n : n \in EvidenceOf(j)' <=> n \in 1..Len(events') /\ events'[n].message = j
  BY DEF EvidenceOf
<1>9. CASE known = {}
  <2>1. events' = Append(events, new)
    BY <1>1, <1>9
  <2>2. /\ Len(events') = Len(events) + 1 /\ events'[Len(events) + 1] = new
        /\ \A n \in 1..Len(events) : events'[n] = events[n]
    BY <1>2, <2>1
  <2>3. \A n : n \in 1..Len(events') <=> n \in 1..Len(events) \/ n = Len(events) + 1
    BY <1>2, <2>2
  <2>4. Len(events) + 1 \notin 1..Len(events)
    BY <1>2
  <2>5. \A n \in 1..Len(events') : EventOK(n)'
    BY <1>1, <1>3, <1>4, <2>2, <2>3 DEF EvidenceInv, EventOK
  <2>6. /\ \A j : j # i => EvidenceOf(j)' = EvidenceOf(j)
        /\ EvidenceOf(i)' = EvidenceOf(i) \cup {Len(events) + 1}
        /\ \A j, n : n \in EvidenceOf(j) => events'[n] = events[n]
    <3>1. \A j, n : n \in EvidenceOf(j) => n \in 1..Len(events) /\ events'[n] = events[n]
      BY <1>8, <2>2
    <3>2. \A j, n : n \in EvidenceOf(j)' <=>
                    n \in EvidenceOf(j) \/ (n = Len(events) + 1 /\ j = i)
      BY <1>3, <1>8, <2>2, <2>3, <2>4
    <3>3. ASSUME NEW j, j # i
          PROVE  EvidenceOf(j)' = EvidenceOf(j)
      <4>1. \A n : n \in EvidenceOf(j)' <=> n \in EvidenceOf(j)
        BY <3>2, <3>3
      <4> QED BY <4>1
    <3>4. EvidenceOf(i)' = EvidenceOf(i) \cup {Len(events) + 1}
      BY <3>2
    <3> QED BY <3>1, <3>3, <3>4
  <2>7. ASSUME NEW j, j # i
        PROVE  Facts(j)' = Facts(j)
    BY <1>7, <2>6, <2>7
  <2>8. Facts(i)' = Facts(i) \cup {f}
    BY <1>3, <1>7, <2>2, <2>6
  <2> QED BY <1>1, <2>5, <2>7, <2>8 DEF f
<1>10. CASE known # {}
  <2> DEFINE e(n) == IF n \in known /\ Matched(i) THEN new ELSE events[n]
  <2>1. events' = [n \in 1..Len(events) |-> e(n)]
    BY <1>1, <1>10
  <2>2. Len(events') = Len(events) /\ \A n \in 1..Len(events) : events'[n] = e(n)
    BY <1>2, <2>1
  <2>3. \A n \in known : events[n].at = at
    BY <1>1, <1>5, <1>6 DEF Plausible
  <2>4. \A n \in 1..Len(events) :
          /\ e(n).message = events[n].message /\ Fact(e(n)) = Fact(events[n])
          /\ e(n).attached <=> events[n].attached
    <3>1. ASSUME NEW n \in known, Matched(i)
          PROVE  /\ new.message = events[n].message /\ Fact(new) = Fact(events[n])
                 /\ new.attached <=> events[n].attached
      <4>1. n \in 1..Len(events) /\ events[n].message = i /\ events[n].state = s /\ events[n].at = at
        BY <1>5, <1>6, <2>3
      <4>2. events[n].attached
        BY <1>4, <3>1, <4>1 DEF EvidenceInv, EventOK
      <4> QED BY <1>3, <3>1, <4>1, <4>2 DEF Fact
    <3> QED BY <3>1
  <2> HIDE DEF e
  <2>5. \A n \in 1..Len(events') : EventOK(n)'
    BY <1>1, <2>2, <2>4 DEF EvidenceInv, EventOK
  <2>6. ASSUME NEW j
        PROVE  Facts(j)' = Facts(j)
    <3>1. \A n : n \in EvidenceOf(j)' <=> n \in EvidenceOf(j)
      BY <1>8, <2>2, <2>4
    <3>2. EvidenceOf(j)' = EvidenceOf(j)
      BY <3>1
    <3>3. \A n \in EvidenceOf(j) : Fact(events'[n]) = Fact(events[n])
      BY <1>8, <2>2, <2>4
    <3>4. Facts(j)' = {Fact(events'[n]) : n \in EvidenceOf(j)}
      BY <1>7, <3>2
    <3>5. Facts(j) = {Fact(events[n]) : n \in EvidenceOf(j)}
      BY <1>7
    <3> QED BY <3>3, <3>4, <3>5
  <2>8. PICK n \in known : TRUE
    BY <1>10
  <2>9. f \in Facts(i)
    <3>1. n \in EvidenceOf(i) /\ events[n].state = s /\ events[n].at = at
      BY <1>5, <1>6, <1>8, <2>3, <2>8
    <3>2. Fact(events[n]) = f
      BY <3>1 DEF Fact, f
    <3> QED BY <1>7, <3>1, <3>2
  <2> QED BY <1>1, <2>5, <2>6, <2>9 DEF f
<1> QED BY <1>9, <1>10

LEMMA RecordsEvidence ==
  ASSUME TInv, EvidenceInv, Records
  PROVE  EvidenceInv'
<1>1. PICK i \in 1..Len(messages), s \in Reports, at \in 1..clock : Record(i, s, at)
  BY DEF Records
<1> DEFINE f == [state |-> s, at |-> at]
           new == [message |-> i, state |-> s, at |-> at, attached |-> Matched(i)]
<1>2. /\ messages' = messages
      /\ \A n \in 1..Len(events') : EventOK(n)'
      /\ Facts(i)' = Facts(i) \cup {f}
      /\ \A j : j # i => Facts(j)' = Facts(j)
  BY <1>1, RecordedFacts
<1>3. /\ Plausible(i, s, at)
      /\ IF Matched(i) THEN delivery' = [delivery EXCEPT ![i] = Applied(@, new)]
                       ELSE delivery' = delivery
  BY <1>1 DEF Record
<1>4. Fact(new) = f /\ f \in [state : Reports, at : Nat] /\ f.state = s /\ f.at = at
  <2>1. at \in Nat
    BY DEF TInv, TypeOK
  <2> QED BY <2>1 DEF Fact
<1> HIDE DEF f, new
<1>5. \A n \in EvidenceOf(i) :
        /\ Fact(events[n]).state = events[n].state /\ Fact(events[n]).at = events[n].at
        /\ events[n].state = s => events[n].at = at
        /\ (s # "FAILED" /\ events[n].state # "FAILED") =>
             /\ Rank(s) > Rank(events[n].state) => at >= events[n].at
             /\ Rank(s) < Rank(events[n].state) => at <= events[n].at
  BY <1>3 DEF Plausible, EvidenceOf, Fact
<1>6. Coherent(Facts(i)) /\ \A e \in Facts(i) : e \in [state : Reports, at : Nat]
  BY DEF EvidenceInv, Coherent
<1>7. ASSUME NEW e \in Facts(i)
      PROVE  /\ e.state = s => e.at = at
             /\ (s # "FAILED" /\ e.state # "FAILED") =>
                  /\ Rank(s) > Rank(e.state) => at >= e.at
                  /\ Rank(s) < Rank(e.state) => at <= e.at
  BY <1>5 DEF Facts
<1>8. Coherent(Facts(i) \cup {f})
  <2> DEFINE E == Facts(i)
  <2>1. \A e \in E : /\ e.state = f.state => e = f
                     /\ e.state # "FAILED" /\ f.state # "FAILED" =>
                          /\ Rank(e.state) > Rank(f.state) => e.at >= f.at
                          /\ Rank(f.state) > Rank(e.state) => f.at >= e.at
    <3>1. ASSUME NEW e \in E
          PROVE  /\ e.state = f.state => e = f
                 /\ e.state # "FAILED" /\ f.state # "FAILED" =>
                      /\ Rank(e.state) > Rank(f.state) => e.at >= f.at
                      /\ Rank(f.state) > Rank(e.state) => f.at >= e.at
      <4>1. e \in [state : Reports, at : Nat] /\ Rank(e.state) \in Nat /\ Rank(f.state) \in Nat
        BY <1>4, <1>6, RankIs
      <4>2. e.state = f.state => e = f
        BY <1>4, <1>7, <4>1
      <4>3. Rank(e.state) > Rank(f.state) <=> Rank(f.state) < Rank(e.state)
        BY <4>1
      <4>4. e.at >= f.at <=> f.at <= e.at
        BY <1>4, <4>1
      <4> QED BY <1>4, <1>7, <4>2, <4>3, <4>4
    <3> QED BY <3>1
  <2>2. ~(Rank(f.state) > Rank(f.state))
    BY <1>4, RankIs
  <2>3. E \subseteq [state : Reports, at : Nat] /\ f \in [state : Reports, at : Nat]
    BY <1>4, <1>6
  <2>4. \A e, g \in E :
          /\ e.state = g.state => e = g
          /\ e.state # "FAILED" /\ g.state # "FAILED" /\ Rank(e.state) > Rank(g.state) => e.at >= g.at
    BY <1>6 DEF Coherent
  <2> HIDE DEF E
  <2>5. Coherent(E \cup {f})
    BY <2>1, <2>2, <2>3, <2>4 DEF Coherent
  <2> QED BY <2>5 DEF E
<1>9. i \in 1..MaxMessages
  <2>1. Len(messages) <= MaxMessages /\ Len(messages) \in Nat
    BY TypesGive DEF TInv, TypeOK
  <2>2. MaxMessages \in Nat
    BY InboxAssumption, FS_CardinalityType DEF MaxMessages
  <2> QED BY <2>1, <2>2
<1>10. /\ delivery' = [j \in 1..MaxMessages |-> delivery'[j]]
       /\ \A j : j # i => delivery'[j] = delivery[j]
       /\ delivery'[i] = IF Matched(i) THEN Applied(delivery[i], new) ELSE delivery[i]
  <2> DEFINE d == Applied(delivery[i], new)
  <2>1. delivery = [j \in 1..MaxMessages |-> delivery[j]]
    BY DEF EvidenceInv
  <2>2. DOMAIN delivery = 1..MaxMessages
    BY <2>1
  <2>3. CASE Matched(i)
    <3>1. delivery' = [delivery EXCEPT ![i] = d]
      BY <1>3, <2>3
    <3> HIDE DEF d
    <3>2. delivery'[i] = d /\ \A j : j # i => delivery'[j] = delivery[j]
      BY <1>9, <2>2, <3>1
    <3>3. delivery' = [j \in 1..MaxMessages |-> delivery'[j]]
      BY <2>1, <2>2, <3>1
    <3> QED BY <2>3, <3>2, <3>3 DEF d
  <2>4. CASE ~Matched(i)
    BY <1>3, <2>1, <2>4
  <2> QED BY <2>3, <2>4
<1>11. ASSUME Matched(i)
       PROVE  Shows(delivery'[i], Facts(i) \cup {f})
  <2>1. Shows(delivery[i], Facts(i))
    BY <1>11 DEF Matched, EvidenceInv
  <2>2. Shows(Applied(delivery[i], new), Facts(i) \cup {Fact(new)})
    BY <1>4, <1>8, <2>1, AppliedShows
  <2> QED BY <1>4, <1>10, <1>11, <2>2
<1>12. ASSUME NEW j \in 1..Len(messages')
       PROVE  /\ Coherent(Facts(j)')
              /\ messages'[j].dispatch = "ACCEPTED" => Shows(delivery'[j], Facts(j)')
  <2>1. CASE j = i
    BY <1>2, <1>8, <1>11, <2>1 DEF Matched
  <2>2. CASE j # i
    BY <1>2, <1>10, <2>2 DEF EvidenceInv
  <2> QED BY <2>1, <2>2
<1> QED BY <1>2, <1>10, <1>12 DEF EvidenceInv

LEMMA NextEvidence ==
  ASSUME TInv, EvidenceInv, [Next]_vars
  PROVE  EvidenceInv'
<1>1. Elsewhere \/ Webhooks \/ Resumes \/ Commands \/ UNCHANGED vars
        => UNCHANGED <<messages, events, delivery>>
  <2>1. Elsewhere => UNCHANGED <<messages, events, delivery>>
    BY ElsewhereIs DEF messageVars
  <2>2. Webhooks => UNCHANGED <<messages, events, delivery>>
    BY WebhooksAre DEF messageVars
  <2>3. Resumes => UNCHANGED <<messages, events, delivery>>
    BY ResumesIs DEF messageVars
  <2>4. Commands => UNCHANGED <<messages, events, delivery>>
    BY DEF Commands, MarkRead, MarkHandled, Hide, CreateOpportunity, Unlink, Resolve,
           LinkOpportunity, OpenForOpportunity, Command
  <2>5. UNCHANGED vars => UNCHANGED <<messages, events, delivery>>
    BY DEF vars, messageVars
  <2> QED BY <2>1, <2>2, <2>3, <2>4, <2>5
<1> QED BY <1>1, NextCases, QuietEvidence, NewMessageEvidence, DispatchesEvidence, RecordsEvidence

\* Delivery evidence reaches its message and is not lost, and weaker or later
\* evidence takes back nothing (record, attach_pending_events_in_transaction,
\* _should_replace_effective_state).
THEOREM DeliveryFollowsEvidenceCorrect == Spec => []DeliveryFollowsEvidence
<1>1. Init => TInv /\ EvidenceInv
  <2>1. Init => EvidenceInv
    BY DEF Init, EvidenceInv
  <2> QED BY <2>1, InitTyped
<1>2. TInv /\ EvidenceInv /\ [Next]_vars => TInv' /\ EvidenceInv'
  BY NextTyped, NextEvidence
<1>3. TInv /\ EvidenceInv => DeliveryFollowsEvidence
  <2> SUFFICES ASSUME TInv, EvidenceInv, NEW i \in 1..Len(messages), messages[i].dispatch = "ACCEPTED"
               PROVE  /\ \A n \in EvidenceOf(i) : events[n].attached
                      /\ EvidenceOf(i) = {} <=> delivery[i].state = "NONE"
                      /\ delivery[i].state \notin {"NONE", "FAILED"} =>
                           \A n \in EvidenceOf(i) : Rank(events[n].state) <= Rank(delivery[i].state)
    BY DEF DeliveryFollowsEvidence
  <2>1. \A n \in EvidenceOf(i) : events[n].attached
    BY DEF EvidenceInv, EventOK, EvidenceOf
  <2>2. Shows(delivery[i], Facts(i))
    BY DEF EvidenceInv
  <2>3. EvidenceOf(i) = {} <=> Facts(i) = {}
    BY DEF Facts
  <2>4. \A n \in EvidenceOf(i) : Fact(events[n]) \in Facts(i) /\ Fact(events[n]).state = events[n].state
    BY DEF Facts, Fact
  <2> QED BY <2>1, <2>2, <2>3, <2>4 DEF Shows
<1> QED BY <1>1, <1>2, <1>3, PTL DEF Spec
=============================================================================
