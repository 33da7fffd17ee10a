-------------------------------- MODULE Sync --------------------------------
(***************************************************************************)
(* How a browser keeps its copy of the conversations, and of the messages  *)
(* of the selected one: it loads a list page by page, as of a snapshot     *)
(* time, and polls for what changed after a cursor.  There is no event     *)
(* log: the server derives from every row's timestamps a change key, and a *)
(* cursor is a pair of a key and an id.                                    *)
(*                                                                         *)
(* A transaction takes its timestamp before it commits.  A list, a further *)
(* page and a poll may be under way at once; commits, and each other's     *)
(* replies, fall between the reading of a reply and its use.               *)
(***************************************************************************)
EXTENDS Integers, FiniteSets, Sequences, SequencesExt

CONSTANTS
  Ids,           \* ids of rows, 1 .. n
  Transactions,
  ListPlaces,    \* what orders the list of a feed: its rows' places
  NoRow,         \* no row, and what the client holds of one it has not seen
  NoCursor,
  Limit,         \* rows on a page
  MaxTime,       \* bound: the clock
  Ahead,         \* bound: how far the provider's clock may be ahead
  Budgets        \* bounds: a behaviour has one of these budgets of commits per
                 \* feed, of lists requested and of single rows read

Feeds == {"conversations", "messages"}
Times == 0..(MaxTime + Ahead)  \* 0 for NULL
MaxId == Cardinality(Ids) + 1  \* _MAX_BIGINT

\* The timestamps of other rows that a feed's keys take in.
Parts(f) ==
  IF f = "conversations" THEN {"customer", "link", "opportunity"} ELSE {"attachment", "status"}

Rows(f) ==
  [place : ListPlaces[f], own : Nat, related : [Parts(f) -> Nat], hidden : BOOLEAN, content : Nat]
Copies(f) == [id : Ids, place : ListPlaces[f], key : Nat, content : Nat]
Cursors == [time : Nat, id : Nat]
PageCursors(f) == [snapshot : Nat, place : ListPlaces[f], id : Ids]

ASSUME SyncAssumption ==
  /\ IsFiniteSet(Ids) /\ Ids = 1..Cardinality(Ids)
  /\ {Limit, MaxTime} \subseteq Nat \ {0} /\ Ahead \in Nat
  /\ DOMAIN ListPlaces = Feeds
  /\ \A p \in ListPlaces["conversations"] : p \in BOOLEAN \X Nat \X (0..MaxTime)
  /\ \A p \in ListPlaces["messages"] : p \in 1..MaxTime
  /\ Budgets \subseteq [{"conversations", "messages", "lists", "ones"} -> Nat]
  /\ \A f \in Feeds : NoRow \notin Rows(f) \cup Copies(f) /\ NoCursor \notin Cursors \cup PageCursors(f)

VARIABLES
  rows,     \* per feed and id: the row with the timestamps its key is made of
  open,     \* per transaction: the timestamp it has taken, 0 when there is none
  clock,
  client,   \* per feed: the copy, the cursors and the requests under way
  budget,   \* what is left of the bounds
  horizon,  \* per feed: the greatest cursor the server has handed out
  late,     \* per feed: rows whose last change was committed with a key not
            \* after the horizon, nor after that of a copy handed out
  caught    \* per feed: the last poll found nothing more and nothing was
            \* committed since

serverVars == <<rows, open, clock>>
syncVars == <<serverVars, client, budget, horizon, late, caught>>

-----------------------------------------------------------------------------
(* The server: MessageQueryService, ConversationQueryService,              *)
(* PollingQueryService.                                                    *)

Greatest(S) == CHOOSE t \in S : \A u \in S : u <= t
Later(t, u) == IF u > t THEN u ELSE t

\* _conversation_change_key: a missing timestamp counts as the row's own.
ConversationKey(r) ==
  Greatest({r.own} \cup {r.related[p] : p \in {"customer", "link", "opportunity"}})
\* _message_change_key
MessageKey(r) == Greatest({r.own} \cup {r.related[p] : p \in {"attachment", "status"}})
Key(f, r) == IF f = "conversations" THEN ConversationKey(r) ELSE MessageKey(r)

Visible(f, i) == rows[f][i] # NoRow /\ ~rows[f][i].hidden
Projection(f, i) ==
  [id |-> i, place |-> rows[f][i].place, key |-> Key(f, rows[f][i]),
   content |-> rows[f][i].content]

\* _conversation_order: waiting first, then unread, then the latest message with
\* NULL last, then the id.
ConversationPrecedes(p, i, q, j) ==
  \/ p[1] /\ ~q[1]
  \/ p[1] = q[1] /\ p[2] > q[2]
  \/ p[1] = q[1] /\ p[2] = q[2] /\ (p[3] > q[3] \/ (p[3] = q[3] /\ i > j))

\* _conversation_after_cursor: place q of row j comes after the cursor.
AfterConversation(c, q, j) ==
  LET afterLast == IF c.place[3] = 0
                   THEN q[3] = 0 /\ j < c.id
                   ELSE \/ q[3] # 0 /\ q[3] < c.place[3]
                        \/ q[3] = 0
                        \/ q[3] = c.place[3] /\ j < c.id
  IN \/ c.place[1] /\ ~q[1]
     \/ q[1] = c.place[1] /\ q[2] < c.place[2]
     \/ q[1] = c.place[1] /\ q[2] = c.place[2] /\ afterLast

\* list_message_history: the newest message_at first
MessagePrecedes(p, i, q, j) == p > q \/ (p = q /\ i > j)
AfterMessage(c, q, j) == q < c.place \/ (q = c.place /\ j < c.id)

Precedes(f, x, y) ==
  IF f = "conversations" THEN ConversationPrecedes(x.place, x.id, y.place, y.id)
                         ELSE MessagePrecedes(x.place, x.id, y.place, y.id)
AfterPage(f, c, x) ==
  IF f = "conversations" THEN AfterConversation(c, x.place, x.id) ELSE AfterMessage(c, x.place, x.id)

InListOrder(f, S) ==
  CHOOSE s \in SetToSeqs(S) : \A j, k \in DOMAIN s : j < k => Precedes(f, s[j], s[k])
InChangeOrder(S) ==
  CHOOSE s \in SetToSeqs(S) : \A j, k \in DOMAIN s : j < k =>
    s[j].key < s[k].key \/ (s[j].key = s[k].key /\ s[j].id < s[k].id)

Shortened(s) == SubSeq(s, 1, IF Len(s) > Limit THEN Limit ELSE Len(s))

\* list_conversations, list_message_history
ListPage(f, cursor) ==
  LET snapshot == IF cursor = NoCursor THEN clock ELSE cursor.snapshot
      found == {x \in {Projection(f, i) : i \in {j \in Ids : Visible(f, j)}} :
                  /\ x.key <= snapshot
                  /\ cursor = NoCursor \/ AfterPage(f, cursor, x)}
      sorted == InListOrder(f, found)
      items == Shortened(sorted)
  IN [items |-> items,
      next |-> IF Len(sorted) > Limit
               THEN [snapshot |-> snapshot, place |-> items[Limit].place, id |-> items[Limit].id]
               ELSE NoCursor,
      sync |-> [time |-> snapshot, id |-> MaxId],
      more |-> Len(sorted) > Limit]

AfterTime(cursor, key, i) == key > cursor.time  \* Mutant: the id does not break ties
\* _after_change_cursor
AfterChange(cursor, key, i) == key > cursor.time \/ (key = cursor.time /\ i > cursor.id)

\* list_conversation_changes, list_message_changes
ChangePage(f, cursor) ==
  LET found == {x \in {Projection(f, i) : i \in {j \in Ids : Visible(f, j)}} :
                  AfterChange(cursor, x.key, x.id)}
      sorted == InChangeOrder(found)
      items == Shortened(sorted)
  IN [items |-> items,
      next |-> NoCursor,
      sync |-> IF items = <<>> THEN cursor
               ELSE [time |-> items[Len(items)].key, id |-> items[Len(items)].id],
      more |-> Len(sorted) > Limit]

-----------------------------------------------------------------------------
NoReply == [items |-> <<>>, next |-> NoCursor, sync |-> NoCursor, more |-> FALSE]
Quiet == [step |-> "idle", cursor |-> NoCursor, reply |-> NoReply]
NewRow(f, place, at) ==
  [place |-> place, own |-> at, related |-> [p \in Parts(f) |-> 0], hidden |-> FALSE, content |-> 1]

FirstRows(f) == [Ids -> {NoRow} \cup {NewRow(f, p, 1) : p \in ListPlaces[f]}]

SyncInit ==
  /\ \E cs \in FirstRows("conversations"), ms \in FirstRows("messages") :
       rows = [f \in Feeds |-> IF f = "conversations" THEN cs ELSE ms]
  /\ open = [t \in Transactions |-> 0]
  /\ clock = 1
  /\ client = [f \in Feeds |-> [view |-> [i \in Ids |-> NoRow], page |-> NoCursor,
                                sync |-> NoCursor, ready |-> FALSE, list |-> Quiet,
                                more |-> Quiet, poll |-> Quiet, one |-> NoRow,
                                crossed |-> {}, stale |-> {}]]
  /\ budget \in Budgets
  /\ horizon = [f \in Feeds |-> [time |-> 0, id |-> 0]]
  /\ late = [f \in Feeds |-> {}]
  /\ caught = [f \in Feeds |-> FALSE]

Spend(bound) == budget[bound] > 0 /\ budget' = [budget EXCEPT ![bound] = @ - 1]

Tick == /\ clock < MaxTime /\ clock' = clock + 1
        /\ UNCHANGED <<rows, open, client, budget, horizon, late, caught>>

\* A transaction takes its timestamp: received_at, datetime.now, now().
Begin(t) ==
  /\ open[t] = 0 /\ open' = [open EXCEPT ![t] = clock]
  /\ UNCHANGED <<rows, clock, client, budget, horizon, late, caught>>

\* A change with this key is not after what the browser may have read already.
Behind(f, i, key) ==
  \/ ~AfterChange(horizon[f], key, i)
  \/ \E copy \in {client[f].view[i], client[f].one} :
       copy # NoRow /\ copy.id = i /\ copy.key >= key

\* Rows S of a feed have their new values, committed by transaction t.
Committed(t, f, S, new) ==
  /\ open[t] > 0 /\ open' = [open EXCEPT ![t] = 0] /\ Spend(f)
  /\ rows' = [rows EXCEPT ![f] = [i \in Ids |-> IF i \in S THEN new[i] ELSE @[i]]]
  /\ late' = [late EXCEPT ![f] =
       (@ \ S) \cup {i \in S : Behind(f, i, Key(f, new[i]))}]
  /\ caught' = [caught EXCEPT ![f] = FALSE]
  /\ UNCHANGED <<clock, client, horizon>>

Changed(r) == [r EXCEPT !.content = @ + 1]

\* A message or a conversation is new, or its own row changes: updated_at is
\* the later of what it was and the transaction's time (later_datetime).
WriteRow(t, f, i, place) ==
  LET r == rows[f][i] IN
  Committed(t, f, {i}, [j \in {i} |->
    IF r = NoRow THEN NewRow(f, place, open[t])
    ELSE [Changed(r) EXCEPT !.own = Later(@, open[t]), !.place = place, !.hidden = FALSE]])

\* hide_conversation
Hide(t, i) ==
  /\ Visible("conversations", i)
  /\ Committed(t, "conversations", {i}, [j \in {i} |->
       [Changed(rows["conversations"][i]) EXCEPT !.own = Later(@, open[t]), !.hidden = TRUE]])

\* A customer or an opportunity changes, and with it the conversations of the
\* customer; a link; a message's attachment.
WriteRelated(t, f, S, part) ==
  /\ \A i \in S : rows[f][i] # NoRow
  /\ part # "status"
  /\ part \in {"link", "attachment"} => Cardinality(S) = 1
  /\ Committed(t, f, S, [i \in S |->
       [Changed(rows[f][i]) EXCEPT !.related[part] =
          IF part = "link" THEN Later(@, open[t]) ELSE open[t]]])

\* A delivery event: the later of its two times is in the message's key, and one
\* of them is the provider's.
WriteStatus(t, i, occurred) ==
  /\ rows["messages"][i] # NoRow
  /\ occurred <= clock + Ahead
  /\ Committed(t, "messages", {i}, [j \in {i} |->
       [Changed(rows["messages"][i]) EXCEPT
          !.own = Later(@, open[t]),
          !.related["status"] = Greatest({@, open[t], occurred})]])

-----------------------------------------------------------------------------
(* The browser: useWhatsAppInbox.                                          *)

Set(f, c) == client' = [client EXCEPT ![f] = c]

\* upsertConversations, upsertMessages: what is at least as fresh replaces.
Upsert(view, items) ==
  FoldLeft(LAMBDA v, x :
             IF v[x.id] = NoRow \/ x.key >= v[x.id].key THEN [v EXCEPT ![x.id] = x] ELSE v,
           view, items)

NoView == [i \in Ids |-> NoRow]

\* The filters change, another conversation is selected or a cursor was refused:
\* a new list is requested, an earlier one aborted and the cursor forgotten.
RequestList(f) ==
  /\ Spend("lists")
  /\ Set(f, [client[f] EXCEPT !.list = [Quiet EXCEPT !.step = "sent"], !.sync = NoCursor,
                              !.ready = FALSE,
                              !.view = IF f = "messages" THEN NoView ELSE @])
  /\ UNCHANGED <<serverVars, horizon, late, caught>>

Answer(f, kind, cursor) == IF kind = "poll" THEN ChangePage(f, cursor) ELSE ListPage(f, cursor)

\* The server reads the page that client c asks for.
ReadBy(c, f, kind, cursor) ==
  LET reply == Answer(f, kind, cursor) IN
  /\ Set(f, [c EXCEPT ![kind] = [step |-> "read", cursor |-> cursor, reply |-> reply]])
  /\ horizon' = [horizon EXCEPT ![f] =
       IF AfterChange(@, reply.sync.time, reply.sync.id) THEN reply.sync ELSE @]
  /\ caught' = [caught EXCEPT ![f] = IF kind = "poll" THEN ~reply.more ELSE @]
  /\ UNCHANGED <<serverVars, late>>

\* A list, and the next page of a poll that goes on.
Read(f, kind) ==
  /\ client[f][kind].step = "sent"
  /\ ReadBy(client[f], f, kind, client[f][kind].cursor) /\ UNCHANGED budget

\* Further rows of the list.  When the server reads them does not depend on the
\* browser, so the request is the reading.
RequestMore(f) ==
  /\ client[f].page # NoCursor /\ client[f].more.step = "idle"
  /\ ReadBy(client[f], f, "more", client[f].page) /\ UNCHANGED budget

\* Every interval, and when the window is shown or online again; polls do not overlap.
RequestPoll(f) ==
  /\ client[f].sync # NoCursor /\ client[f].poll.step = "idle"
  /\ ReadBy(client[f], f, "poll", client[f].sync) /\ UNCHANGED budget

\* Requests under way when a list is shown that would continue an earlier list,
\* or poll from a cursor after the one the list comes with.  Nothing tells the
\* browser so.
Outstanding(c, sync) ==
  {kind \in {"more", "poll"} :
     /\ c[kind].step # "idle"
     /\ kind = "poll" => AfterChange(sync, c.poll.cursor.time, c.poll.cursor.id)}

ApplyList(f) ==
  LET reply == client[f].list.reply IN
  /\ client[f].list.step = "read"
  /\ Set(f, [client[f] EXCEPT !.view = Upsert(NoView, reply.items), !.page = reply.next,
                              !.sync = reply.sync, !.ready = TRUE, !.list = Quiet,
                              !.crossed = {},
                              !.stale = Outstanding(client[f], reply.sync)])
  /\ caught' = [caught EXCEPT ![f] = FALSE]
  /\ UNCHANGED <<serverVars, budget, horizon, late>>

\* A reply that should have been dropped is used.
Crossed(c, kind) == [c EXCEPT !.crossed = @ \cup (c.stale \cap {kind}), !.stale = @ \ {kind}]

\* loadMoreConversations, loadOlderMessages
ApplyMore(f) ==
  LET reply == client[f].more.reply IN
  /\ client[f].more.step = "read"
  /\ Set(f, [Crossed(client[f], "more") EXCEPT
               !.view = Upsert(@, reply.items), !.page = reply.next, !.more = Quiet])
  /\ UNCHANGED <<serverVars, budget, horizon, late, caught>>

\* pollConversationChanges, pollMessageChanges: while there is more it goes on at once.
ApplyPoll(f) ==
  LET reply == client[f].poll.reply IN
  /\ client[f].poll.step = "read"
  /\ Set(f, [Crossed(client[f], "poll") EXCEPT
               !.view = Upsert(@, reply.items), !.sync = reply.sync,
               !.poll = IF reply.more THEN [Quiet EXCEPT !.step = "sent", !.cursor = reply.sync]
                                      ELSE Quiet])
  /\ UNCHANGED <<serverVars, budget, horizon, late, caught>>

\* A single row is read: a conversation that is selected, the answer to a command.
ReadOne(f, i) ==
  /\ client[f].one = NoRow /\ Visible(f, i) /\ Spend("ones")
  /\ Set(f, [client[f] EXCEPT !.one = Projection(f, i)])
  /\ UNCHANGED <<serverVars, horizon, late, caught>>

ApplyOne(f) ==
  /\ client[f].one # NoRow
  /\ Set(f, [client[f] EXCEPT !.view = Upsert(@, <<client[f].one>>), !.one = NoRow])
  /\ UNCHANGED <<serverVars, budget, horizon, late, caught>>

\* The request or its reply is lost.
Lose(f, kind) ==
  /\ client[f][kind].step # "idle"
  /\ Set(f, [client[f] EXCEPT ![kind] = Quiet, !.stale = @ \ {kind}])
  /\ caught' = [caught EXCEPT ![f] = FALSE]
  /\ UNCHANGED <<serverVars, budget, horizon, late>>

ClientStep(f) ==
  \/ RequestList(f) \/ RequestMore(f) \/ RequestPoll(f)
  \/ ApplyList(f) \/ ApplyMore(f) \/ ApplyPoll(f) \/ ApplyOne(f)
  \/ \E i \in Ids : ReadOne(f, i)
  \/ \E kind \in {"list", "poll"} : Read(f, kind)
  \/ \E kind \in {"list", "more", "poll"} : Lose(f, kind)

CommitStep(t) ==
  \/ \E f \in Feeds, i \in Ids : \E place \in ListPlaces[f] : WriteRow(t, f, i, place)
  \/ \E i \in Ids : Hide(t, i)
  \/ \E f \in Feeds, S \in (SUBSET Ids) \ {{}} : \E part \in Parts(f) : WriteRelated(t, f, S, part)
  \/ \E i \in Ids, occurred \in Times \ {0} : WriteStatus(t, i, occurred)

SyncNext ==
  \/ Tick
  \/ \E t \in Transactions : Begin(t) \/ CommitStep(t)
  \/ \E f \in Feeds : ClientStep(f)

SyncSpec == SyncInit /\ [][SyncNext]_syncVars

-----------------------------------------------------------------------------
\* The list requested last is shown, to its end, and nothing is under way.
Rested(c) ==
  /\ c.ready /\ c.page = NoCursor /\ c.sync # NoCursor
  /\ c.list = Quiet /\ c.more = Quiet /\ c.poll = Quiet

ShowsAll(f) ==
  \A i \in Ids : Visible(f, i) => i \in late[f] \/ client[f].view[i] = Projection(f, i)

\* A browser that has loaded every page of its list and then polled until there
\* was nothing more shows every visible row as it is, in whatever order lists,
\* pages, polls and commits came, with two exceptions.  A row whose last change
\* was committed with a key not after what had been read by then; and lists that
\* a reply to an older request was mixed into (list_conversations,
\* list_conversation_changes, _after_change_cursor, upsertConversations).
BrowserCatchesUp ==
  \A f \in Feeds : caught[f] /\ Rested(client[f]) /\ client[f].crossed = {} => ShowsAll(f)

\* A new list starts with a fresh cursor: the second exception concerns further
\* pages only, a poll that was under way does not keep changes from the browser
\* (RequestList, pollConversationChanges).
NewListStartsFresh ==
  \A f \in Feeds : caught[f] /\ Rested(client[f]) /\ "more" \notin client[f].crossed => ShowsAll(f)
=============================================================================
