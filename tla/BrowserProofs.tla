---------------------------- MODULE BrowserProofs ----------------------------
(***************************************************************************)
(* Theorems about what a browser shows: of Sync, that a list loaded to its *)
(* end and polled shows every row as it is; of BroadcastDraft, that what   *)
(* is confirmed is what was shown.  For every set of rows, transactions,   *)
(* customers, phones, contents and clients, and every bound.               *)
(***************************************************************************)
EXTENDS Sync, BroadcastDraft, Inductions, SequenceTheorems

-----------------------------------------------------------------------------
(* Sync: the invariant.                                                    *)

Kinds == {"list", "more", "poll"}
Replies(f) ==
  [items : Seq(Copies(f)), next : PageCursors(f) \cup {NoCursor},
   sync : Cursors \cup {NoCursor}, more : BOOLEAN]
Asked(f, cursors) ==
  [step : {"idle", "sent", "read"}, cursor : cursors \cup {NoCursor}, reply : Replies(f)]
Browsers(f) ==
  [view : [Ids -> Copies(f) \cup {NoRow}], page : PageCursors(f) \cup {NoCursor},
   sync : Cursors \cup {NoCursor}, ready : BOOLEAN,
   list : Asked(f, PageCursors(f)), more : Asked(f, PageCursors(f)), poll : Asked(f, Cursors),
   one : Copies(f) \cup {NoRow},
   crossed : SUBSET {"more", "poll"}, stale : SUBSET {"more", "poll"}]

SyncTypeOK ==
  /\ DOMAIN rows = Feeds /\ DOMAIN client = Feeds
  /\ DOMAIN late = Feeds /\ DOMAIN caught = Feeds
  /\ horizon \in [Feeds -> Cursors]
  /\ open \in [Transactions -> Nat] /\ clock \in Nat
  /\ \A f \in Feeds : rows[f] \in [Ids -> Rows(f) \cup {NoRow}] /\ client[f] \in Browsers(f)

\* Cursor a is not after cursor b; row i will be asked for after a cursor, is among
\* the items of a reply, or is on the pages after a page cursor.
NotAfter(a, b) == ~AfterChange(b, a.time, a.id)
Due(f, cursor, i) == AfterChange(cursor, Key(f, rows[f][i]), i)
In(f, items, i) == \E n \in 1..Len(items) : items[n] = Projection(f, i)
Remains(f, next, i) ==
  next # NoCursor /\ Key(f, rows[f][i]) <= next.snapshot /\ AfterPage(f, next, Projection(f, i))

\* The visible rows that the property speaks of.
Owed(f) == {i \in Ids : Visible(f, i) /\ i \notin late[f]}

\* A copy is older than its row, or just as the row is.
CopyOK(f, x) ==
  /\ rows[f][x.id] # NoRow
  /\ x.id \in late[f] \/ x = Projection(f, x.id) \/ x.key < Key(f, rows[f][x.id])
CopiesOK(f) ==
  /\ \A i \in Ids : client[f].view[i] # NoRow =>
       client[f].view[i].id = i /\ CopyOK(f, client[f].view[i])
  /\ client[f].one # NoRow => CopyOK(f, client[f].one)
  /\ \A kind \in Kinds : \A n \in 1..Len(client[f][kind].reply.items) :
       CopyOK(f, client[f][kind].reply.items[n])

\* No cursor and no reply is ahead of the horizon.
SnapshotOf(next) == [time |-> next.snapshot, id |-> MaxId]
ReplyBehind(f, r) ==
  /\ r.sync # NoCursor => NotAfter(r.sync, horizon[f])
  /\ r.next # NoCursor => NotAfter(SnapshotOf(r.next), horizon[f])
  /\ \A n \in 1..Len(r.items) :
       NotAfter([time |-> r.items[n].key, id |-> r.items[n].id], horizon[f])
HorizonOK(f) ==
  /\ client[f].sync # NoCursor => NotAfter(client[f].sync, horizon[f])
  /\ client[f].page # NoCursor => NotAfter(SnapshotOf(client[f].page), horizon[f])
  /\ \A kind \in Kinds : ReplyBehind(f, client[f][kind].reply)

\* A request under way has what its step needs.
StepsOK(f) ==
  /\ \A kind \in Kinds : client[f][kind].step = "read" => client[f][kind].reply.sync # NoCursor
  /\ client[f].poll.step # "idle" => client[f].poll.cursor # NoCursor
  /\ client[f].list.cursor = NoCursor
  /\ client[f].ready => client[f].sync # NoCursor

\* A row owed is shown, will be asked for, or is on a page still to be loaded; and
\* the replies under way, unless they are to be dropped, keep it so.
ListOK(f) ==
  LET r == client[f].list.reply IN
  client[f].list.step = "read" =>
    \A i \in Owed(f) : In(f, r.items, i) \/ Due(f, r.sync, i) \/ Remains(f, r.next, i)
ViewOK(f) ==
  client[f].ready /\ client[f].crossed = {} =>
    \A i \in Owed(f) : \/ client[f].view[i] = Projection(f, i)
                       \/ Due(f, client[f].sync, i) \/ Remains(f, client[f].page, i)
MoreOK(f) ==
  LET r == client[f].more.reply IN
  /\ client[f].ready /\ client[f].crossed = {}
  /\ client[f].more.step = "read" /\ "more" \notin client[f].stale
  => \A i \in Owed(f) : \/ client[f].view[i] = Projection(f, i)
                        \/ Due(f, client[f].sync, i)
                        \/ In(f, r.items, i) \/ Remains(f, r.next, i)
PollOK(f) ==
  LET c == client[f].poll IN
  /\ c.step = "read" =>
       \A i \in Owed(f) : Due(f, c.cursor, i) => In(f, c.reply.items, i) \/ Due(f, c.reply.sync, i)
  /\ (/\ client[f].ready /\ client[f].crossed = {}
      /\ c.step # "idle" /\ "poll" \notin client[f].stale)
     => NotAfter(c.cursor, client[f].sync)

\* After a poll that found nothing more, nothing is left to ask for.
NothingDue(f, cursor) == \A i \in Ids : Visible(f, i) => ~Due(f, cursor, i)
CaughtOK(f) ==
  caught[f] =>
    \/ /\ client[f].poll.step = "read" /\ ~client[f].poll.reply.more
       /\ NothingDue(f, client[f].poll.reply.sync)
    \/ /\ client[f].poll.step = "idle"
       /\ client[f].sync # NoCursor => NothingDue(f, client[f].sync)

FeedOK(f) ==
  /\ CopiesOK(f) /\ HorizonOK(f) /\ StepsOK(f)
  /\ ListOK(f) /\ ViewOK(f) /\ MoreOK(f) /\ PollOK(f) /\ CaughtOK(f)
SyncInv == SyncTypeOK /\ \A f \in Feeds : FeedOK(f)

-----------------------------------------------------------------------------
(* Keys, cursors and their order.                                          *)

LEMMA NumbersAre ==
  /\ Ids \subseteq Nat \ {0} /\ IsFiniteSet(Ids) /\ Limit \in Nat \ {0} /\ MaxTime \in Nat
  /\ MaxId \in Nat /\ \A i \in Ids : i < MaxId
<1>1. Cardinality(Ids) \in Nat
  BY SyncAssumption, FS_CardinalityType
<1> QED BY <1>1, SyncAssumption DEF MaxId

LEMMA GreatestIn ==
  ASSUME NEW S \in SUBSET Nat, IsFiniteSet(S), S # {}
  PROVE  Greatest(S) \in S
<1>1. \E x \in S : \A y \in S : y <= x
  BY GreatestExists
<1> QED BY <1>1 DEF Greatest

LEMMA KeyIsNat ==
  ASSUME NEW f \in Feeds, NEW r \in Rows(f)
  PROVE  Key(f, r) \in Nat
<1>1. CASE f = "conversations"
  <2> DEFINE P == {"customer", "link", "opportunity"}
             T == {r.related[p] : p \in P}
             S == {r.own} \cup T
  <2>1. r.own \in Nat /\ T \in SUBSET Nat
    BY <1>1 DEF Rows, Parts
  <2>2. IsFiniteSet(P)
    <3>1. IsFiniteSet({}) /\ P = (({} \cup {"customer"}) \cup {"link"}) \cup {"opportunity"}
      BY FS_EmptySet
    <3> HIDE DEF P
    <3> QED BY <3>1, FS_AddElement
  <2>3. IsFiniteSet(T)
    <3> DEFINE g == [p \in P |-> r.related[p]]
    <3>1. DOMAIN g = P /\ T = {g[p] : p \in P}
      OBVIOUS
    <3> HIDE DEF P, g, T
    <3> QED BY <2>2, <3>1, ImageIsFinite
  <2> HIDE DEF T
  <2>4. IsFiniteSet(S)
    <3>1. S = T \cup {r.own}
      OBVIOUS
    <3> QED BY <2>3, <3>1, FS_AddElement
  <2>5. S \in SUBSET Nat /\ S # {}
    BY <2>1
  <2> HIDE DEF S
  <2>6. Greatest(S) \in Nat
    BY <2>4, <2>5, GreatestIn
  <2> QED BY <1>1, <2>6 DEF Key, ConversationKey, S, T, P
<1>2. CASE f = "messages"
  <2> DEFINE P == {"attachment", "status"}
             T == {r.related[p] : p \in P}
             S == {r.own} \cup T
  <2>1. r.own \in Nat /\ T \in SUBSET Nat
    BY <1>2 DEF Rows, Parts
  <2>2. IsFiniteSet(P)
    <3>1. IsFiniteSet({}) /\ P = ({} \cup {"attachment"}) \cup {"status"}
      BY FS_EmptySet
    <3> HIDE DEF P
    <3> QED BY <3>1, FS_AddElement
  <2>3. IsFiniteSet(T)
    <3> DEFINE g == [p \in P |-> r.related[p]]
    <3>1. DOMAIN g = P /\ T = {g[p] : p \in P}
      OBVIOUS
    <3> HIDE DEF P, g, T
    <3> QED BY <2>2, <3>1, ImageIsFinite
  <2> HIDE DEF T
  <2>4. IsFiniteSet(S)
    <3>1. S = T \cup {r.own}
      OBVIOUS
    <3> QED BY <2>3, <3>1, FS_AddElement
  <2>5. S \in SUBSET Nat /\ S # {}
    BY <2>1
  <2> HIDE DEF S
  <2>6. Greatest(S) \in Nat
    BY <2>4, <2>5, GreatestIn
  <2> QED BY <1>2, <2>6 DEF Key, MessageKey, S, T, P
<1> QED BY <1>1, <1>2 DEF Feeds

LEMMA ProjectionIs ==
  ASSUME SyncTypeOK, NEW f \in Feeds, NEW i \in Ids, rows[f][i] # NoRow
  PROVE  /\ rows[f][i] \in Rows(f) /\ Key(f, rows[f][i]) \in Nat
         /\ Projection(f, i) \in Copies(f)
         /\ Projection(f, i).id = i /\ Projection(f, i).key = Key(f, rows[f][i])
         /\ Projection(f, i).place = rows[f][i].place
<1>1. rows[f][i] \in Rows(f)
  BY DEF SyncTypeOK
<1>2. Key(f, rows[f][i]) \in Nat
  BY <1>1, KeyIsNat
<1> QED BY <1>1, <1>2 DEF Projection, Copies, Rows

\* Cursors are ordered linearly.
LEMMA CursorsOrder ==
  ASSUME NEW a \in Cursors, NEW b \in Cursors, NEW c \in Cursors
  PROVE  /\ NotAfter(a, a) /\ (NotAfter(a, b) \/ NotAfter(b, a))
         /\ NotAfter(a, b) /\ NotAfter(b, c) => NotAfter(a, c)
BY DEF Cursors, NotAfter, AfterChange

LEMMA AfterEarlier ==
  ASSUME NEW a \in Cursors, NEW b \in Cursors, NEW key \in Nat, NEW i \in Nat,
         NotAfter(a, b), AfterChange(b, key, i)
  PROVE  AfterChange(a, key, i)
BY DEF Cursors, NotAfter, AfterChange

-----------------------------------------------------------------------------
(* The pages the server answers with.                                      *)

\* A finite set has a sequence in an order, and that one sorts it.
LEMMA Arranged ==
  ASSUME NEW S, IsFiniteSet(S), NEW less, Orders(less, S)
  PROVE  /\ \E q \in SetToSeqs(S) : \A j, k \in DOMAIN q : j < k => <<q[j], q[k]>> \in less
         /\ \A q \in SetToSeqs(S) :
              (\A j, k \in DOMAIN q : j < k => <<q[j], q[k]>> \in less) => Sorts(q, S, less)
<1> DEFINE n == Cardinality(S)
<1>1. n \in Nat
  BY FS_CardinalityType
<1>2. PICK q : Sorts(q, S, less)
  BY SortedExists
<1>3. /\ q \in [1..n -> S]
      /\ \A j, k \in 1..n : j < k => <<q[j], q[k]>> \in less
  BY <1>2 DEF Sorts
<1>4. \A x \in S : <<x, x>> \notin less
  BY DEF Orders
<1>5. ASSUME NEW j \in 1..n, NEW k \in 1..n, j # k
      PROVE  q[j] # q[k]
  <2>1. j < k \/ k < j
    BY <1>1, <1>5
  <2> QED BY <1>3, <1>4, <2>1
<1>6. q \in SetToSeqs(S) /\ \A j, k \in DOMAIN q : j < k => <<q[j], q[k]>> \in less
  BY <1>3, <1>5 DEF SetToSeqs
<1>7. ASSUME NEW p \in SetToSeqs(S), \A j, k \in DOMAIN p : j < k => <<p[j], p[k]>> \in less
      PROVE  Sorts(p, S, less)
  <2>1. p \in [1..Cardinality(S) -> S]
    BY DEF SetToSeqs
  <2>2. \A j, k \in 1..Cardinality(S) : j < k => <<p[j], p[k]>> \in less
    BY <1>7, <2>1
  <2> QED BY <2>1, <2>2, SortedIs
<1> QED BY <1>6, <1>7

Projections(f) == {Projection(f, i) : i \in {j \in Ids : Visible(f, j)}}
PlaceOrder(f, S) == {xy \in S \X S : Precedes(f, xy[1], xy[2])}
KeyOrder(S) ==
  {xy \in S \X S : xy[1].key < xy[2].key \/ (xy[1].key = xy[2].key /\ xy[1].id < xy[2].id)}

LEMMA ProjectionsAre ==
  ASSUME SyncTypeOK, NEW f \in Feeds
  PROVE  /\ IsFiniteSet(Projections(f)) /\ Projections(f) \subseteq Copies(f)
         /\ \A x \in Projections(f) : /\ x.id \in Ids /\ Visible(f, x.id)
                                      /\ x = Projection(f, x.id) /\ x.key = Key(f, rows[f][x.id])
         /\ \A i \in Ids : Visible(f, i) => Projection(f, i) \in Projections(f)
<1> DEFINE I == {j \in Ids : Visible(f, j)}
<1>1. I \in SUBSET Ids
  OBVIOUS
<1>2. IsFiniteSet(I)
  BY <1>1, NumbersAre, FS_Subset
<1>3. \A i \in I : rows[f][i] # NoRow
  BY DEF Visible
<1>4. \A i \in I : /\ Projection(f, i) \in Copies(f) /\ Projection(f, i).id = i
                   /\ Projection(f, i).key = Key(f, rows[f][i])
  BY <1>1, <1>3, ProjectionIs
<1>5. Projections(f) = {Projection(f, i) : i \in I}
  BY DEF Projections
<1>6. IsFiniteSet(Projections(f))
  <2> DEFINE g == [i \in I |-> Projection(f, i)]
  <2>1. DOMAIN g = I /\ Projections(f) = {g[i] : i \in I}
    BY <1>5
  <2> HIDE DEF I, g
  <2> QED BY <1>2, <2>1, ImageIsFinite
<1> QED BY <1>4, <1>5, <1>6

LEMMA PlacesOrder ==
  ASSUME SyncTypeOK, NEW f \in Feeds, NEW S \in SUBSET Projections(f)
  PROVE  Orders(PlaceOrder(f, S), S)
<1>1. \A x \in S : x.id \in Nat /\ x.place \in ListPlaces[f]
  BY ProjectionsAre, NumbersAre DEF Copies
<1>2. \A x, y \in S : x.id = y.id => x = y
  BY ProjectionsAre
<1>3. \A x, y \in S : <<x, y>> \in PlaceOrder(f, S) <=> Precedes(f, x, y)
  BY DEF PlaceOrder
<1>4. CASE f = "conversations"
  <2>1. \A x \in S : x.place[1] \in BOOLEAN /\ x.place[2] \in Nat /\ x.place[3] \in Nat
    BY <1>1, <1>4, SyncAssumption
  <2>2. \A x, y \in S : Precedes(f, x, y) <=> ConversationPrecedes(x.place, x.id, y.place, y.id)
    BY <1>4 DEF Precedes
  <2>3. \A x, y \in S : x # y => Precedes(f, x, y) \/ Precedes(f, y, x)
    BY <1>1, <1>2, <2>1, <2>2 DEF ConversationPrecedes
  <2>4. \A x \in S : ~Precedes(f, x, x)
    BY <1>1, <2>1, <2>2 DEF ConversationPrecedes
  <2>5. \A x, y, z \in S : Precedes(f, x, y) /\ Precedes(f, y, z) => Precedes(f, x, z)
    BY <1>1, <2>1, <2>2 DEF ConversationPrecedes
  <2> QED BY <1>3, <2>3, <2>4, <2>5 DEF Orders
<1>5. CASE f = "messages"
  <2>1. \A x \in S : x.place \in Nat
    BY <1>1, <1>5, SyncAssumption, NumbersAre
  <2>2. \A x, y \in S : Precedes(f, x, y) <=> MessagePrecedes(x.place, x.id, y.place, y.id)
    BY <1>5 DEF Precedes
  <2>3. \A x, y \in S : x # y => Precedes(f, x, y) \/ Precedes(f, y, x)
    BY <1>1, <1>2, <2>1, <2>2 DEF MessagePrecedes
  <2>4. \A x \in S : ~Precedes(f, x, x)
    BY <1>1, <2>1, <2>2 DEF MessagePrecedes
  <2>5. \A x, y, z \in S : Precedes(f, x, y) /\ Precedes(f, y, z) => Precedes(f, x, z)
    BY <1>1, <2>1, <2>2 DEF MessagePrecedes
  <2> QED BY <1>3, <2>3, <2>4, <2>5 DEF Orders
<1> QED BY <1>4, <1>5 DEF Feeds

LEMMA KeysOrder ==
  ASSUME SyncTypeOK, NEW f \in Feeds, NEW S \in SUBSET Projections(f)
  PROVE  Orders(KeyOrder(S), S)
<1>1. \A x \in S : x.id \in Nat /\ x.key \in Nat
  BY ProjectionsAre, NumbersAre DEF Copies
<1>2. \A x, y \in S : x.id = y.id => x = y
  BY ProjectionsAre
<1>3. \A x, y \in S : <<x, y>> \in KeyOrder(S)
                        <=> x.key < y.key \/ (x.key = y.key /\ x.id < y.id)
  BY DEF KeyOrder
<1>4. \A x, y \in S : x # y => <<x, y>> \in KeyOrder(S) \/ <<y, x>> \in KeyOrder(S)
  BY <1>1, <1>2, <1>3
<1>5. \A x \in S : <<x, x>> \notin KeyOrder(S)
  BY <1>1, <1>3
<1>6. \A x, y, z \in S : <<x, y>> \in KeyOrder(S) /\ <<y, z>> \in KeyOrder(S)
                           => <<x, z>> \in KeyOrder(S)
  BY <1>1, <1>3
<1> QED BY <1>4, <1>5, <1>6 DEF Orders

\* The cursor of a page excludes just what the page's order puts before it.
LEMMA AfterPageIs ==
  ASSUME NEW f \in Feeds, NEW x \in Copies(f), NEW y \in Copies(f), NEW snapshot
  PROVE  AfterPage(f, [snapshot |-> snapshot, place |-> x.place, id |-> x.id], y) <=> Precedes(f, x, y)
<1>1. x.id \in Nat /\ y.id \in Nat /\ x.place \in ListPlaces[f] /\ y.place \in ListPlaces[f]
  BY NumbersAre DEF Copies
<1>2. CASE f = "conversations"
  <2>1. \A p \in {x.place, y.place} : p[1] \in BOOLEAN /\ p[2] \in Nat /\ p[3] \in Nat
    BY <1>1, <1>2, SyncAssumption
  <2> QED BY <1>1, <1>2, <2>1 DEF AfterPage, AfterConversation, Precedes, ConversationPrecedes
<1>3. CASE f = "messages"
  <2>1. x.place \in Nat /\ y.place \in Nat
    BY <1>1, <1>3, SyncAssumption, NumbersAre
  <2> QED BY <1>1, <1>3, <2>1 DEF AfterPage, AfterMessage, Precedes, MessagePrecedes
<1> QED BY <1>2, <1>3 DEF Feeds

LEMMA ShortenedIs ==
  ASSUME NEW S, NEW s \in Seq(S)
  PROVE  LET m == Len(Shortened(s)) IN
         /\ Shortened(s) \in Seq(S) /\ m \in Nat /\ m <= Len(s)
         /\ \A n \in 1..m : Shortened(s)[n] = s[n]
         /\ Len(s) > Limit => m = Limit
         /\ ~(Len(s) > Limit) => m = Len(s)
<1> DEFINE l == IF Len(s) > Limit THEN Limit ELSE Len(s)
<1>1. Len(s) \in Nat /\ Limit \in Nat \ {0}
  BY NumbersAre, LenProperties
<1>2. l \in Nat /\ l <= Len(s) /\ (Len(s) > Limit => l = Limit) /\ (~(Len(s) > Limit) => l = Len(s))
  BY <1>1
<1>3. Shortened(s) = SubSeq(s, 1, l)
  BY DEF Shortened
<1> HIDE DEF l
<1>4. \A k \in 1..l : s[k] \in S
  BY <1>1, <1>2, ElementOfSeq
<1>5. SubSeq(s, 1, l) = [k \in 1..l |-> s[k]]
  BY <1>1, <1>2
<1>6. SubSeq(s, 1, l) \in Seq(S) /\ Len(SubSeq(s, 1, l)) = l
  BY <1>2, <1>4, <1>5
<1> QED BY <1>2, <1>3, <1>5, <1>6

LEMMA InListOrderSorts ==
  ASSUME SyncTypeOK, NEW f \in Feeds, NEW S \in SUBSET Projections(f)
  PROVE  Sorts(InListOrder(f, S), S, PlaceOrder(f, S))
<1>1. IsFiniteSet(S)
  BY ProjectionsAre, FS_Subset
<1>2. Orders(PlaceOrder(f, S), S)
  BY PlacesOrder
<1>3. \A q \in SetToSeqs(S) : \A j, k \in DOMAIN q :
        <<q[j], q[k]>> \in PlaceOrder(f, S) <=> Precedes(f, q[j], q[k])
  <2>1. \A q \in SetToSeqs(S) : \A j \in DOMAIN q : q[j] \in S
    BY DEF SetToSeqs
  <2> QED BY <2>1 DEF PlaceOrder
<1> DEFINE Right(q) == \A j, k \in DOMAIN q : j < k => Precedes(f, q[j], q[k])
           Good(q) == \A j, k \in DOMAIN q : j < k => <<q[j], q[k]>> \in PlaceOrder(f, S)
<1>4. \A q \in SetToSeqs(S) : Right(q) <=> Good(q)
  BY <1>3
<1>5. (\E q \in SetToSeqs(S) : Good(q)) /\ \A q \in SetToSeqs(S) : Good(q) => Sorts(q, S, PlaceOrder(f, S))
  BY <1>1, <1>2, Arranged
<1>6. InListOrder(f, S) = CHOOSE q \in SetToSeqs(S) : Right(q)
  BY DEF InListOrder
<1> HIDE DEF Good, Right
<1>7. InListOrder(f, S) \in SetToSeqs(S) /\ Right(InListOrder(f, S))
  BY <1>4, <1>5, <1>6
<1> QED BY <1>4, <1>5, <1>7

LEMMA InChangeOrderSorts ==
  ASSUME SyncTypeOK, NEW f \in Feeds, NEW S \in SUBSET Projections(f)
  PROVE  Sorts(InChangeOrder(S), S, KeyOrder(S))
<1>1. IsFiniteSet(S)
  BY ProjectionsAre, FS_Subset
<1>2. Orders(KeyOrder(S), S)
  BY KeysOrder
<1> DEFINE Less(x, y) == x.key < y.key \/ (x.key = y.key /\ x.id < y.id)
<1>3. \A q \in SetToSeqs(S) : \A j, k \in DOMAIN q :
        <<q[j], q[k]>> \in KeyOrder(S) <=> Less(q[j], q[k])
  <2>1. \A q \in SetToSeqs(S) : \A j \in DOMAIN q : q[j] \in S
    BY DEF SetToSeqs
  <2> QED BY <2>1 DEF KeyOrder
<1> DEFINE Right(q) == \A j, k \in DOMAIN q : j < k => Less(q[j], q[k])
           Good(q) == \A j, k \in DOMAIN q : j < k => <<q[j], q[k]>> \in KeyOrder(S)
<1>4. \A q \in SetToSeqs(S) : Right(q) <=> Good(q)
  <2> HIDE DEF Less
  <2> QED BY <1>3
<1>5. (\E q \in SetToSeqs(S) : Good(q)) /\ \A q \in SetToSeqs(S) : Good(q) => Sorts(q, S, KeyOrder(S))
  BY <1>1, <1>2, Arranged
<1>6. InChangeOrder(S) = CHOOSE q \in SetToSeqs(S) : Right(q)
  BY DEF InChangeOrder
<1> HIDE DEF Good, Right
<1>7. InChangeOrder(S) \in SetToSeqs(S) /\ Right(InChangeOrder(S))
  BY <1>4, <1>5, <1>6
<1> QED BY <1>4, <1>5, <1>7

\* A sorted sequence is one of its set's elements.
LEMMA SortsSeq ==
  ASSUME NEW S, IsFiniteSet(S), NEW q, NEW less, Sorts(q, S, less)
  PROVE  q \in Seq(S) /\ Len(q) = Cardinality(S) /\ Len(q) \in Nat
<1>1. Cardinality(S) \in Nat /\ q \in [1..Cardinality(S) -> S]
  BY FS_CardinalityType DEF Sorts
<1> QED BY <1>1

\* A list's page: rows with keys up to the snapshot, as they are, and every such row
\* that the cursor leaves is among them or after the next cursor.
SnapshotAt(cursor) == IF cursor = NoCursor THEN clock ELSE cursor.snapshot
LEMMA ListPageIs ==
  ASSUME SyncTypeOK, NEW f \in Feeds, NEW cursor \in PageCursors(f) \cup {NoCursor}
  PROVE  LET r == ListPage(f, cursor) IN
         /\ r \in Replies(f)
         /\ SnapshotAt(cursor) \in Nat
         /\ r.sync = [time |-> SnapshotAt(cursor), id |-> MaxId] /\ r.sync \in Cursors
         /\ r.next # NoCursor => r.next \in PageCursors(f) /\ r.next.snapshot = SnapshotAt(cursor)
         /\ \A n \in 1..Len(r.items) :
              r.items[n] \in Projections(f) /\ r.items[n].key <= SnapshotAt(cursor)
         /\ \A i \in Ids :
              /\ Visible(f, i) /\ Key(f, rows[f][i]) <= SnapshotAt(cursor)
              /\ cursor = NoCursor \/ AfterPage(f, cursor, Projection(f, i))
              => In(f, r.items, i) \/ Remains(f, r.next, i)
<1> DEFINE snapshot == SnapshotAt(cursor)
           found == {x \in Projections(f) :
                       x.key <= snapshot /\ (cursor = NoCursor \/ AfterPage(f, cursor, x))}
           sorted == InListOrder(f, found)
           items == Shortened(sorted)
           next == IF Len(sorted) > Limit
                   THEN [snapshot |-> snapshot, place |-> items[Limit].place, id |-> items[Limit].id]
                   ELSE NoCursor
           r == ListPage(f, cursor)
<1>1. /\ r.items = items /\ r.next = next /\ r.sync = [time |-> snapshot, id |-> MaxId]
      /\ r.more = (Len(sorted) > Limit)
      /\ r = [items |-> items, next |-> next, sync |-> [time |-> snapshot, id |-> MaxId],
              more |-> (Len(sorted) > Limit)]
  <2>1. found = {x \in {Projection(f, i) : i \in {j \in Ids : Visible(f, j)}} :
                   x.key <= snapshot /\ (cursor = NoCursor \/ AfterPage(f, cursor, x))}
    BY DEF Projections
  <2>2. snapshot = IF cursor = NoCursor THEN clock ELSE cursor.snapshot
    BY DEF SnapshotAt
  <2> HIDE DEF found, snapshot
  <2> QED BY <2>1, <2>2 DEF ListPage
<1>2. snapshot \in Nat
  BY DEF SnapshotAt, SyncTypeOK, PageCursors
<1>3. [time |-> snapshot, id |-> MaxId] \in Cursors
  BY <1>2, NumbersAre DEF Cursors
<1>4. found \in SUBSET Projections(f)
  OBVIOUS
<1>5. IsFiniteSet(found)
  BY <1>4, ProjectionsAre, FS_Subset
<1>6. Sorts(sorted, found, PlaceOrder(f, found))
  BY <1>4, InListOrderSorts
<1>7. sorted \in Seq(found) /\ Len(sorted) = Cardinality(found) /\ Len(sorted) \in Nat
  BY <1>5, <1>6, SortsSeq
<1>8. \A x \in found : x \in Copies(f) /\ x.key <= snapshot
  BY ProjectionsAre
<1> HIDE DEF found, sorted
<1>9. /\ items \in Seq(found) /\ Len(items) \in Nat /\ Len(items) <= Len(sorted)
      /\ \A n \in 1..Len(items) : items[n] = sorted[n]
      /\ Len(sorted) > Limit => Len(items) = Limit
      /\ ~(Len(sorted) > Limit) => Len(items) = Len(sorted)
  BY <1>7, ShortenedIs
<1>10. \A n \in 1..Len(items) : items[n] \in found
  BY <1>9, ElementOfSeq
<1>11. items \in Seq(Copies(f))
  BY <1>8, <1>9, SeqMonotonic, ElementOfSeq
<1> HIDE DEF items
<1>12. Len(sorted) > Limit => Limit \in 1..Len(items) /\ items[Limit] \in found
  BY <1>9, <1>10, NumbersAre
<1>13. Len(sorted) > Limit => /\ next \in PageCursors(f) /\ next.snapshot = snapshot /\ next # NoCursor
  <2>1. SUFFICES ASSUME Len(sorted) > Limit PROVE next \in PageCursors(f) /\ next.snapshot = snapshot
    BY SyncAssumption
  <2>2. items[Limit].place \in ListPlaces[f] /\ items[Limit].id \in Ids
    BY <1>8, <1>12, <2>1 DEF Copies
  <2> QED BY <1>2, <2>1, <2>2 DEF PageCursors
<1>14. ASSUME NEW i \in Ids, Visible(f, i), Key(f, rows[f][i]) <= snapshot,
              cursor = NoCursor \/ AfterPage(f, cursor, Projection(f, i))
       PROVE  In(f, items, i) \/ Remains(f, next, i)
  <2>1. Projection(f, i) \in found /\ Projection(f, i) \in Copies(f)
    <3>1. Projection(f, i) \in Projections(f) /\ Projection(f, i).key = Key(f, rows[f][i])
      BY <1>14, ProjectionsAre, ProjectionIs DEF Visible
    <3> QED BY <1>14, <3>1, ProjectionsAre DEF found
  <2>2. PICK k \in 1..Len(sorted) : sorted[k] = Projection(f, i)
    BY <1>6, <1>7, <2>1 DEF Sorts
  <2>3. CASE k <= Len(items)
    <3>1. k \in 1..Len(items)
      BY <2>3, <1>9
    <3> QED BY <1>9, <2>2, <3>1 DEF In
  <2>4. CASE ~(k <= Len(items))
    <3>1. Len(sorted) > Limit /\ Limit < k /\ Limit \in 1..Len(items) /\ Limit \in 1..Len(sorted)
      BY <1>7, <1>9, <1>12, <2>2, <2>4
    <3>2. items[Limit] = sorted[Limit] /\ items[Limit] \in Copies(f)
      BY <1>8, <1>9, <1>10, <3>1
    <3>3. <<sorted[Limit], sorted[k]>> \in PlaceOrder(f, found)
      BY <1>6, <1>7, <2>2, <3>1 DEF Sorts
    <3>4. Precedes(f, items[Limit], Projection(f, i))
      BY <2>2, <3>2, <3>3 DEF PlaceOrder
    <3>5. AfterPage(f, next, Projection(f, i))
      BY <2>1, <3>1, <3>2, <3>4, AfterPageIs
    <3> QED BY <1>13, <1>14, <3>1, <3>5 DEF Remains
  <2> QED BY <2>3, <2>4
<1>15. \A n \in 1..Len(items) : items[n] \in Projections(f) /\ items[n].key <= snapshot
  BY <1>8, <1>10 DEF found
<1>16. next \in PageCursors(f) \cup {NoCursor} /\ (next # NoCursor => next.snapshot = snapshot)
  BY <1>13
<1> HIDE DEF next, snapshot
<1>17. r \in Replies(f)
  BY <1>1, <1>3, <1>11, <1>16 DEF Replies
<1> HIDE DEF r
<1>18. \A i \in Ids :
         /\ Visible(f, i) /\ Key(f, rows[f][i]) <= snapshot
         /\ cursor = NoCursor \/ AfterPage(f, cursor, Projection(f, i))
         => In(f, r.items, i) \/ Remains(f, r.next, i)
  BY <1>1, <1>14
<1> QED BY <1>1, <1>2, <1>3, <1>15, <1>16, <1>17, <1>18 DEF snapshot, r

\* A poll's page: what is due after the cursor is among its rows, or due after the
\* cursor the page ends with.
LEMMA ChangePageIs ==
  ASSUME SyncTypeOK, NEW f \in Feeds, NEW cursor \in Cursors
  PROVE  LET r == ChangePage(f, cursor) IN
         /\ r \in Replies(f) /\ r.next = NoCursor
         /\ r.sync \in Cursors /\ NotAfter(cursor, r.sync)
         /\ \A n \in 1..Len(r.items) :
              /\ r.items[n] \in Projections(f)
              /\ NotAfter([time |-> r.items[n].key, id |-> r.items[n].id], r.sync)
         /\ \A i \in Ids : Visible(f, i) /\ Due(f, cursor, i) => In(f, r.items, i) \/ Due(f, r.sync, i)
         /\ ~r.more => NothingDue(f, r.sync)
<1> DEFINE found == {x \in Projections(f) : AfterChange(cursor, x.key, x.id)}
           sorted == InChangeOrder(found)
           items == Shortened(sorted)
           sync == IF items = <<>> THEN cursor
                   ELSE [time |-> items[Len(items)].key, id |-> items[Len(items)].id]
           r == ChangePage(f, cursor)
<1>1. /\ r.items = items /\ r.next = NoCursor /\ r.sync = sync /\ r.more = (Len(sorted) > Limit)
      /\ r = [items |-> items, next |-> NoCursor, sync |-> sync, more |-> (Len(sorted) > Limit)]
  <2>1. found = {x \in {Projection(f, i) : i \in {j \in Ids : Visible(f, j)}} :
                   AfterChange(cursor, x.key, x.id)}
    BY DEF Projections
  <2> HIDE DEF found
  <2> QED BY <2>1 DEF ChangePage
<1>2. found \in SUBSET Projections(f)
  OBVIOUS
<1>3. IsFiniteSet(found)
  BY <1>2, ProjectionsAre, FS_Subset
<1>4. Sorts(sorted, found, KeyOrder(found))
  BY <1>2, InChangeOrderSorts
<1>5. sorted \in Seq(found) /\ Len(sorted) = Cardinality(found) /\ Len(sorted) \in Nat
  BY <1>3, <1>4, SortsSeq
<1>6. \A x \in found : /\ x \in Copies(f) /\ x.key \in Nat /\ x.id \in Nat /\ x.id \in Ids
                       /\ AfterChange(cursor, x.key, x.id)
  BY ProjectionsAre, NumbersAre DEF Copies
<1>7. \A i \in Ids : Visible(f, i) /\ Due(f, cursor, i) => Projection(f, i) \in found
  <2> SUFFICES ASSUME NEW i \in Ids, Visible(f, i), Due(f, cursor, i) PROVE Projection(f, i) \in found
    OBVIOUS
  <2>1. Projection(f, i) \in Projections(f)
    BY ProjectionsAre
  <2>2. Projection(f, i).key = Key(f, rows[f][i]) /\ Projection(f, i).id = i
    BY ProjectionIs DEF Visible
  <2> QED BY <2>1, <2>2 DEF Due
<1>8. \A x \in found : x \in Projections(f)
  OBVIOUS
<1> HIDE DEF found, sorted
<1>9. /\ items \in Seq(found) /\ Len(items) \in Nat /\ Len(items) <= Len(sorted)
      /\ \A n \in 1..Len(items) : items[n] = sorted[n]
      /\ Len(sorted) > Limit => Len(items) = Limit
      /\ ~(Len(sorted) > Limit) => Len(items) = Len(sorted)
  BY <1>5, ShortenedIs
<1>10. \A n \in 1..Len(items) : items[n] \in found
  BY <1>9, ElementOfSeq
<1>11. items \in Seq(Copies(f))
  BY <1>6, <1>9, SeqMonotonic, ElementOfSeq
<1>12. \A j, k \in 1..Len(sorted) : j < k =>
         \/ sorted[j].key < sorted[k].key
         \/ sorted[j].key = sorted[k].key /\ sorted[j].id < sorted[k].id
  BY <1>4, <1>5 DEF Sorts, KeyOrder
<1>13. \A j \in 1..Len(sorted) : sorted[j] \in found
  BY <1>5, ElementOfSeq
<1> HIDE DEF items
<1> DEFINE last == Len(items)
<1>14. CASE items = <<>>
  <2>1. Len(sorted) = 0
    BY <1>5, <1>9, <1>14, NumbersAre
  <2>2. found = {}
    BY <1>3, <1>5, <2>1, FS_EmptySet
  <2>3. sync = cursor
    BY <1>14
  <2>4. \A i \in Ids : ~(Visible(f, i) /\ Due(f, cursor, i))
    BY <1>7, <2>2
  <2>5. sync \in Cursors /\ NotAfter(cursor, sync)
    BY <2>3, CursorsOrder
  <2>6. \A n \in 1..Len(items) : FALSE
    BY <1>14
  <2>7. r \in Replies(f)
    BY <1>1, <1>11, <2>5 DEF Replies
  <2> HIDE DEF sync, r
  <2> QED BY <1>1, <2>3, <2>4, <2>5, <2>6, <2>7 DEF NothingDue, r
<1>15. CASE items # <<>>
  <2>1. last \in 1..Len(items) /\ last \in 1..Len(sorted) /\ items[last] = sorted[last]
    <3>1. last # 0
      BY <1>9, <1>15, EmptySeq
    <3>2. last \in 1..Len(items)
      BY <1>9, <3>1
    <3> QED BY <1>5, <1>9, <3>2
  <2>2. sync = [time |-> items[last].key, id |-> items[last].id] /\ items[last] \in found
    BY <1>10, <1>15, <2>1
  <2>3. sync \in Cursors
    BY <1>6, <2>2 DEF Cursors
  <2>4. NotAfter(cursor, sync)
    <3>1. AfterChange(cursor, sync.time, sync.id)
      BY <1>6, <2>2
    <3> QED BY <2>3, <3>1 DEF NotAfter, AfterChange, Cursors
  <2> HIDE DEF last
  <2>5. \A k \in 1..last : NotAfter([time |-> sorted[k].key, id |-> sorted[k].id], sync)
    <3> TAKE k \in 1..last
    <3>1. k \in 1..Len(sorted) /\ (k = last \/ k < last)
      BY <1>5, <2>1
    <3>2. sorted[k] \in found
      BY <1>13, <3>1
    <3> QED BY <1>6, <1>12, <2>1, <2>2, <3>1, <3>2 DEF NotAfter, AfterChange
  <2>6. \A k \in 1..Len(sorted) : ~(k <= last) => AfterChange(sync, sorted[k].key, sorted[k].id)
    <3> TAKE k \in 1..Len(sorted)
    <3>1. sorted[k] \in found
      BY <1>13
    <3>2. ~(k <= last) => last < k
      BY <1>5, <2>1
    <3> QED BY <1>6, <1>12, <2>1, <2>2, <3>1, <3>2 DEF AfterChange
  <2>7. ASSUME NEW i \in Ids, Visible(f, i), Due(f, cursor, i)
        PROVE  \E k \in 1..Len(sorted) : sorted[k] = Projection(f, i) /\ sorted[k].id = i
                                          /\ sorted[k].key = Key(f, rows[f][i])
    <3>1. Projection(f, i) \in found
      BY <1>7, <2>7
    <3>2. Projection(f, i).id = i /\ Projection(f, i).key = Key(f, rows[f][i])
      BY <2>7, ProjectionIs DEF Visible
    <3> QED BY <1>4, <1>5, <3>1, <3>2 DEF Sorts
  <2>8. \A n \in 1..Len(items) :
          /\ items[n] \in Projections(f)
          /\ NotAfter([time |-> items[n].key, id |-> items[n].id], sync)
    BY <1>8, <1>9, <1>10, <2>5 DEF last
  <2> HIDE DEF sync
  <2>9. ASSUME NEW i \in Ids, Visible(f, i), Due(f, cursor, i)
        PROVE  In(f, items, i) \/ Due(f, sync, i)
    <3>1. PICK k \in 1..Len(sorted) : sorted[k] = Projection(f, i) /\ sorted[k].id = i
                                       /\ sorted[k].key = Key(f, rows[f][i])
      BY <2>7, <2>9
    <3>2. CASE k <= last
      <4>1. k \in 1..Len(items)
        BY <3>2, <1>9 DEF last
      <4> QED BY <1>9, <3>1, <4>1 DEF In
    <3>3. CASE ~(k <= last)
      BY <2>6, <3>1, <3>3 DEF Due
    <3> QED BY <3>2, <3>3
  <2>10. ASSUME ~(Len(sorted) > Limit)
         PROVE  NothingDue(f, sync)
    <3> SUFFICES ASSUME NEW i \in Ids, Visible(f, i), Due(f, sync, i) PROVE FALSE
      BY DEF NothingDue
    <3>1. Key(f, rows[f][i]) \in Nat /\ i \in Nat
      BY ProjectionIs, NumbersAre DEF Visible
    <3>2. Due(f, cursor, i)
      BY <2>3, <2>4, <3>1, AfterEarlier DEF Due
    <3>3. PICK k \in 1..Len(sorted) : sorted[k] = Projection(f, i) /\ sorted[k].id = i
                                       /\ sorted[k].key = Key(f, rows[f][i])
      BY <2>7, <3>2
    <3>4. k \in 1..last
      BY <1>9, <2>10 DEF last
    <3>5. NotAfter([time |-> Key(f, rows[f][i]), id |-> i], sync)
      BY <2>5, <3>3, <3>4
    <3> QED BY <3>5 DEF NotAfter, Due
  <2>11. r \in Replies(f)
    BY <1>1, <1>11, <2>3 DEF Replies
  <2> HIDE DEF r
  <2> QED BY <1>1, <2>3, <2>4, <2>8, <2>9, <2>10, <2>11 DEF r
<1> QED BY <1>14, <1>15

-----------------------------------------------------------------------------
(* What the browser does with a page.                                      *)

Merge(v, x) == IF v[x.id] = NoRow \/ x.key >= v[x.id].key THEN [v EXCEPT ![x.id] = x] ELSE v

\* A view after the first k of the items.
Merged(u, view, items, k) ==
  /\ \A i \in Ids : u[i] = view[i] \/ \E n \in 1..k : items[n].id = i /\ u[i] = items[n]
  /\ \A i \in Ids : view[i] # NoRow => u[i] # NoRow /\ view[i].key <= u[i].key
  /\ \A n \in 1..k : u[items[n].id] # NoRow /\ items[n].key <= u[items[n].id].key

LEMMA MergeIs ==
  ASSUME NEW f \in Feeds, NEW v \in [Ids -> Copies(f) \cup {NoRow}], NEW x \in Copies(f)
  PROVE  /\ Merge(v, x) \in [Ids -> Copies(f) \cup {NoRow}]
         /\ \A i \in Ids : Merge(v, x)[i] = v[i] \/ (i = x.id /\ Merge(v, x)[i] = x)
         /\ \A i \in Ids : v[i] # NoRow => Merge(v, x)[i] # NoRow /\ v[i].key <= Merge(v, x)[i].key
         /\ Merge(v, x)[x.id] # NoRow /\ x.key <= Merge(v, x)[x.id].key
<1>1. x # NoRow /\ x.id \in Ids /\ x.key \in Nat
  BY SyncAssumption DEF Copies
<1>2. \A i \in Ids : v[i] # NoRow => v[i].key \in Nat
  BY DEF Copies
<1> QED BY <1>1, <1>2 DEF Merge

LEMMA LastOfFirst ==
  ASSUME NEW n \in Nat
  PROVE  /\ \A s \in SUBSET (1..n) : s # {} => Max(s) \in s
         /\ \A k \in 1..n : Max(1..k) = k
<1>1. ASSUME NEW s \in SUBSET (1..n), s # {}
      PROVE  Max(s) \in s
  <2>1. IsFiniteSet(1..n)
    BY FS_Interval
  <2>2. IsFiniteSet(s)
    <3> HIDE <1>1
    <3> QED BY <2>1, FS_Subset
  <2>3. s \in SUBSET Nat
    OBVIOUS
  <2>4. PICK x \in s : \A y \in s : y <= x
    BY <1>1, <2>2, <2>3, GreatestExists
  <2>5. \A y \in s : x >= y
    BY <2>3, <2>4
  <2> QED BY <2>5 DEF Max
<1>2. ASSUME NEW k \in 1..n
      PROVE  Max(1..k) = k
  <2>1. \A x \in 1..k : (\A y \in 1..k : x >= y) <=> x = k
    OBVIOUS
  <2>2. k \in 1..k
    OBVIOUS
  <2> QED BY <2>1, <2>2 DEF Max
<1> QED BY <1>1, <1>2

\* A fold over a sequence takes its items one after another.
LEMMA UpsertIs ==
  ASSUME NEW f \in Feeds, NEW view \in [Ids -> Copies(f) \cup {NoRow}], NEW items \in Seq(Copies(f))
  PROVE  /\ Upsert(view, items) \in [Ids -> Copies(f) \cup {NoRow}]
         /\ Merged(Upsert(view, items), view, items, Len(items))
<1> DEFINE n == Len(items)
           V == [Ids -> Copies(f) \cup {NoRow}]
           S == 1..n
           pick == [s \in SUBSET S |-> Max(s)]
           op == [xv \in S \X V |-> Merge(xv[2], items[xv[1]])]
           F(g) == [s \in SUBSET S |-> IF s = {} THEN view
                                       ELSE Merge(g[s \ {Max(s)}], items[Max(s)])]
<1>1. n \in Nat /\ \A k \in S : items[k] \in Copies(f)
  BY LenProperties, ElementOfSeq
<1>3. Upsert(view, items) = (CHOOSE g : g = F(g))[S]
  <2>1. DOMAIN items = S
    BY LenProperties
  <2>2. Upsert(view, items) =
          LET g == CHOOSE g : g = [s \in SUBSET (DOMAIN items) |->
                                     IF s = {} THEN view
                                     ELSE Merge(g[s \ {Max(s)}], items[Max(s)])]
          IN g[DOMAIN items]
    BY DEF Upsert, FoldLeft, MapThenFoldSet, Merge
  <2> QED BY <2>1, <2>2, Zenon
<1>4. IsFiniteSet(S)
  BY <1>1, FS_Interval
<1>5. /\ \A s \in SUBSET S : s # {} => Max(s) \in s
      /\ \A k \in S : Max(1..k) = k
  BY <1>1, LastOfFirst
<1>6. ASSUME NEW x \in S, NEW v \in V
      PROVE  op[<<x, v>>] = Merge(v, items[x]) /\ op[<<x, v>>] \in V
  <2>1. op[<<x, v>>] = Merge(v, items[x])
    OBVIOUS
  <2> HIDE DEF op
  <2> QED BY <1>1, <2>1, MergeIs
<1>7. \A s \in SUBSET S : s # {} => pick[s] = Max(s) /\ pick[s] \in s
  BY <1>5
<1>8. view \in V
  OBVIOUS
<1> HIDE DEF V, op, pick
<1>9. Foldable(S, V, view, pick, op)
  BY <1>4, <1>6, <1>7, <1>8 DEF Foldable
<1>10. PICK g \in [SUBSET S -> V] : Folds(g, S, view, pick, op)
  <2> HIDE DEF S
  <2> QED BY <1>4, <1>9, FoldExists
<1>11. \A s \in SUBSET S : g[s] = IF s = {} THEN view ELSE op[<<pick[s], g[s \ {pick[s]}]>>]
  BY <1>10 DEF Folds
<1>12. ASSUME NEW s \in SUBSET S
       PROVE  g[s] = IF s = {} THEN view ELSE Merge(g[s \ {Max(s)}], items[Max(s)])
  <2>1. CASE s # {}
    <3>1. Max(s) \in S /\ g[s \ {Max(s)}] \in V /\ pick[s] = Max(s)
      BY <1>5, <1>7, <1>10, <2>1
    <3>2. g[s] = op[<<pick[s], g[s \ {pick[s]}]>>]
      BY <1>11, <2>1
    <3> HIDE DEF S
    <3> QED BY <1>6, <2>1, <3>1, <3>2
  <2> QED BY <1>11, <2>1
<1>13. g = F(g)
  BY <1>10, <1>12
<1>14. PICK h : h = F(h) /\ Upsert(view, items) = h[S]
  BY <1>3, <1>13
<1>15. /\ h[{}] = view
       /\ \A s \in SUBSET S : s # {} => h[s] = Merge(h[s \ {Max(s)}], items[Max(s)])
  BY <1>14, Zenon
<1>16. ASSUME NEW k \in 1..n, h[1..(k - 1)] \in V
       PROVE  h[1..k] = op[<<k, h[1..(k - 1)]>>]
  <2>1. k \in 1..k /\ 1..k \in SUBSET S
    BY <1>1
  <2>2. 1..k # {} /\ Max(1..k) = k /\ (1..k) \ {k} = 1..(k - 1)
    <3>1. (1..k) \ {k} = 1..(k - 1)
      BY <1>1
    <3> QED BY <1>5, <2>1, <3>1
  <2>3. h[1..k] = Merge(h[(1..k) \ {Max(1..k)}], items[Max(1..k)])
    BY <1>15, <2>1, <2>2
  <2>4. h[1..k] = Merge(h[1..(k - 1)], items[k])
    BY <2>2, <2>3
  <2> QED BY <1>6, <1>16, <2>4
<1>17. \A k \in 1..n, v \in V : op[<<k, v>>] \in V
  BY <1>6
<1> HIDE DEF F
<1>18. PICK R \in [0..n -> V] :
         /\ R[0] = view /\ \A k \in 1..n : R[k] = op[<<k, R[k - 1]>>]
         /\ h[1..n] = R[n]
  <2>1. \A k \in 1..n : h[1..(k - 1)] \in V => h[1..k] = op[<<k, h[1..(k - 1)]>>]
    BY <1>16
  <2>2. TakesTurns(h, n, V, view, op)
    BY <1>1, <1>8, <1>15, <1>17, <2>1 DEF TakesTurns
  <2> HIDE DEF n
  <2> QED BY <2>2, FoldsInTurn
<1>19. \A k \in 0..n : Merged(R[k], view, items, k)
  <2> DEFINE T == {k \in Nat : k <= n => Merged(R[k], view, items, k)}
  <2>1. 0 \in T
    <3>1. \A i \in Ids : view[i] # NoRow => view[i].key \in Nat
      BY DEF Copies
    <3>2. Merged(view, view, items, 0)
      BY <3>1 DEF Merged
    <3> QED BY <1>18, <3>2
  <2>2. ASSUME NEW k \in Nat, k \in T
        PROVE  k + 1 \in T
    <3>1. SUFFICES ASSUME k + 1 <= n PROVE Merged(R[k + 1], view, items, k + 1)
      OBVIOUS
    <3>2. k + 1 \in 1..n /\ k \in 0..n /\ (k + 1) - 1 = k
      BY <1>1, <3>1
    <3> DEFINE x == items[k + 1]
               v == R[k]
               u == R[k + 1]
    <3>3. Merged(v, view, items, k) /\ v \in V /\ u \in V /\ x \in Copies(f)
      BY <1>1, <1>18, <2>2, <3>1, <3>2
    <3>4. u = Merge(v, x)
      BY <1>6, <1>18, <3>2, <3>3
    <3> HIDE DEF u, v, x
    <3>5. /\ \A i \in Ids : u[i] = v[i] \/ (i = x.id /\ u[i] = x)
          /\ \A i \in Ids : v[i] # NoRow => u[i] # NoRow /\ v[i].key <= u[i].key
          /\ u[x.id] # NoRow /\ x.key <= u[x.id].key
      BY <3>3, <3>4, MergeIs DEF V
    <3>6. /\ \A i \in Ids : view[i] # NoRow => view[i].key \in Nat
          /\ \A i \in Ids : v[i] # NoRow => v[i].key \in Nat
          /\ \A i \in Ids : u[i] # NoRow => u[i].key \in Nat
          /\ \A m \in 1..n : items[m].id \in Ids /\ items[m].key \in Nat
      BY <1>1, <3>3 DEF V, Copies
    <3>7. \A i \in Ids : u[i] = view[i] \/ \E m \in 1..(k + 1) : items[m].id = i /\ u[i] = items[m]
      <4> TAKE i \in Ids
      <4>1. CASE u[i] = v[i]
        <5>1. v[i] = view[i] \/ \E m \in 1..k : items[m].id = i /\ v[i] = items[m]
          BY <3>3 DEF Merged
        <5> QED BY <4>1, <5>1
      <4>2. CASE i = x.id /\ u[i] = x
        BY <4>2 DEF x
      <4> QED BY <3>5, <4>1, <4>2
    <3>8. \A i \in Ids : view[i] # NoRow => u[i] # NoRow /\ view[i].key <= u[i].key
      BY <3>3, <3>5, <3>6 DEF Merged
    <3>9. \A m \in 1..(k + 1) : u[items[m].id] # NoRow /\ items[m].key <= u[items[m].id].key
      <4> TAKE m \in 1..(k + 1)
      <4>1. CASE m \in 1..k
        <5>1. m \in 1..n
          BY <3>2, <4>1
        <5> QED BY <3>3, <3>5, <3>6, <4>1, <5>1 DEF Merged
      <4>2. CASE m = k + 1
        BY <3>5, <4>2 DEF x
      <4> QED BY <4>1, <4>2
    <3> QED BY <3>7, <3>8, <3>9 DEF Merged, u
  <2> HIDE DEF T
  <2>3. Nat \subseteq T
    BY <2>1, <2>2, AllNaturals
  <2> QED BY <1>1, <2>3 DEF T
<1>20. Upsert(view, items) = R[n]
  BY <1>14, <1>18
<1>21. n \in 0..n
  BY <1>1
<1> QED BY <1>18, <1>19, <1>20, <1>21 DEF V

\* The view after a page is shown: no copy is newer than its row, and a row that was
\* shown as it is, or is on the page as it is, is shown so.
LEMMA UpsertShows ==
  ASSUME SyncTypeOK, NEW f \in Feeds, NEW view \in [Ids -> Copies(f) \cup {NoRow}],
         NEW items \in Seq(Copies(f)),
         \A i \in Ids : view[i] # NoRow => view[i].id = i /\ CopyOK(f, view[i]),
         \A n \in 1..Len(items) : CopyOK(f, items[n])
  PROVE  LET u == Upsert(view, items) IN
         /\ u \in [Ids -> Copies(f) \cup {NoRow}]
         /\ \A i \in Ids : u[i] # NoRow => u[i].id = i /\ CopyOK(f, u[i])
         /\ \A i \in Owed(f) : view[i] = Projection(f, i) \/ In(f, items, i) => u[i] = Projection(f, i)
<1> DEFINE u == Upsert(view, items)
<1>1. u \in [Ids -> Copies(f) \cup {NoRow}] /\ Merged(u, view, items, Len(items))
  BY UpsertIs
<1> HIDE DEF u
<1>2. ASSUME NEW i \in Ids, u[i] # NoRow
      PROVE  u[i].id = i /\ CopyOK(f, u[i])
  <2>1. u[i] = view[i] \/ \E n \in 1..Len(items) : items[n].id = i /\ u[i] = items[n]
    BY <1>1 DEF Merged
  <2> QED BY <1>2, <2>1
<1>3. ASSUME NEW i \in Owed(f), view[i] = Projection(f, i) \/ In(f, items, i)
      PROVE  u[i] = Projection(f, i)
  <2>1. i \in Ids /\ Visible(f, i) /\ rows[f][i] # NoRow /\ i \notin late[f]
    BY DEF Owed, Visible
  <2>2. /\ Projection(f, i) \in Copies(f) /\ Projection(f, i).id = i
        /\ Projection(f, i).key = Key(f, rows[f][i]) /\ Key(f, rows[f][i]) \in Nat
    BY <2>1, ProjectionIs
  <2>3. Projection(f, i) # NoRow
    BY <2>2, SyncAssumption
  <2>4. u[i] # NoRow /\ Key(f, rows[f][i]) <= u[i].key
    <3>1. CASE view[i] = Projection(f, i)
      BY <1>1, <2>1, <2>2, <2>3, <3>1 DEF Merged
    <3>2. CASE In(f, items, i)
      <4>1. PICK n \in 1..Len(items) : items[n] = Projection(f, i)
        BY <3>2 DEF In
      <4> QED BY <1>1, <2>2, <4>1 DEF Merged
    <3> QED BY <1>3, <3>1, <3>2
  <2>5. u[i].id = i /\ CopyOK(f, u[i]) /\ u[i].key \in Nat
    BY <1>1, <1>2, <2>1, <2>4 DEF Copies
  <2> QED BY <2>1, <2>2, <2>4, <2>5 DEF CopyOK
<1> QED BY <1>1, <1>2, <1>3 DEF u

-----------------------------------------------------------------------------
(* Steps: what stays as it is.                                             *)

\* What is said of a feed's rows is the same in the next state when they are.
RowsStay(f) == rows'[f] = rows[f] /\ late'[f] = late[f]
LEMMA SameRows ==
  ASSUME NEW f, RowsStay(f)
  PROVE  /\ Owed(f)' = Owed(f)
         /\ \A i : (Visible(f, i)' <=> Visible(f, i)) /\ Projection(f, i)' = Projection(f, i)
         /\ \A x : CopyOK(f, x)' <=> CopyOK(f, x)
         /\ \A cursor, i : Due(f, cursor, i)' <=> Due(f, cursor, i)
         /\ \A cursor : NothingDue(f, cursor)' <=> NothingDue(f, cursor)
         /\ \A items, i : In(f, items, i)' <=> In(f, items, i)
         /\ \A next, i : Remains(f, next, i)' <=> Remains(f, next, i)
<1>1. \A i : (Visible(f, i)' <=> Visible(f, i)) /\ Projection(f, i)' = Projection(f, i)
  BY DEF RowsStay, Visible, Projection
<1>2. Owed(f)' = Owed(f)
  BY <1>1 DEF RowsStay, Owed
<1>3. \A x : CopyOK(f, x)' <=> CopyOK(f, x)
  BY <1>1 DEF RowsStay, CopyOK
<1>4. \A cursor, i : Due(f, cursor, i)' <=> Due(f, cursor, i)
  BY DEF RowsStay, Due
<1>5. \A cursor : NothingDue(f, cursor)' <=> NothingDue(f, cursor)
  BY <1>1, <1>4 DEF NothingDue
<1>6. \A items, i : In(f, items, i)' <=> In(f, items, i)
  BY <1>1 DEF In
<1>7. \A next, i : Remains(f, next, i)' <=> Remains(f, next, i)
  BY <1>1 DEF RowsStay, Remains
<1> QED BY <1>1, <1>2, <1>3, <1>4, <1>5, <1>6, <1>7

FeedStays(f) ==
  RowsStay(f) /\ client'[f] = client[f] /\ horizon'[f] = horizon[f] /\ caught'[f] = caught[f]
LEMMA OtherFeed ==
  ASSUME NEW f, FeedOK(f), FeedStays(f)
  PROVE  FeedOK(f)'
<1>1. RowsStay(f)
  BY DEF FeedStays
<1>2. \A r : ReplyBehind(f, r)' <=> ReplyBehind(f, r)
  BY DEF FeedStays, ReplyBehind
<1>3. CopiesOK(f)'
  BY <1>1, SameRows DEF FeedOK, FeedStays, CopiesOK
<1>4. HorizonOK(f)' /\ StepsOK(f)'
  BY <1>2 DEF FeedOK, FeedStays, HorizonOK, StepsOK
<1>5. ListOK(f)'
  BY <1>1, SameRows DEF FeedOK, FeedStays, ListOK
<1>6. ViewOK(f)'
  BY <1>1, SameRows DEF FeedOK, FeedStays, ViewOK
<1>7. MoreOK(f)'
  BY <1>1, SameRows DEF FeedOK, FeedStays, MoreOK
<1>8. PollOK(f)'
  BY <1>1, SameRows DEF FeedOK, FeedStays, PollOK
<1>9. CaughtOK(f)'
  BY <1>1, SameRows DEF FeedOK, FeedStays, CaughtOK
<1> QED BY <1>3, <1>4, <1>5, <1>6, <1>7, <1>8, <1>9 DEF FeedOK

\* A step of one browser's feed.
LEMMA OneFeed ==
  ASSUME SyncInv, NEW f \in Feeds, NEW c \in Browsers(f), Set(f, c),
         UNCHANGED <<rows, open, clock, late>>,
         horizon' \in [Feeds -> Cursors], DOMAIN caught' = Feeds,
         \A g \in Feeds \ {f} : horizon'[g] = horizon[g] /\ caught'[g] = caught[g],
         FeedOK(f)'
  PROVE  SyncInv'
<1>1. client'[f] = c /\ DOMAIN client' = Feeds /\ \A g \in Feeds \ {f} : client'[g] = client[g]
  BY DEF Set, SyncInv, SyncTypeOK
<1>2. \A g \in Feeds \ {f} : FeedStays(g)
  BY <1>1 DEF FeedStays, RowsStay
<1>3. \A g \in Feeds : FeedOK(g)'
  BY <1>2, OtherFeed DEF SyncInv
<1>4. \A g \in Feeds : client'[g] \in Browsers(g)
  BY <1>1 DEF SyncInv, SyncTypeOK
<1>5. SyncTypeOK'
  BY <1>1, <1>4 DEF SyncInv, SyncTypeOK
<1> QED BY <1>3, <1>5 DEF SyncInv

\* What a browser keeps.
LEMMA BrowserIs ==
  ASSUME SyncTypeOK, NEW f \in Feeds
  PROVE  /\ client[f] \in Browsers(f) /\ client[f].view \in [Ids -> Copies(f) \cup {NoRow}]
         /\ client[f].page \in PageCursors(f) \cup {NoCursor} /\ client[f].sync \in Cursors \cup {NoCursor}
         /\ client[f].list \in Asked(f, PageCursors(f)) /\ client[f].more \in Asked(f, PageCursors(f))
         /\ client[f].poll \in Asked(f, Cursors) /\ client[f].one \in Copies(f) \cup {NoRow}
         /\ \A kind \in Kinds : client[f][kind].reply \in Replies(f)
         /\ rows[f] \in [Ids -> Rows(f) \cup {NoRow}] /\ horizon[f] \in Cursors
BY DEF SyncTypeOK, Browsers, Asked, Kinds

LEMMA QuietIs ==
  ASSUME NEW f, NEW cursors
  PROVE  /\ NoReply \in Replies(f) /\ Quiet \in Asked(f, cursors)
         /\ [Quiet EXCEPT !.step = "sent"] \in Asked(f, cursors)
         /\ Quiet.step = "idle" /\ Quiet.reply = NoReply /\ Quiet.cursor = NoCursor
         /\ [Quiet EXCEPT !.step = "sent"].step = "sent"
         /\ [Quiet EXCEPT !.step = "sent"].reply = NoReply
         /\ [Quiet EXCEPT !.step = "sent"].cursor = NoCursor
         /\ NoReply.items = <<>> /\ Len(NoReply.items) = 0
         /\ NoReply.sync = NoCursor /\ NoReply.next = NoCursor
<1>1. /\ NoReply.items = <<>> /\ Len(NoReply.items) = 0
      /\ NoReply.sync = NoCursor /\ NoReply.next = NoCursor
  BY DEF NoReply
<1>2. <<>> \in Seq(Copies(f))
  BY EmptySeq
<1>3. NoReply \in Replies(f)
  BY <1>2 DEF NoReply, Replies
<1> HIDE DEF NoReply
<1>4. /\ Quiet.step = "idle" /\ Quiet.reply = NoReply /\ Quiet.cursor = NoCursor
      /\ [Quiet EXCEPT !.step = "sent"] = [step |-> "sent", cursor |-> NoCursor, reply |-> NoReply]
  BY DEF Quiet
<1>5. Quiet \in Asked(f, cursors) /\ [Quiet EXCEPT !.step = "sent"] \in Asked(f, cursors)
  BY <1>3, <1>4 DEF Quiet, Asked
<1> QED BY <1>1, <1>3, <1>4, <1>5

LEMMA RequestListStep ==
  ASSUME SyncInv, NEW f \in Feeds, RequestList(f)
  PROVE  SyncInv'
<1> DEFINE b == client[f]
           v == IF f = "messages" THEN NoView ELSE b.view
           c == [b EXCEPT !.list = [Quiet EXCEPT !.step = "sent"], !.sync = NoCursor,
                          !.ready = FALSE, !.view = v]
<1>1. b \in Browsers(f) /\ SyncTypeOK /\ FeedOK(f)
  BY BrowserIs DEF SyncInv
<1>2. Set(f, c) /\ UNCHANGED <<rows, open, clock, late, horizon, caught>>
  BY DEF RequestList, serverVars
<1>3. v \in [Ids -> Copies(f) \cup {NoRow}] /\ \A i \in Ids : v[i] = NoRow \/ v[i] = b.view[i]
  BY <1>1 DEF NoView, Browsers
<1> HIDE DEF v
<1>4. /\ c.view = v /\ c.page = b.page /\ c.sync = NoCursor /\ c.ready = FALSE
      /\ c.list = [Quiet EXCEPT !.step = "sent"] /\ c.more = b.more /\ c.poll = b.poll
      /\ c.one = b.one /\ c.crossed = b.crossed /\ c.stale = b.stale
  BY <1>1 DEF Browsers
<1>5. c \in Browsers(f)
  BY <1>1, <1>3, QuietIs DEF Browsers
<1>6. client'[f] = c
  BY <1>1, <1>2 DEF Set, SyncTypeOK
<1> HIDE DEF c
<1>7. RowsStay(f) /\ horizon' = horizon /\ caught' = caught
  BY <1>2 DEF RowsStay
<1>8. \A kind \in Kinds : c[kind].reply = NoReply \/ c[kind].reply = b[kind].reply
  BY <1>4, QuietIs DEF Kinds
<1>9. CopiesOK(f)'
  <2>1. CopiesOK(f)
    BY <1>1 DEF FeedOK
  <2> QED BY <1>3, <1>4, <1>6, <1>7, <1>8, <2>1, SameRows, QuietIs DEF CopiesOK
<1>10. HorizonOK(f)'
  <2>1. HorizonOK(f)
    BY <1>1 DEF FeedOK
  <2>2. ReplyBehind(f, NoReply)' /\ \A kind \in Kinds : ReplyBehind(f, b[kind].reply)
    BY <2>1, QuietIs DEF ReplyBehind, HorizonOK
  <2>3. \A r : ReplyBehind(f, r)' <=> ReplyBehind(f, r)
    BY <1>7 DEF ReplyBehind
  <2> QED BY <1>4, <1>6, <1>7, <1>8, <2>1, <2>2, <2>3 DEF HorizonOK
<1>11. StepsOK(f)'
  <2>1. StepsOK(f)
    BY <1>1 DEF FeedOK
  <2> QED BY <1>4, <1>6, <2>1, QuietIs DEF StepsOK, Kinds
<1>12. ListOK(f)' /\ ViewOK(f)' /\ MoreOK(f)'
  BY <1>4, <1>6, QuietIs DEF ListOK, ViewOK, MoreOK
<1>13. PollOK(f)'
  <2>1. PollOK(f)
    BY <1>1 DEF FeedOK
  <2> QED BY <1>4, <1>6, <1>7, <2>1, SameRows DEF PollOK
<1>14. CaughtOK(f)'
  <2>1. CaughtOK(f)
    BY <1>1 DEF FeedOK
  <2> QED BY <1>4, <1>6, <1>7, <2>1, SameRows DEF CaughtOK
<1>15. FeedOK(f)'
  BY <1>9, <1>10, <1>11, <1>12, <1>13, <1>14 DEF FeedOK
<1> QED BY <1>1, <1>2, <1>5, <1>15, OneFeed DEF SyncTypeOK

\* The horizon after a reading: not before what it was, nor before the reply.
LEMMA HorizonGrows ==
  ASSUME SyncTypeOK, NEW f \in Feeds, NEW sync \in Cursors,
         horizon' = [horizon EXCEPT ![f] = IF AfterChange(@, sync.time, sync.id) THEN sync ELSE @]
  PROVE  /\ horizon' \in [Feeds -> Cursors] /\ \A g \in Feeds \ {f} : horizon'[g] = horizon[g]
         /\ NotAfter(horizon[f], horizon'[f]) /\ NotAfter(sync, horizon'[f])
         /\ \A a \in Cursors : NotAfter(a, horizon[f]) \/ NotAfter(a, sync) => NotAfter(a, horizon'[f])
<1>1. horizon \in [Feeds -> Cursors] /\ horizon[f] \in Cursors
  BY DEF SyncTypeOK
<1>2. horizon'[f] = IF AfterChange(horizon[f], sync.time, sync.id) THEN sync ELSE horizon[f]
  BY <1>1
<1>3. NotAfter(horizon[f], horizon'[f]) /\ NotAfter(sync, horizon'[f])
  BY <1>1, <1>2, CursorsOrder DEF NotAfter
<1>4. horizon' \in [Feeds -> Cursors] /\ \A g \in Feeds \ {f} : horizon'[g] = horizon[g]
  BY <1>1
<1> QED BY <1>1, <1>3, <1>4, CursorsOrder

\* What was behind the horizon still is.
LEMMA StillBehind ==
  ASSUME SyncTypeOK, NEW f \in Feeds, horizon'[f] \in Cursors, NotAfter(horizon[f], horizon'[f]),
         NEW r \in Replies(f), ReplyBehind(f, r)
  PROVE  ReplyBehind(f, r)'
<1>1. \A a \in Cursors : NotAfter(a, horizon[f]) => NotAfter(a, horizon'[f])
  BY CursorsOrder, BrowserIs
<1>2. \A n \in 1..Len(r.items) : [time |-> r.items[n].key, id |-> r.items[n].id] \in Cursors
  <2>1. \A n \in 1..Len(r.items) : r.items[n] \in Copies(f)
    BY ElementOfSeq DEF Replies
  <2> QED BY <2>1, NumbersAre DEF Copies, Cursors
<1>3. r.next # NoCursor => SnapshotOf(r.next) \in Cursors
  BY NumbersAre DEF Replies, PageCursors, SnapshotOf, Cursors
<1>4. r.sync # NoCursor => r.sync \in Cursors
  BY DEF Replies
<1> QED BY <1>1, <1>2, <1>3, <1>4 DEF ReplyBehind

\* A reply just read: its rows are as they are, and not after the cursor it comes with.
LEMMA AnswerIs ==
  ASSUME SyncTypeOK, NEW f \in Feeds, NEW kind \in Kinds, NEW cursor,
         cursor \in IF kind = "poll" THEN Cursors ELSE PageCursors(f) \cup {NoCursor}
  PROVE  LET r == Answer(f, kind, cursor) IN
         /\ r \in Replies(f) /\ r.sync \in Cursors
         /\ \A n \in 1..Len(r.items) : CopyOK(f, r.items[n])
         /\ \A n \in 1..Len(r.items) : NotAfter([time |-> r.items[n].key, id |-> r.items[n].id], r.sync)
         /\ r.next # NoCursor => SnapshotOf(r.next) = r.sync
<1> DEFINE r == Answer(f, kind, cursor)
<1>1. \A x \in Projections(f) : CopyOK(f, x) /\ x.id \in Nat /\ x.id < MaxId /\ x.key \in Nat
  BY ProjectionsAre, NumbersAre DEF CopyOK, Visible, Copies
<1>2. CASE kind = "poll"
  <2>1. r = ChangePage(f, cursor) /\ cursor \in Cursors
    BY <1>2 DEF Answer
  <2>2. /\ r \in Replies(f) /\ r.next = NoCursor /\ r.sync \in Cursors
        /\ \A n \in 1..Len(r.items) :
             /\ r.items[n] \in Projections(f)
             /\ NotAfter([time |-> r.items[n].key, id |-> r.items[n].id], r.sync)
    BY <2>1, ChangePageIs
  <2> HIDE DEF r
  <2> QED BY <1>1, <2>2 DEF r
<1>3. CASE kind # "poll"
  <2>1. r = ListPage(f, cursor) /\ cursor \in PageCursors(f) \cup {NoCursor}
    BY <1>3 DEF Answer
  <2> DEFINE snap == SnapshotAt(cursor)
  <2>2. /\ r \in Replies(f) /\ snap \in Nat
        /\ r.sync = [time |-> snap, id |-> MaxId] /\ r.sync \in Cursors
        /\ r.next # NoCursor => r.next.snapshot = snap
        /\ \A n \in 1..Len(r.items) : r.items[n] \in Projections(f) /\ r.items[n].key <= snap
    BY <2>1, ListPageIs
  <2> HIDE DEF r, snap
  <2>3. \A n \in 1..Len(r.items) : NotAfter([time |-> r.items[n].key, id |-> r.items[n].id], r.sync)
    BY <1>1, <2>2, NumbersAre DEF NotAfter, AfterChange
  <2>4. r.next # NoCursor => SnapshotOf(r.next) = r.sync
    BY <2>2 DEF SnapshotOf
  <2> QED BY <1>1, <2>2, <2>3, <2>4 DEF r
<1> QED BY <1>2, <1>3

\* What a reading changes, and what it leaves right.
ReadsOf(f, kind, cursor) ==
  [step |-> "read", cursor |-> cursor, reply |-> Answer(f, kind, cursor)]
LEMMA ReadByIs ==
  ASSUME SyncInv, NEW f \in Feeds, NEW kind \in Kinds, NEW cursor,
         cursor \in IF kind = "poll" THEN Cursors ELSE PageCursors(f) \cup {NoCursor},
         ReadBy(client[f], f, kind, cursor)
  PROVE  /\ RowsStay(f) /\ client'[f] \in Browsers(f)
         /\ client'[f][kind] = ReadsOf(f, kind, cursor)
         /\ \A k \in Kinds \ {kind} : client'[f][k] = client[f][k]
         /\ client'[f].view = client[f].view /\ client'[f].page = client[f].page
         /\ client'[f].sync = client[f].sync /\ client'[f].ready = client[f].ready
         /\ client'[f].crossed = client[f].crossed /\ client'[f].stale = client[f].stale
         /\ caught'[f] = IF kind = "poll" THEN ~Answer(f, kind, cursor).more ELSE caught[f]
         /\ CopiesOK(f)' /\ HorizonOK(f)'
         /\ FeedOK(f)' => SyncInv'
<1> DEFINE b == client[f]
           q == ReadsOf(f, kind, cursor)
           c == [b EXCEPT ![kind] = q]
<1>0. PICK r : r = Answer(f, kind, cursor)
  OBVIOUS
<1>1. b \in Browsers(f) /\ SyncTypeOK /\ FeedOK(f)
  BY BrowserIs DEF SyncInv
<1>2. /\ Set(f, c) /\ UNCHANGED <<rows, open, clock, late>>
      /\ horizon' = [horizon EXCEPT ![f] =
           IF AfterChange(@, r.sync.time, r.sync.id) THEN r.sync ELSE @]
      /\ caught' = [caught EXCEPT ![f] = IF kind = "poll" THEN ~r.more ELSE @]
  BY <1>0 DEF ReadBy, serverVars, ReadsOf
<1>3. /\ r \in Replies(f) /\ r.sync \in Cursors
      /\ \A n \in 1..Len(r.items) : CopyOK(f, r.items[n])
      /\ \A n \in 1..Len(r.items) : NotAfter([time |-> r.items[n].key, id |-> r.items[n].id], r.sync)
      /\ r.next # NoCursor => SnapshotOf(r.next) = r.sync
  BY <1>0, <1>1, AnswerIs
<1>4. /\ q.step = "read" /\ q.cursor = cursor /\ q.reply = r
      /\ q \in Asked(f, IF kind = "poll" THEN Cursors ELSE PageCursors(f))
  BY <1>0, <1>3 DEF Asked, ReadsOf
<1> HIDE DEF q
<1>5. /\ c[kind] = q /\ \A k \in Kinds \ {kind} : c[k] = b[k]
      /\ c.view = b.view /\ c.page = b.page /\ c.sync = b.sync /\ c.ready = b.ready
      /\ c.one = b.one /\ c.crossed = b.crossed /\ c.stale = b.stale
  BY <1>1 DEF Browsers, Kinds
<1>6. c \in Browsers(f)
  <2>1. CASE kind = "list"
    BY <1>1, <1>4, <2>1 DEF Browsers
  <2>2. CASE kind = "more"
    BY <1>1, <1>4, <2>2 DEF Browsers
  <2>3. CASE kind = "poll"
    BY <1>1, <1>4, <2>3 DEF Browsers
  <2> QED BY <2>1, <2>2, <2>3 DEF Kinds
<1>7. client'[f] = c
  BY <1>1, <1>2 DEF Set, SyncTypeOK
<1> HIDE DEF c
<1>8. /\ RowsStay(f) /\ DOMAIN caught' = Feeds
      /\ caught'[f] = IF kind = "poll" THEN ~r.more ELSE caught[f]
      /\ \A g \in Feeds \ {f} : caught'[g] = caught[g]
  BY <1>1, <1>2 DEF RowsStay, SyncTypeOK
<1>9. /\ horizon' \in [Feeds -> Cursors] /\ \A g \in Feeds \ {f} : horizon'[g] = horizon[g]
      /\ NotAfter(horizon[f], horizon'[f]) /\ NotAfter(r.sync, horizon'[f])
      /\ \A a \in Cursors : NotAfter(a, horizon[f]) \/ NotAfter(a, r.sync) => NotAfter(a, horizon'[f])
  BY <1>1, <1>2, <1>3, HorizonGrows
<1>10. CopiesOK(f)'
  <2>1. CopiesOK(f)
    BY <1>1 DEF FeedOK
  <2>2. \A k \in Kinds : \A n \in 1..Len(c[k].reply.items) : CopyOK(f, c[k].reply.items[n])
    BY <1>3, <1>4, <1>5, <2>1 DEF CopiesOK
  <2> QED BY <1>5, <1>7, <1>8, <2>1, <2>2, SameRows DEF CopiesOK
<1>11. HorizonOK(f)'
  <2>1. HorizonOK(f)
    BY <1>1 DEF FeedOK
  <2>2. \A k \in Kinds : b[k].reply \in Replies(f)
    BY <1>1, BrowserIs
  <2>3. \A x \in Replies(f) : ReplyBehind(f, x) => ReplyBehind(f, x)'
    <3>1. ASSUME NEW x \in Replies(f), ReplyBehind(f, x) PROVE ReplyBehind(f, x)'
      BY <1>1, <1>9, <3>1, StillBehind
    <3> QED BY <3>1
  <2>4. ReplyBehind(f, r)'
    <3>1. \A n \in 1..Len(r.items) : [time |-> r.items[n].key, id |-> r.items[n].id] \in Cursors
      <4>1. \A n \in 1..Len(r.items) : r.items[n] \in Copies(f)
        BY <1>3, ElementOfSeq DEF Replies
      <4> QED BY <4>1, NumbersAre DEF Copies, Cursors
    <3> QED BY <1>3, <1>9, <3>1 DEF ReplyBehind
  <2>7. \A k \in Kinds : ReplyBehind(f, client[f][k].reply)'
    <3> TAKE k \in Kinds
    <3>1. client'[f][k].reply = r \/ client'[f][k].reply = b[k].reply
      BY <1>4, <1>5, <1>7
    <3>2. ReplyBehind(f, b[k].reply)
      BY <2>1 DEF HorizonOK
    <3> QED BY <2>2, <2>3, <2>4, <3>1, <3>2
  <2>5. b.sync # NoCursor => b.sync \in Cursors /\ NotAfter(b.sync, horizon'[f])
    BY <1>1, <1>9, <2>1, BrowserIs DEF HorizonOK
  <2>6. b.page # NoCursor => SnapshotOf(b.page) \in Cursors /\ NotAfter(SnapshotOf(b.page), horizon'[f])
    <3>1. b.page # NoCursor => SnapshotOf(b.page) \in Cursors
      BY <1>1, BrowserIs, NumbersAre DEF PageCursors, SnapshotOf, Cursors
    <3> QED BY <1>9, <2>1, <3>1 DEF HorizonOK
  <2> QED BY <1>5, <1>7, <2>5, <2>6, <2>7 DEF HorizonOK
<1>12. FeedOK(f)' => SyncInv'
  BY <1>2, <1>6, <1>8, <1>9, OneFeed
<1> QED BY <1>0, <1>5, <1>6, <1>7, <1>8, <1>10, <1>11, <1>12 DEF q

LEMMA RequestMoreStep ==
  ASSUME SyncInv, NEW f \in Feeds, RequestMore(f)
  PROVE  SyncInv'
<1>1. SyncTypeOK /\ FeedOK(f)
  BY DEF SyncInv
<1>2. PICK page : page = client[f].page
  OBVIOUS
<1>3. page \in PageCursors(f) /\ page # NoCursor /\ ReadBy(client[f], f, "more", page)
  BY <1>1, <1>2, BrowserIs DEF RequestMore
<1>4. PICK r : r = ListPage(f, page)
  OBVIOUS
<1>5. /\ RowsStay(f)
      /\ client'[f].more.step = "read" /\ client'[f].more.reply = r
      /\ client'[f].list = client[f].list /\ client'[f].poll = client[f].poll
      /\ client'[f].view = client[f].view /\ client'[f].page = page
      /\ client'[f].sync = client[f].sync /\ client'[f].ready = client[f].ready
      /\ client'[f].crossed = client[f].crossed /\ client'[f].stale = client[f].stale
      /\ caught'[f] = caught[f]
      /\ CopiesOK(f)' /\ HorizonOK(f)'
      /\ FeedOK(f)' => SyncInv'
  <2>1. "more" \in Kinds /\ "list" \in Kinds \ {"more"} /\ "poll" \in Kinds \ {"more"}
    BY DEF Kinds
  <2>2. Answer(f, "more", page) = r
    BY <1>4 DEF Answer
  <2>3. /\ RowsStay(f)
        /\ client'[f]["more"] = ReadsOf(f, "more", page)
        /\ \A k \in Kinds \ {"more"} : client'[f][k] = client[f][k]
        /\ client'[f].view = client[f].view /\ client'[f].page = client[f].page
        /\ client'[f].sync = client[f].sync /\ client'[f].ready = client[f].ready
        /\ client'[f].crossed = client[f].crossed /\ client'[f].stale = client[f].stale
        /\ caught'[f] = caught[f]
        /\ CopiesOK(f)' /\ HorizonOK(f)'
        /\ FeedOK(f)' => SyncInv'
    BY <1>3, <2>1, ReadByIs
  <2> QED BY <1>2, <2>1, <2>2, <2>3 DEF ReadsOf
<1>6. /\ r.sync \in Cursors
      /\ \A i \in Ids :
           /\ Visible(f, i) /\ Key(f, rows[f][i]) <= page.snapshot /\ AfterPage(f, page, Projection(f, i))
           => In(f, r.items, i) \/ Remains(f, r.next, i)
  <2>1. SnapshotAt(page) = page.snapshot
    BY <1>3 DEF SnapshotAt
  <2> QED BY <1>1, <1>3, <1>4, <2>1, ListPageIs
<1>7. StepsOK(f)'
  <2>1. r.sync # NoCursor
    BY <1>6, SyncAssumption
  <2> QED BY <1>1, <1>5, <2>1 DEF FeedOK, StepsOK, Kinds
<1>8. ListOK(f)'
  BY <1>1, <1>5, SameRows DEF FeedOK, ListOK
<1>9. ViewOK(f)'
  BY <1>1, <1>2, <1>5, SameRows DEF FeedOK, ViewOK
<1>10. MoreOK(f)'
  <2>1. ASSUME client[f].ready, client[f].crossed = {}, NEW i \in Owed(f)
        PROVE  \/ client[f].view[i] = Projection(f, i) \/ Due(f, client[f].sync, i)
               \/ In(f, r.items, i) \/ Remains(f, r.next, i)
    <3>1. \/ client[f].view[i] = Projection(f, i) \/ Due(f, client[f].sync, i) \/ Remains(f, page, i)
      BY <1>1, <1>2, <2>1 DEF FeedOK, ViewOK
    <3>2. i \in Ids /\ Visible(f, i)
      BY DEF Owed
    <3> QED BY <1>6, <3>1, <3>2 DEF Remains
  <2> QED BY <1>5, <2>1, SameRows DEF MoreOK
<1>11. PollOK(f)'
  BY <1>1, <1>5, SameRows DEF FeedOK, PollOK
<1>12. CaughtOK(f)'
  BY <1>1, <1>5, SameRows DEF FeedOK, CaughtOK
<1> QED BY <1>5, <1>7, <1>8, <1>9, <1>10, <1>11, <1>12 DEF FeedOK

\* A poll is read, the first page of it or a further one.
LEMMA PollRead ==
  ASSUME SyncInv, NEW f \in Feeds, NEW cursor \in Cursors, ReadBy(client[f], f, "poll", cursor),
         /\ client[f].ready /\ client[f].crossed = {} /\ "poll" \notin client[f].stale
         => NotAfter(cursor, client[f].sync)
  PROVE  SyncInv'
<1>1. SyncTypeOK /\ FeedOK(f)
  BY DEF SyncInv
<1>4. PICK r : r = ChangePage(f, cursor)
  OBVIOUS
<1>5. /\ RowsStay(f)
      /\ client'[f].poll.step = "read" /\ client'[f].poll.reply = r /\ client'[f].poll.cursor = cursor
      /\ client'[f].list = client[f].list /\ client'[f].more = client[f].more
      /\ client'[f].view = client[f].view /\ client'[f].page = client[f].page
      /\ client'[f].sync = client[f].sync /\ client'[f].ready = client[f].ready
      /\ client'[f].crossed = client[f].crossed /\ client'[f].stale = client[f].stale
      /\ caught'[f] = ~r.more
      /\ CopiesOK(f)' /\ HorizonOK(f)'
      /\ FeedOK(f)' => SyncInv'
  <2>1. "poll" \in Kinds /\ "list" \in Kinds \ {"poll"} /\ "more" \in Kinds \ {"poll"}
    BY DEF Kinds
  <2>2. Answer(f, "poll", cursor) = r
    BY <1>4 DEF Answer
  <2>3. /\ RowsStay(f)
        /\ client'[f]["poll"] = ReadsOf(f, "poll", cursor)
        /\ \A k \in Kinds \ {"poll"} : client'[f][k] = client[f][k]
        /\ client'[f].view = client[f].view /\ client'[f].page = client[f].page
        /\ client'[f].sync = client[f].sync /\ client'[f].ready = client[f].ready
        /\ client'[f].crossed = client[f].crossed /\ client'[f].stale = client[f].stale
        /\ caught'[f] = ~Answer(f, "poll", cursor).more
        /\ CopiesOK(f)' /\ HorizonOK(f)'
        /\ FeedOK(f)' => SyncInv'
    BY <2>1, ReadByIs
  <2> QED BY <2>1, <2>2, <2>3 DEF ReadsOf
<1>6. /\ r.sync \in Cursors
      /\ \A i \in Ids : Visible(f, i) /\ Due(f, cursor, i) => In(f, r.items, i) \/ Due(f, r.sync, i)
      /\ ~r.more => NothingDue(f, r.sync)
  BY <1>1, <1>4, ChangePageIs
<1>7. StepsOK(f)'
  <2>1. r.sync # NoCursor /\ cursor # NoCursor
    BY <1>6, SyncAssumption
  <2> QED BY <1>1, <1>5, <2>1 DEF FeedOK, StepsOK, Kinds
<1>8. ListOK(f)'
  BY <1>1, <1>5, SameRows DEF FeedOK, ListOK
<1>9. ViewOK(f)'
  BY <1>1, <1>5, SameRows DEF FeedOK, ViewOK
<1>10. MoreOK(f)'
  BY <1>1, <1>5, SameRows DEF FeedOK, MoreOK
<1>11. PollOK(f)'
  <2>1. \A i \in Owed(f) : i \in Ids /\ Visible(f, i)
    BY DEF Owed
  <2>2. \A i \in Owed(f) : Due(f, cursor, i) => In(f, r.items, i) \/ Due(f, r.sync, i)
    BY <1>6, <2>1
  <2>3. \A i \in Owed(f)' : Due(f, cursor, i)' => In(f, r.items, i)' \/ Due(f, r.sync, i)'
    BY <1>5, <2>2, SameRows
  <2> QED BY <1>5, <2>3 DEF PollOK
<1>12. CaughtOK(f)'
  <2>1. ~r.more => NothingDue(f, r.sync)'
    BY <1>5, <1>6, SameRows
  <2> QED BY <1>5, <2>1 DEF CaughtOK
<1> QED BY <1>5, <1>7, <1>8, <1>9, <1>10, <1>11, <1>12 DEF FeedOK

LEMMA RequestPollStep ==
  ASSUME SyncInv, NEW f \in Feeds, RequestPoll(f)
  PROVE  SyncInv'
<1>1. PICK cursor : cursor = client[f].sync
  OBVIOUS
<1>2. cursor \in Cursors /\ ReadBy(client[f], f, "poll", cursor)
  BY <1>1, BrowserIs DEF RequestPoll, SyncInv
<1>3. NotAfter(cursor, cursor)
  BY <1>2, CursorsOrder
<1> QED BY <1>1, <1>2, <1>3, PollRead

LEMMA ReadPollStep ==
  ASSUME SyncInv, NEW f \in Feeds, Read(f, "poll")
  PROVE  SyncInv'
<1>1. PICK cursor : cursor = client[f].poll.cursor
  OBVIOUS
<1>2. client[f].poll.step = "sent" /\ ReadBy(client[f], f, "poll", cursor)
  BY <1>1 DEF Read
<1>3. SyncTypeOK /\ FeedOK(f)
  BY DEF SyncInv
<1>4. cursor \in Cursors
  BY <1>1, <1>2, <1>3, BrowserIs DEF Asked, FeedOK, StepsOK
<1>5. /\ client[f].ready /\ client[f].crossed = {} /\ "poll" \notin client[f].stale
      => NotAfter(cursor, client[f].sync)
  BY <1>1, <1>2, <1>3 DEF FeedOK, PollOK
<1> QED BY <1>2, <1>4, <1>5, PollRead

LEMMA ReadListStep ==
  ASSUME SyncInv, NEW f \in Feeds, Read(f, "list")
  PROVE  SyncInv'
<1>1. SyncTypeOK /\ FeedOK(f)
  BY DEF SyncInv
<1>3. client[f].list.cursor = NoCursor /\ ReadBy(client[f], f, "list", NoCursor)
  BY <1>1 DEF Read, FeedOK, StepsOK
<1>4. PICK r : r = ListPage(f, NoCursor)
  OBVIOUS
<1>5. /\ RowsStay(f)
      /\ client'[f].list.step = "read" /\ client'[f].list.reply = r /\ client'[f].list.cursor = NoCursor
      /\ client'[f].more = client[f].more /\ client'[f].poll = client[f].poll
      /\ client'[f].view = client[f].view /\ client'[f].page = client[f].page
      /\ client'[f].sync = client[f].sync /\ client'[f].ready = client[f].ready
      /\ client'[f].crossed = client[f].crossed /\ client'[f].stale = client[f].stale
      /\ caught'[f] = caught[f]
      /\ CopiesOK(f)' /\ HorizonOK(f)'
      /\ FeedOK(f)' => SyncInv'
  <2>1. "list" \in Kinds /\ "more" \in Kinds \ {"list"} /\ "poll" \in Kinds \ {"list"}
    BY DEF Kinds
  <2>2. Answer(f, "list", NoCursor) = r
    BY <1>4 DEF Answer
  <2>3. /\ RowsStay(f)
        /\ client'[f]["list"] = ReadsOf(f, "list", NoCursor)
        /\ \A k \in Kinds \ {"list"} : client'[f][k] = client[f][k]
        /\ client'[f].view = client[f].view /\ client'[f].page = client[f].page
        /\ client'[f].sync = client[f].sync /\ client'[f].ready = client[f].ready
        /\ client'[f].crossed = client[f].crossed /\ client'[f].stale = client[f].stale
        /\ caught'[f] = caught[f]
        /\ CopiesOK(f)' /\ HorizonOK(f)'
        /\ FeedOK(f)' => SyncInv'
    BY <1>3, <2>1, ReadByIs
  <2> QED BY <2>1, <2>2, <2>3 DEF ReadsOf
<1>6. /\ clock \in Nat /\ r.sync = [time |-> clock, id |-> MaxId] /\ r.sync \in Cursors
      /\ \A i \in Ids : Visible(f, i) /\ Key(f, rows[f][i]) <= clock
                          => In(f, r.items, i) \/ Remains(f, r.next, i)
  <2>1. SnapshotAt(NoCursor) = clock
    BY DEF SnapshotAt
  <2> QED BY <1>1, <1>4, <2>1, ListPageIs
<1>7. StepsOK(f)'
  <2>1. r.sync # NoCursor
    BY <1>6, SyncAssumption
  <2> QED BY <1>1, <1>5, <2>1 DEF FeedOK, StepsOK, Kinds
<1>8. ListOK(f)'
  <2>1. ASSUME NEW i \in Owed(f)
        PROVE  In(f, r.items, i) \/ Due(f, r.sync, i) \/ Remains(f, r.next, i)
    <3>1. i \in Ids /\ Visible(f, i) /\ Key(f, rows[f][i]) \in Nat
      BY <1>1, ProjectionIs DEF Owed, Visible
    <3>2. ~(Key(f, rows[f][i]) <= clock) => Due(f, r.sync, i)
      BY <1>6, <3>1 DEF Due, AfterChange
    <3> QED BY <1>6, <3>1, <3>2
  <2>2. \A i \in Owed(f)' : In(f, r.items, i)' \/ Due(f, r.sync, i)' \/ Remains(f, r.next, i)'
    BY <1>5, <2>1, SameRows
  <2> QED BY <1>5, <2>2 DEF ListOK
<1>9. ViewOK(f)'
  BY <1>1, <1>5, SameRows DEF FeedOK, ViewOK
<1>10. MoreOK(f)'
  BY <1>1, <1>5, SameRows DEF FeedOK, MoreOK
<1>11. PollOK(f)'
  BY <1>1, <1>5, SameRows DEF FeedOK, PollOK
<1>12. CaughtOK(f)'
  BY <1>1, <1>5, SameRows DEF FeedOK, CaughtOK
<1> QED BY <1>5, <1>7, <1>8, <1>9, <1>10, <1>11, <1>12 DEF FeedOK

\* A step of the browser alone: nothing is read, and no request says more than before.
LEMMA BrowserAlone ==
  ASSUME SyncInv, NEW f \in Feeds, NEW c \in Browsers(f), Set(f, c),
         UNCHANGED <<serverVars, horizon, late>>,
         DOMAIN caught' = Feeds, \A g \in Feeds \ {f} : caught'[g] = caught[g],
         \A k \in Kinds : c[k].reply = NoReply \/ c[k].reply = client[f][k].reply,
         c.page # NoCursor => \/ c.page = client[f].page
                              \/ \E k \in Kinds : c.page = client[f][k].reply.next,
         c.sync # NoCursor => \/ c.sync = client[f].sync
                              \/ \E k \in Kinds : c.sync = client[f][k].reply.sync
  PROVE  /\ RowsStay(f) /\ client'[f] = c
         /\ HorizonOK(f)'
         /\ \A k \in Kinds : \A n \in 1..Len(c[k].reply.items) : CopyOK(f, c[k].reply.items[n])
         /\ FeedOK(f)' => SyncInv'
<1>1. SyncTypeOK /\ FeedOK(f)
  BY DEF SyncInv
<1>2. client'[f] = c
  BY <1>1 DEF Set, SyncTypeOK
<1>3. RowsStay(f) /\ horizon' = horizon
  BY DEF RowsStay, serverVars
<1>4. HorizonOK(f)'
  <2>1. HorizonOK(f)
    BY <1>1 DEF FeedOK
  <2>2. ReplyBehind(f, NoReply)' /\ \A k \in Kinds : ReplyBehind(f, client[f][k].reply)
    BY <2>1, QuietIs DEF ReplyBehind, HorizonOK
  <2>3. \A r : ReplyBehind(f, r)' <=> ReplyBehind(f, r)
    BY <1>3 DEF ReplyBehind
  <2>4. \A k \in Kinds : ReplyBehind(f, client[f][k].reply)'
    <3> TAKE k \in Kinds
    <3>1. client'[f][k].reply = NoReply \/ client'[f][k].reply = client[f][k].reply
      BY <1>2
    <3> QED BY <2>2, <2>3, <3>1
  <2>5. c.page # NoCursor => NotAfter(SnapshotOf(c.page), horizon[f])
    BY <2>1, <2>2 DEF HorizonOK, ReplyBehind
  <2>6. c.sync # NoCursor => NotAfter(c.sync, horizon[f])
    BY <2>1, <2>2 DEF HorizonOK, ReplyBehind
  <2> QED BY <1>2, <1>3, <2>4, <2>5, <2>6 DEF HorizonOK
<1>5. \A k \in Kinds : \A n \in 1..Len(c[k].reply.items) : CopyOK(f, c[k].reply.items[n])
  BY <1>1, QuietIs DEF FeedOK, CopiesOK
<1>6. FeedOK(f)' => SyncInv'
  BY <1>1, OneFeed DEF SyncTypeOK, serverVars
<1> QED BY <1>2, <1>3, <1>4, <1>5, <1>6

LEMMA ApplyListStep ==
  ASSUME SyncInv, NEW f \in Feeds, ApplyList(f)
  PROVE  SyncInv'
<1>1. SyncTypeOK /\ FeedOK(f)
  BY DEF SyncInv
<1>2. PICK b \in Browsers(f) : b = client[f]
  BY <1>1, BrowserIs
<1>3. PICK r \in Replies(f) : r = b.list.reply
  BY <1>1, <1>2, BrowserIs DEF Asked
<1>4. PICK u : u = Upsert(NoView, r.items)
  OBVIOUS
<1>5. PICK out : out = Outstanding(b, r.sync)
  OBVIOUS
<1> DEFINE c == [b EXCEPT !.view = u, !.page = r.next, !.sync = r.sync, !.ready = TRUE,
                          !.list = Quiet, !.crossed = {}, !.stale = out]
<1>6. /\ b.list.step = "read" /\ Set(f, c) /\ UNCHANGED <<serverVars, horizon, late>>
      /\ caught' = [caught EXCEPT ![f] = FALSE]
  BY <1>2, <1>3, <1>4, <1>5 DEF ApplyList
<1>7. /\ DOMAIN caught' = Feeds /\ caught'[f] = FALSE /\ \A g \in Feeds \ {f} : caught'[g] = caught[g]
  BY <1>1, <1>6 DEF SyncTypeOK
<1>8. /\ u \in [Ids -> Copies(f) \cup {NoRow}]
      /\ \A i \in Ids : u[i] # NoRow => u[i].id = i /\ CopyOK(f, u[i])
      /\ \A i \in Owed(f) : In(f, r.items, i) => u[i] = Projection(f, i)
  <2>1. NoView \in [Ids -> Copies(f) \cup {NoRow}] /\ \A i \in Ids : NoView[i] = NoRow
    BY DEF NoView
  <2>2. r.items \in Seq(Copies(f)) /\ \A n \in 1..Len(r.items) : CopyOK(f, r.items[n])
    BY <1>1, <1>2, <1>3 DEF Replies, FeedOK, CopiesOK, Kinds
  <2> QED BY <1>1, <1>4, <2>1, <2>2, UpsertShows
<1>9. out \subseteq {"more", "poll"}
  BY <1>5 DEF Outstanding
<1>10. /\ c.view = u /\ c.page = r.next /\ c.sync = r.sync /\ c.ready = TRUE /\ c.list = Quiet
       /\ c.more = b.more /\ c.poll = b.poll /\ c.one = b.one /\ c.crossed = {} /\ c.stale = out
  BY DEF Browsers
<1>11. c \in Browsers(f)
  BY <1>8, <1>9, QuietIs DEF Browsers, Replies
<1> HIDE DEF c
<1>12. /\ RowsStay(f) /\ client'[f] = c /\ HorizonOK(f)'
       /\ \A k \in Kinds : \A n \in 1..Len(c[k].reply.items) : CopyOK(f, c[k].reply.items[n])
       /\ FeedOK(f)' => SyncInv'
  <2>1. \A k \in Kinds : c[k].reply = NoReply \/ c[k].reply = client[f][k].reply
    BY <1>2, <1>10, QuietIs DEF Kinds
  <2>2. "list" \in Kinds /\ c.page = client[f]["list"].reply.next /\ c.sync = client[f]["list"].reply.sync
    BY <1>2, <1>3, <1>10 DEF Kinds
  <2>3. /\ \E k \in Kinds : c.page = client[f][k].reply.next
        /\ \E k \in Kinds : c.sync = client[f][k].reply.sync
    BY <2>2, Zenon
  <2>4. DOMAIN caught' = Feeds /\ \A g \in Feeds \ {f} : caught'[g] = caught[g]
    BY <1>7
  <2>5. Set(f, c) /\ UNCHANGED <<serverVars, horizon, late>>
    BY <1>6
  <2> QED BY <1>11, <2>1, <2>3, <2>4, <2>5, BrowserAlone
<1>13. CopiesOK(f)'
  BY <1>1, <1>2, <1>8, <1>10, <1>12, SameRows DEF FeedOK, CopiesOK
<1>14. r.sync # NoCursor
  BY <1>1, <1>2, <1>3, <1>6 DEF FeedOK, StepsOK, Kinds
<1>15. StepsOK(f)'
  BY <1>1, <1>2, <1>10, <1>12, <1>14, QuietIs DEF FeedOK, StepsOK, Kinds
<1>16. ListOK(f)' /\ CaughtOK(f)'
  BY <1>7, <1>10, <1>12, QuietIs DEF ListOK, CaughtOK
<1>17. ViewOK(f)'
  <2>1. \A i \in Owed(f) : u[i] = Projection(f, i) \/ Due(f, r.sync, i) \/ Remains(f, r.next, i)
    BY <1>1, <1>2, <1>3, <1>6, <1>8 DEF FeedOK, ListOK
  <2> QED BY <1>10, <1>12, <2>1, SameRows DEF ViewOK
<1>18. /\ c.more.step = "read" => "more" \in c.stale
       /\ c.poll.step # "idle" /\ "poll" \notin c.stale => NotAfter(c.poll.cursor, c.sync)
  BY <1>5, <1>10 DEF Outstanding, NotAfter
<1>19. MoreOK(f)'
  BY <1>12, <1>18 DEF MoreOK
<1>20. PollOK(f)'
  BY <1>1, <1>2, <1>10, <1>12, <1>18, SameRows DEF FeedOK, PollOK
<1> QED BY <1>12, <1>13, <1>15, <1>16, <1>17, <1>19, <1>20 DEF FeedOK

LEMMA ApplyMoreStep ==
  ASSUME SyncInv, NEW f \in Feeds, ApplyMore(f)
  PROVE  SyncInv'
<1>1. SyncTypeOK /\ FeedOK(f)
  BY DEF SyncInv
<1>2. PICK b \in Browsers(f) : b = client[f]
  BY <1>1, BrowserIs
<1>3. PICK r \in Replies(f) : r = b.more.reply
  BY <1>1, <1>2, BrowserIs DEF Asked
<1>4. PICK u : u = Upsert(b.view, r.items)
  OBVIOUS
<1> DEFINE c == [b EXCEPT !.crossed = b.crossed \cup (b.stale \cap {"more"}),
                          !.stale = b.stale \ {"more"},
                          !.view = u, !.page = r.next, !.more = Quiet]
<1>5. /\ b.more.step = "read" /\ Set(f, c) /\ UNCHANGED <<serverVars, horizon, late, caught>>
  <2>1. c = [Crossed(b, "more") EXCEPT !.view = Upsert(@, r.items), !.page = r.next, !.more = Quiet]
    BY <1>4 DEF Crossed, Browsers
  <2> HIDE DEF c
  <2> QED BY <1>2, <1>3, <2>1 DEF ApplyMore
<1>6. DOMAIN caught' = Feeds /\ caught' = caught
  BY <1>1, <1>5 DEF SyncTypeOK
<1>7. /\ u \in [Ids -> Copies(f) \cup {NoRow}]
      /\ \A i \in Ids : u[i] # NoRow => u[i].id = i /\ CopyOK(f, u[i])
      /\ \A i \in Owed(f) : b.view[i] = Projection(f, i) \/ In(f, r.items, i) => u[i] = Projection(f, i)
  <2>1. b.view \in [Ids -> Copies(f) \cup {NoRow}]
    BY DEF Browsers
  <2>2. r.items \in Seq(Copies(f)) /\ \A n \in 1..Len(r.items) : CopyOK(f, r.items[n])
    BY <1>1, <1>2, <1>3 DEF Replies, FeedOK, CopiesOK, Kinds
  <2>3. \A i \in Ids : b.view[i] # NoRow => b.view[i].id = i /\ CopyOK(f, b.view[i])
    BY <1>1, <1>2 DEF FeedOK, CopiesOK
  <2> QED BY <1>1, <1>4, <2>1, <2>2, <2>3, UpsertShows
<1>8. /\ c.view = u /\ c.page = r.next /\ c.sync = b.sync /\ c.ready = b.ready /\ c.list = b.list
      /\ c.more = Quiet /\ c.poll = b.poll /\ c.one = b.one
      /\ c.crossed = b.crossed \cup (b.stale \cap {"more"}) /\ c.stale = b.stale \ {"more"}
  BY DEF Browsers
<1>9. c \in Browsers(f)
  BY <1>7, QuietIs DEF Browsers, Replies
<1> HIDE DEF c
<1>10. /\ RowsStay(f) /\ client'[f] = c /\ HorizonOK(f)'
       /\ \A k \in Kinds : \A n \in 1..Len(c[k].reply.items) : CopyOK(f, c[k].reply.items[n])
       /\ FeedOK(f)' => SyncInv'
  <2>1. \A k \in Kinds : c[k].reply = NoReply \/ c[k].reply = client[f][k].reply
    BY <1>2, <1>8, QuietIs DEF Kinds
  <2>2. "more" \in Kinds /\ c.page = client[f]["more"].reply.next /\ c.sync = client[f].sync
    BY <1>2, <1>3, <1>8 DEF Kinds
  <2> QED BY <1>5, <1>6, <1>9, <2>1, <2>2, BrowserAlone
<1>11. CopiesOK(f)'
  BY <1>1, <1>2, <1>7, <1>8, <1>10, SameRows DEF FeedOK, CopiesOK
<1>12. StepsOK(f)'
  BY <1>1, <1>2, <1>8, <1>10, QuietIs DEF FeedOK, StepsOK, Kinds
<1>13. ListOK(f)'
  BY <1>1, <1>2, <1>8, <1>10, SameRows DEF FeedOK, ListOK
<1>14. c.crossed = {} => b.crossed = {} /\ "more" \notin b.stale
  BY <1>8
<1>15. ViewOK(f)'
  <2>1. ASSUME c.ready, c.crossed = {}, NEW i \in Owed(f)
        PROVE  u[i] = Projection(f, i) \/ Due(f, c.sync, i) \/ Remains(f, r.next, i)
    <3>1. \/ b.view[i] = Projection(f, i) \/ Due(f, b.sync, i)
          \/ In(f, r.items, i) \/ Remains(f, r.next, i)
      BY <1>1, <1>2, <1>3, <1>5, <1>8, <1>14, <2>1 DEF FeedOK, MoreOK
    <3> QED BY <1>7, <1>8, <3>1
  <2> QED BY <1>8, <1>10, <2>1, SameRows DEF ViewOK
<1>16. MoreOK(f)'
  BY <1>8, <1>10, QuietIs DEF MoreOK
<1>17. PollOK(f)'
  BY <1>1, <1>2, <1>8, <1>10, <1>14, SameRows DEF FeedOK, PollOK
<1>18. CaughtOK(f)'
  BY <1>1, <1>2, <1>6, <1>8, <1>10, SameRows DEF FeedOK, CaughtOK
<1> QED BY <1>10, <1>11, <1>12, <1>13, <1>15, <1>16, <1>17, <1>18 DEF FeedOK

LEMMA ApplyPollStep ==
  ASSUME SyncInv, NEW f \in Feeds, ApplyPoll(f)
  PROVE  SyncInv'
<1>1. SyncTypeOK /\ FeedOK(f)
  BY DEF SyncInv
<1>2. PICK b \in Browsers(f) : b = client[f]
  BY <1>1, BrowserIs
<1>3. PICK r \in Replies(f) : r = b.poll.reply
  BY <1>1, <1>2, BrowserIs DEF Asked
<1>4. PICK u : u = Upsert(b.view, r.items)
  OBVIOUS
<1>5. PICK q : q = IF r.more THEN [Quiet EXCEPT !.step = "sent", !.cursor = r.sync] ELSE Quiet
  OBVIOUS
<1> DEFINE c == [b EXCEPT !.crossed = b.crossed \cup (b.stale \cap {"poll"}),
                          !.stale = b.stale \ {"poll"},
                          !.view = u, !.sync = r.sync, !.poll = q]
<1>6. /\ b.poll.step = "read" /\ Set(f, c) /\ UNCHANGED <<serverVars, horizon, late, caught>>
  <2>1. c = [Crossed(b, "poll") EXCEPT !.view = Upsert(@, r.items), !.sync = r.sync, !.poll = q]
    BY <1>4 DEF Crossed, Browsers
  <2> HIDE DEF c
  <2> QED BY <1>2, <1>3, <1>5, <2>1 DEF ApplyPoll
<1>7. DOMAIN caught' = Feeds /\ caught' = caught
  BY <1>1, <1>6 DEF SyncTypeOK
<1>8. r.sync # NoCursor /\ r.sync \in Cursors
  BY <1>1, <1>2, <1>3, <1>6 DEF FeedOK, StepsOK, Kinds, Replies
<1>9. /\ q \in Asked(f, Cursors) /\ q.reply = NoReply
      /\ r.more => q.step = "sent" /\ q.cursor = r.sync
      /\ ~r.more => q.step = "idle"
  <2>1. NoReply \in Replies(f)
    BY QuietIs
  <2>2. CASE r.more
    <3>1. q = [step |-> "sent", cursor |-> r.sync, reply |-> NoReply]
      BY <1>5, <2>2 DEF Quiet
    <3> QED BY <1>8, <2>1, <2>2, <3>1 DEF Asked
  <2>3. CASE ~r.more
    BY <1>5, <2>3, QuietIs
  <2> QED BY <2>2, <2>3
<1>10. /\ u \in [Ids -> Copies(f) \cup {NoRow}]
       /\ \A i \in Ids : u[i] # NoRow => u[i].id = i /\ CopyOK(f, u[i])
       /\ \A i \in Owed(f) : b.view[i] = Projection(f, i) \/ In(f, r.items, i) => u[i] = Projection(f, i)
  <2>1. b.view \in [Ids -> Copies(f) \cup {NoRow}]
    BY DEF Browsers
  <2>2. r.items \in Seq(Copies(f)) /\ \A n \in 1..Len(r.items) : CopyOK(f, r.items[n])
    BY <1>1, <1>2, <1>3 DEF Replies, FeedOK, CopiesOK, Kinds
  <2>3. \A i \in Ids : b.view[i] # NoRow => b.view[i].id = i /\ CopyOK(f, b.view[i])
    BY <1>1, <1>2 DEF FeedOK, CopiesOK
  <2> QED BY <1>1, <1>4, <2>1, <2>2, <2>3, UpsertShows
<1>11. /\ c.view = u /\ c.page = b.page /\ c.sync = r.sync /\ c.ready = b.ready /\ c.list = b.list
       /\ c.more = b.more /\ c.poll = q /\ c.one = b.one
       /\ c.crossed = b.crossed \cup (b.stale \cap {"poll"}) /\ c.stale = b.stale \ {"poll"}
  BY DEF Browsers
<1>12. c \in Browsers(f)
  BY <1>8, <1>9, <1>10 DEF Browsers
<1> HIDE DEF c
<1>13. /\ RowsStay(f) /\ client'[f] = c /\ HorizonOK(f)'
       /\ \A k \in Kinds : \A n \in 1..Len(c[k].reply.items) : CopyOK(f, c[k].reply.items[n])
       /\ FeedOK(f)' => SyncInv'
  <2>1. \A k \in Kinds : c[k].reply = NoReply \/ c[k].reply = client[f][k].reply
    BY <1>2, <1>9, <1>11 DEF Kinds
  <2>2. "poll" \in Kinds /\ c.page = client[f].page /\ c.sync = client[f]["poll"].reply.sync
    BY <1>2, <1>3, <1>11 DEF Kinds
  <2> QED BY <1>6, <1>7, <1>12, <2>1, <2>2, BrowserAlone
<1>14. CopiesOK(f)'
  BY <1>1, <1>2, <1>10, <1>11, <1>13, SameRows DEF FeedOK, CopiesOK
<1>15. StepsOK(f)'
  BY <1>1, <1>2, <1>8, <1>9, <1>11, <1>13 DEF FeedOK, StepsOK, Kinds
<1>16. ListOK(f)'
  BY <1>1, <1>2, <1>11, <1>13, SameRows DEF FeedOK, ListOK
<1>17. c.crossed = {} => b.crossed = {} /\ "poll" \notin b.stale
  BY <1>11
<1>18. ASSUME c.ready, c.crossed = {}, NEW i \in Owed(f), Due(f, b.sync, i)
       PROVE  u[i] = Projection(f, i) \/ Due(f, r.sync, i)
  <2>1. i \in Ids /\ i \in Nat /\ Key(f, rows[f][i]) \in Nat
    BY <1>1, ProjectionIs, NumbersAre DEF Owed, Visible
  <2>2. NotAfter(b.poll.cursor, b.sync)
    BY <1>1, <1>2, <1>6, <1>11, <1>17, <1>18 DEF FeedOK, PollOK
  <2>3. b.poll.cursor \in Cursors
    BY <1>1, <1>2, <1>6, BrowserIs DEF FeedOK, StepsOK, Asked
  <2>4. b.sync \in Cursors
    BY <1>1, <1>2, <1>11, <1>18, BrowserIs DEF FeedOK, StepsOK
  <2>5. Due(f, b.poll.cursor, i)
    BY <1>18, <2>1, <2>2, <2>3, <2>4, AfterEarlier DEF Due
  <2>6. In(f, r.items, i) \/ Due(f, r.sync, i)
    BY <1>1, <1>2, <1>3, <1>6, <2>5 DEF FeedOK, PollOK
  <2> QED BY <1>10, <2>6
<1>19. ViewOK(f)'
  <2>1. ASSUME c.ready, c.crossed = {}, NEW i \in Owed(f)
        PROVE  u[i] = Projection(f, i) \/ Due(f, r.sync, i) \/ Remains(f, b.page, i)
    <3>1. b.view[i] = Projection(f, i) \/ Due(f, b.sync, i) \/ Remains(f, b.page, i)
      BY <1>1, <1>2, <1>11, <1>17, <2>1 DEF FeedOK, ViewOK
    <3> QED BY <1>10, <1>18, <2>1, <3>1
  <2> QED BY <1>11, <1>13, <2>1, SameRows DEF ViewOK
<1>20. MoreOK(f)'
  <2>1. ASSUME c.ready, c.crossed = {}, b.more.step = "read", "more" \notin c.stale, NEW i \in Owed(f)
        PROVE  \/ u[i] = Projection(f, i) \/ Due(f, r.sync, i)
               \/ In(f, b.more.reply.items, i) \/ Remains(f, b.more.reply.next, i)
    <3>1. \/ b.view[i] = Projection(f, i) \/ Due(f, b.sync, i)
          \/ In(f, b.more.reply.items, i) \/ Remains(f, b.more.reply.next, i)
      BY <1>1, <1>2, <1>11, <1>17, <2>1 DEF FeedOK, MoreOK
    <3> QED BY <1>10, <1>18, <2>1, <3>1
  <2> QED BY <1>11, <1>13, <2>1, SameRows DEF MoreOK
<1>21. PollOK(f)'
  <2>1. NotAfter(r.sync, r.sync)
    BY <1>8, CursorsOrder
  <2> QED BY <1>9, <1>11, <1>13, <2>1 DEF PollOK
<1>22. CaughtOK(f)'
  <2>1. caught[f] => ~r.more /\ NothingDue(f, r.sync)
    BY <1>1, <1>2, <1>3, <1>6 DEF FeedOK, CaughtOK
  <2> QED BY <1>7, <1>9, <1>11, <1>13, <2>1, SameRows DEF CaughtOK
<1> QED BY <1>13, <1>14, <1>15, <1>16, <1>19, <1>20, <1>21, <1>22 DEF FeedOK

\* What a step leaves right that changes nothing but the view or the single row.
LEMMA RequestsStay ==
  ASSUME SyncInv, NEW f \in Feeds, NEW c \in Browsers(f), Set(f, c),
         UNCHANGED <<serverVars, horizon, late, caught>>,
         \A k \in Kinds : c[k] = client[f][k],
         c.page = client[f].page, c.sync = client[f].sync, c.ready = client[f].ready,
         c.crossed = client[f].crossed, c.stale = client[f].stale,
         \A i \in Ids : c.view[i] # NoRow => c.view[i].id = i /\ CopyOK(f, c.view[i]),
         \A i \in Owed(f) : client[f].view[i] = Projection(f, i) => c.view[i] = Projection(f, i),
         c.one # NoRow => CopyOK(f, c.one)
  PROVE  SyncInv'
<1>1. SyncTypeOK /\ FeedOK(f) /\ "list" \in Kinds /\ "more" \in Kinds /\ "poll" \in Kinds
  BY DEF SyncInv, Kinds
<1>2. c.list = client[f].list /\ c.more = client[f].more /\ c.poll = client[f].poll
  BY <1>1, Zenon
<1>3. caught' = caught /\ DOMAIN caught' = Feeds
  BY <1>1 DEF SyncTypeOK
<1>4. /\ RowsStay(f) /\ client'[f] = c /\ HorizonOK(f)'
      /\ \A k \in Kinds : \A n \in 1..Len(c[k].reply.items) : CopyOK(f, c[k].reply.items[n])
      /\ FeedOK(f)' => SyncInv'
  <2>1. UNCHANGED <<serverVars, horizon, late>>
    OBVIOUS
  <2> QED BY <1>3, <2>1, BrowserAlone
<1>5. CopiesOK(f)'
  BY <1>4, SameRows DEF CopiesOK
<1>6. StepsOK(f)'
  BY <1>1, <1>2, <1>4 DEF FeedOK, StepsOK, Kinds
<1>7. ListOK(f)'
  BY <1>1, <1>2, <1>4, SameRows DEF FeedOK, ListOK
<1>8. ViewOK(f)'
  BY <1>1, <1>4, SameRows DEF FeedOK, ViewOK
<1>9. MoreOK(f)'
  BY <1>1, <1>2, <1>4, SameRows DEF FeedOK, MoreOK
<1>10. PollOK(f)'
  BY <1>1, <1>2, <1>4, SameRows DEF FeedOK, PollOK
<1>11. CaughtOK(f)'
  BY <1>1, <1>2, <1>3, <1>4, SameRows DEF FeedOK, CaughtOK
<1> QED BY <1>4, <1>5, <1>6, <1>7, <1>8, <1>9, <1>10, <1>11 DEF FeedOK

LEMMA ReadOneStep ==
  ASSUME SyncInv, NEW f \in Feeds, NEW i \in Ids, ReadOne(f, i)
  PROVE  SyncInv'
<1>1. SyncTypeOK /\ FeedOK(f) /\ client[f] \in Browsers(f)
  BY BrowserIs DEF SyncInv
<1>2. PICK x : x = Projection(f, i)
  OBVIOUS
<1>3. rows[f][i] # NoRow /\ x \in Copies(f) /\ x.id = i
  BY <1>1, <1>2, ProjectionIs DEF ReadOne, Visible
<1>4. CopyOK(f, x)
  BY <1>2, <1>3 DEF CopyOK
<1> DEFINE c == [client[f] EXCEPT !.one = x]
<1>5. Set(f, c) /\ UNCHANGED <<serverVars, horizon, late, caught>>
  BY <1>2 DEF ReadOne
<1>6. /\ c \in Browsers(f) /\ \A k \in Kinds : c[k] = client[f][k]
      /\ c.page = client[f].page /\ c.sync = client[f].sync /\ c.ready = client[f].ready
      /\ c.crossed = client[f].crossed /\ c.stale = client[f].stale
      /\ c.view = client[f].view /\ c.one = x
  BY <1>1, <1>3 DEF Browsers, Kinds
<1> HIDE DEF c
<1>7. \A j \in Ids : c.view[j] # NoRow => c.view[j].id = j /\ CopyOK(f, c.view[j])
  BY <1>1, <1>6 DEF FeedOK, CopiesOK
<1> QED BY <1>4, <1>5, <1>6, <1>7, RequestsStay

LEMMA ApplyOneStep ==
  ASSUME SyncInv, NEW f \in Feeds, ApplyOne(f)
  PROVE  SyncInv'
<1>1. SyncTypeOK /\ FeedOK(f) /\ client[f] \in Browsers(f)
  BY BrowserIs DEF SyncInv
<1>2. client[f].one \in Copies(f) /\ CopyOK(f, client[f].one)
  BY <1>1, BrowserIs DEF ApplyOne, FeedOK, CopiesOK
<1>3. PICK u : u = Upsert(client[f].view, <<client[f].one>>)
  OBVIOUS
<1>4. /\ u \in [Ids -> Copies(f) \cup {NoRow}]
      /\ \A i \in Ids : u[i] # NoRow => u[i].id = i /\ CopyOK(f, u[i])
      /\ \A i \in Owed(f) : client[f].view[i] = Projection(f, i) => u[i] = Projection(f, i)
  <2> DEFINE items == <<client[f].one>>
  <2>1. items \in Seq(Copies(f)) /\ Len(items) = 1 /\ items[1] = client[f].one
    BY <1>2
  <2> HIDE DEF items
  <2>2. \A n \in 1..Len(items) : CopyOK(f, items[n])
    <3> TAKE n \in 1..Len(items)
    <3>1. n = 1
      BY <2>1
    <3> QED BY <1>2, <2>1, <3>1
  <2>3. client[f].view \in [Ids -> Copies(f) \cup {NoRow}]
    BY <1>1, BrowserIs
  <2>4. \A i \in Ids : client[f].view[i] # NoRow =>
          client[f].view[i].id = i /\ CopyOK(f, client[f].view[i])
    BY <1>1 DEF FeedOK, CopiesOK
  <2>5. u = Upsert(client[f].view, items)
    BY <1>3 DEF items
  <2> QED BY <1>1, <2>1, <2>2, <2>3, <2>4, <2>5, UpsertShows
<1> DEFINE c == [client[f] EXCEPT !.view = u, !.one = NoRow]
<1>5. Set(f, c) /\ UNCHANGED <<serverVars, horizon, late, caught>>
  <2>1. c = [client[f] EXCEPT !.view = Upsert(@, <<client[f].one>>), !.one = NoRow]
    BY <1>1, <1>3 DEF Browsers
  <2> HIDE DEF c
  <2> QED BY <2>1 DEF ApplyOne
<1>6. /\ c \in Browsers(f) /\ \A k \in Kinds : c[k] = client[f][k]
      /\ c.page = client[f].page /\ c.sync = client[f].sync /\ c.ready = client[f].ready
      /\ c.crossed = client[f].crossed /\ c.stale = client[f].stale
      /\ c.view = u /\ c.one = NoRow
  BY <1>1, <1>4 DEF Browsers, Kinds
<1> HIDE DEF c
<1> QED BY <1>4, <1>5, <1>6, RequestsStay

LEMMA LoseStep ==
  ASSUME SyncInv, NEW f \in Feeds, NEW kind \in Kinds, Lose(f, kind)
  PROVE  SyncInv'
<1>1. SyncTypeOK /\ FeedOK(f)
  BY DEF SyncInv
<1>2. PICK b \in Browsers(f) : b = client[f]
  BY <1>1, BrowserIs
<1> DEFINE c == [b EXCEPT ![kind] = Quiet, !.stale = b.stale \ {kind}]
<1>3. /\ Set(f, c) /\ UNCHANGED <<serverVars, horizon, late>>
      /\ caught' = [caught EXCEPT ![f] = FALSE]
  <2>1. c = [b EXCEPT ![kind] = Quiet, !.stale = @ \ {kind}]
    BY DEF Kinds, Browsers
  <2> HIDE DEF c
  <2> QED BY <1>2, <2>1 DEF Lose
<1>4. /\ DOMAIN caught' = Feeds /\ caught'[f] = FALSE /\ \A g \in Feeds \ {f} : caught'[g] = caught[g]
  BY <1>1, <1>3 DEF SyncTypeOK
<1>5. /\ c.view = b.view /\ c.page = b.page /\ c.sync = b.sync /\ c.ready = b.ready
      /\ c[kind] = Quiet /\ \A k \in Kinds \ {kind} : c[k] = b[k]
      /\ c.one = b.one /\ c.crossed = b.crossed /\ c.stale = b.stale \ {kind}
  BY DEF Browsers, Kinds
<1>6. c \in Browsers(f)
  <2>1. CASE kind = "list"
    BY <2>1, QuietIs DEF Browsers
  <2>2. CASE kind = "more"
    BY <2>2, QuietIs DEF Browsers
  <2>3. CASE kind = "poll"
    BY <2>3, QuietIs DEF Browsers
  <2> QED BY <2>1, <2>2, <2>3 DEF Kinds
<1> HIDE DEF c
<1>7. /\ RowsStay(f) /\ client'[f] = c /\ HorizonOK(f)'
      /\ \A k \in Kinds : \A n \in 1..Len(c[k].reply.items) : CopyOK(f, c[k].reply.items[n])
      /\ FeedOK(f)' => SyncInv'
  <2>1. \A k \in Kinds : c[k].reply = NoReply \/ c[k].reply = client[f][k].reply
    BY <1>2, <1>5, QuietIs
  <2> QED BY <1>2, <1>3, <1>4, <1>5, <1>6, <2>1, BrowserAlone
<1>8. \A k \in Kinds : c[k] = Quiet \/ (c[k] = b[k] /\ k # kind)
  BY <1>5
<1>9. /\ c.list = Quiet \/ c.list = b.list
      /\ c.more = Quiet \/ (c.more = b.more /\ ("more" \notin c.stale => "more" \notin b.stale))
      /\ c.poll = Quiet \/ (c.poll = b.poll /\ ("poll" \notin c.stale => "poll" \notin b.stale))
  <2>1. "list" \in Kinds /\ "more" \in Kinds /\ "poll" \in Kinds
    BY DEF Kinds
  <2>2. c["list"] = Quiet \/ c["list"] = b["list"]
    BY <1>8, <2>1
  <2>3. c["more"] = Quiet \/ (c["more"] = b["more"] /\ ("more" \notin c.stale => "more" \notin b.stale))
    BY <1>5, <1>8, <2>1
  <2>4. c["poll"] = Quiet \/ (c["poll"] = b["poll"] /\ ("poll" \notin c.stale => "poll" \notin b.stale))
    BY <1>5, <1>8, <2>1
  <2> QED BY <2>2, <2>3, <2>4
<1>10. CopiesOK(f)'
  BY <1>1, <1>2, <1>5, <1>7, SameRows DEF FeedOK, CopiesOK
<1>11. StepsOK(f)'
  <2>1. \A k \in Kinds : c[k].step = "read" => c[k].reply.sync # NoCursor
    BY <1>1, <1>2, <1>8, QuietIs DEF FeedOK, StepsOK
  <2> QED BY <1>1, <1>2, <1>5, <1>7, <1>9, <2>1, QuietIs DEF FeedOK, StepsOK
<1>12. ListOK(f)'
  BY <1>1, <1>2, <1>7, <1>9, QuietIs, SameRows DEF FeedOK, ListOK
<1>13. ViewOK(f)'
  BY <1>1, <1>2, <1>5, <1>7, SameRows DEF FeedOK, ViewOK
<1>14. MoreOK(f)'
  BY <1>1, <1>2, <1>5, <1>7, <1>9, QuietIs, SameRows DEF FeedOK, MoreOK
<1>15. PollOK(f)'
  BY <1>1, <1>2, <1>5, <1>7, <1>9, QuietIs, SameRows DEF FeedOK, PollOK
<1>16. CaughtOK(f)'
  BY <1>4 DEF CaughtOK
<1> QED BY <1>7, <1>10, <1>11, <1>12, <1>13, <1>14, <1>15, <1>16 DEF FeedOK

-----------------------------------------------------------------------------
(* Commits.                                                                *)

\* A row that is committed with a key after the horizon, and after those of the
\* copies at the browser, is due after every cursor that was handed out.
LEMMA CommittedStep ==
  ASSUME SyncInv, NEW f \in Feeds, NEW t \in Transactions, NEW S \in SUBSET Ids,
         NEW new, \A i \in S : new[i] \in Rows(f), Committed(t, f, S, new)
  PROVE  SyncInv'
<1>1. SyncTypeOK /\ FeedOK(f) /\ client[f] \in Browsers(f) /\ horizon[f] \in Cursors
  BY BrowserIs DEF SyncInv
<1> DEFINE row == [i \in Ids |-> IF i \in S THEN new[i] ELSE rows[f][i]]
           missed == (late[f] \ S) \cup {i \in S : Behind(f, i, Key(f, new[i]))}
<1>2. /\ open' \in [Transactions -> Nat] /\ UNCHANGED <<clock, client, horizon>>
      /\ rows' = [rows EXCEPT ![f] = row] /\ late' = [late EXCEPT ![f] = missed]
      /\ caught' = [caught EXCEPT ![f] = FALSE]
  BY <1>1 DEF Committed, SyncTypeOK
<1>3. /\ \A i \in Ids : row[i] = IF i \in S THEN new[i] ELSE rows[f][i]
      /\ row \in [Ids -> Rows(f) \cup {NoRow}]
  BY <1>1 DEF SyncTypeOK
<1>4. \A i : i \in missed <=> (i \in late[f] /\ i \notin S) \/ (i \in S /\ Behind(f, i, Key(f, new[i])))
  OBVIOUS
<1> HIDE DEF row, missed
<1>5. /\ rows'[f] = row /\ late'[f] = missed /\ caught'[f] = FALSE
      /\ DOMAIN rows' = Feeds /\ DOMAIN late' = Feeds /\ DOMAIN caught' = Feeds
      /\ \A g \in Feeds \ {f} : rows'[g] = rows[g] /\ late'[g] = late[g] /\ caught'[g] = caught[g]
  BY <1>1, <1>2 DEF SyncTypeOK
<1>6. \A g \in Feeds \ {f} : FeedOK(g)'
  <2>1. \A g \in Feeds \ {f} : FeedStays(g)
    BY <1>2, <1>5 DEF FeedStays, RowsStay
  <2> QED BY <2>1, OtherFeed DEF SyncInv
<1>7. SyncTypeOK'
  <2>1. \A g \in Feeds : rows'[g] \in [Ids -> Rows(g) \cup {NoRow}]
    BY <1>1, <1>3, <1>5 DEF SyncTypeOK
  <2> QED BY <1>1, <1>2, <1>5, <2>1 DEF SyncTypeOK
<1>8. ASSUME NEW i \in S
      PROVE  i \in Ids /\ i \in Nat /\ rows'[f][i] = new[i] /\ new[i] # NoRow /\ Key(f, new[i]) \in Nat
  BY <1>3, <1>5, KeyIsNat, NumbersAre, SyncAssumption
<1>9. ASSUME NEW i \in S, i \notin late'[f]
      PROVE  /\ AfterChange(horizon[f], Key(f, new[i]), i)
             /\ \A x \in {client[f].view[i], client[f].one} :
                  x # NoRow /\ x.id = i => ~(x.key >= Key(f, new[i]))
  BY <1>4, <1>5, <1>9 DEF Behind
<1>10. ASSUME NEW i \in Ids \ S
       PROVE  /\ rows'[f][i] = rows[f][i] /\ (i \in late'[f] <=> i \in late[f])
              /\ (Visible(f, i)' <=> Visible(f, i)) /\ Projection(f, i)' = Projection(f, i)
              /\ (i \in Owed(f)' <=> i \in Owed(f))
              /\ \A cursor : Due(f, cursor, i)' <=> Due(f, cursor, i)
              /\ \A items : In(f, items, i)' <=> In(f, items, i)
              /\ \A next : Remains(f, next, i)' <=> Remains(f, next, i)
  <2>1. rows'[f][i] = rows[f][i] /\ (i \in late'[f] <=> i \in late[f])
    BY <1>3, <1>4, <1>5
  <2>2. (Visible(f, i)' <=> Visible(f, i)) /\ Projection(f, i)' = Projection(f, i)
    BY <2>1 DEF Visible, Projection
  <2>3. i \in Owed(f)' <=> i \in Owed(f)
    BY <2>1, <2>2 DEF Owed
  <2>4. \A cursor : Due(f, cursor, i)' <=> Due(f, cursor, i)
    BY <2>1 DEF Due
  <2>5. \A items : In(f, items, i)' <=> In(f, items, i)
    BY <2>2 DEF In
  <2>6. \A next : Remains(f, next, i)' <=> Remains(f, next, i)
    BY <2>1, <2>2 DEF Remains
  <2> QED BY <2>1, <2>2, <2>3, <2>4, <2>5, <2>6
<1>11. ASSUME NEW i \in Owed(f)', i \in S, NEW cursor \in Cursors, NotAfter(cursor, horizon[f])
       PROVE  Due(f, cursor, i)'
  <2>1. i \notin late'[f]
    BY DEF Owed
  <2> QED BY <1>1, <1>8, <1>9, <1>11, <2>1, AfterEarlier DEF Due
<1>12. ASSUME NEW x \in Copies(f), CopyOK(f, x),
              \/ x \in {client[f].view[x.id], client[f].one}
              \/ NotAfter([time |-> x.key, id |-> x.id], horizon[f])
       PROVE  CopyOK(f, x)'
  <2>1. x.id \in Ids /\ x.id \in Nat /\ x.key \in Nat /\ x # NoRow
    BY NumbersAre, SyncAssumption DEF Copies
  <2>2. CASE x.id \notin S
    BY <1>10, <1>12, <2>1, <2>2 DEF CopyOK
  <2>3. CASE x.id \in S
    <3>1. rows'[f][x.id] = new[x.id] /\ rows'[f][x.id] # NoRow /\ Key(f, new[x.id]) \in Nat
      BY <1>8, <2>3
    <3>2. SUFFICES ASSUME x.id \notin late'[f] PROVE x.key < Key(f, new[x.id])
      BY <3>1 DEF CopyOK
    <3>3. CASE x \in {client[f].view[x.id], client[f].one}
      BY <1>9, <2>1, <2>3, <3>1, <3>2, <3>3
    <3>4. CASE NotAfter([time |-> x.key, id |-> x.id], horizon[f])
      <4>1. AfterChange(horizon[f], Key(f, new[x.id]), x.id)
        BY <1>9, <2>3, <3>2
      <4> QED BY <1>1, <2>1, <3>1, <3>4, <4>1 DEF NotAfter, AfterChange, Cursors
    <3> QED BY <1>12, <3>3, <3>4
  <2> QED BY <2>2, <2>3
<1>13. CopiesOK(f)'
  <2>1. ASSUME NEW i \in Ids, client[f].view[i] # NoRow
        PROVE  client[f].view[i].id = i /\ CopyOK(f, client[f].view[i])'
    <3>1. PICK x : x = client[f].view[i]
      OBVIOUS
    <3>2. x \in Copies(f) /\ x.id = i /\ CopyOK(f, x)
      BY <1>1, <2>1, <3>1, BrowserIs DEF FeedOK, CopiesOK
    <3>3. CopyOK(f, x)'
      BY <1>12, <3>1, <3>2
    <3>4. client'[f].view[i] = x
      BY <1>2, <3>1
    <3> QED BY <3>1, <3>2, <3>3, <3>4
  <2>2. ASSUME client[f].one # NoRow
        PROVE  CopyOK(f, client[f].one)'
    <3>1. PICK x : x = client[f].one
      OBVIOUS
    <3>2. x \in Copies(f) /\ CopyOK(f, x)
      BY <1>1, <2>2, <3>1, BrowserIs DEF FeedOK, CopiesOK
    <3>3. CopyOK(f, x)'
      BY <1>12, <3>1, <3>2
    <3>4. client'[f].one = x
      BY <1>2, <3>1
    <3> QED BY <3>3, <3>4
  <2>3. ASSUME NEW k \in Kinds, NEW n \in 1..Len(client[f][k].reply.items)
        PROVE  CopyOK(f, client[f][k].reply.items[n])'
    <3>1. PICK x : x = client[f][k].reply.items[n]
      OBVIOUS
    <3>2. client[f][k].reply \in Replies(f)
      BY <1>1, BrowserIs
    <3>3. x \in Copies(f)
      BY <3>1, <3>2, ElementOfSeq DEF Replies
    <3>4. CopyOK(f, x) /\ NotAfter([time |-> x.key, id |-> x.id], horizon[f])
      BY <1>1, <3>1 DEF FeedOK, CopiesOK, HorizonOK, ReplyBehind
    <3>5. CopyOK(f, x)'
      BY <1>12, <3>3, <3>4
    <3>6. client'[f][k].reply.items[n] = x
      BY <1>2, <3>1
    <3> QED BY <3>5, <3>6
  <2> QED BY <1>2, <2>1, <2>2, <2>3 DEF CopiesOK
<1>14. HorizonOK(f)' /\ StepsOK(f)'
  <2>1. \A r : ReplyBehind(f, r)' <=> ReplyBehind(f, r)
    BY <1>2 DEF ReplyBehind
  <2>2. HorizonOK(f)'
    BY <1>1, <1>2, <2>1 DEF FeedOK, HorizonOK
  <2> QED BY <1>1, <1>2, <2>2 DEF FeedOK, StepsOK
<1>15. /\ \A k \in Kinds : client[f][k].step = "read" =>
            client[f][k].reply.sync \in Cursors /\ NotAfter(client[f][k].reply.sync, horizon[f])
       /\ client[f].ready => client[f].sync \in Cursors /\ NotAfter(client[f].sync, horizon[f])
  BY <1>1, BrowserIs DEF FeedOK, HorizonOK, StepsOK, ReplyBehind, Replies
<1>16. "list" \in Kinds /\ "poll" \in Kinds /\ \A i \in Owed(f)' : i \in Ids
  BY DEF Kinds, Owed
<1>17. ListOK(f)'
  <2>1. PICK r : r = client[f].list.reply
    OBVIOUS
  <2>2. ASSUME client[f].list.step = "read", NEW i \in Owed(f)'
        PROVE  In(f, r.items, i)' \/ Due(f, r.sync, i)' \/ Remains(f, r.next, i)'
    <3>1. CASE i \in S
      <4>1. r.sync \in Cursors /\ NotAfter(r.sync, horizon[f])
        BY <1>15, <1>16, <2>1, <2>2
      <4>2. Due(f, r.sync, i)'
        BY <1>11, <3>1, <4>1
      <4> QED BY <4>2
    <3>2. CASE i \notin S
      <4>1. i \in Owed(f)
        BY <1>10, <1>16, <3>2
      <4>2. In(f, r.items, i) \/ Due(f, r.sync, i) \/ Remains(f, r.next, i)
        BY <1>1, <2>1, <2>2, <4>1 DEF FeedOK, ListOK
      <4> QED BY <1>10, <1>16, <3>2, <4>2
    <3> QED BY <3>1, <3>2
  <2> QED BY <1>2, <2>1, <2>2 DEF ListOK
<1>18. ViewOK(f)'
  <2>1. PICK sync : sync = client[f].sync
    OBVIOUS
  <2>2. PICK page : page = client[f].page
    OBVIOUS
  <2>3. ASSUME client[f].ready, client[f].crossed = {}, NEW i \in Owed(f)'
        PROVE  client[f].view[i] = Projection(f, i)' \/ Due(f, sync, i)' \/ Remains(f, page, i)'
    <3>1. CASE i \in S
      <4>1. sync \in Cursors /\ NotAfter(sync, horizon[f])
        BY <1>15, <2>1, <2>3
      <4>2. Due(f, sync, i)'
        BY <1>11, <3>1, <4>1
      <4> QED BY <4>2
    <3>2. CASE i \notin S
      <4>1. i \in Owed(f)
        BY <1>10, <1>16, <3>2
      <4>2. client[f].view[i] = Projection(f, i) \/ Due(f, sync, i) \/ Remains(f, page, i)
        BY <1>1, <2>1, <2>2, <2>3, <4>1 DEF FeedOK, ViewOK
      <4> QED BY <1>10, <1>16, <3>2, <4>2
    <3> QED BY <3>1, <3>2
  <2> QED BY <1>2, <2>1, <2>2, <2>3 DEF ViewOK
<1>19. MoreOK(f)'
  <2>1. PICK sync : sync = client[f].sync
    OBVIOUS
  <2>2. PICK r : r = client[f].more.reply
    OBVIOUS
  <2>3. ASSUME client[f].ready, client[f].crossed = {}, client[f].more.step = "read",
               "more" \notin client[f].stale, NEW i \in Owed(f)'
        PROVE  \/ client[f].view[i] = Projection(f, i)' \/ Due(f, sync, i)'
               \/ In(f, r.items, i)' \/ Remains(f, r.next, i)'
    <3>1. CASE i \in S
      <4>1. sync \in Cursors /\ NotAfter(sync, horizon[f])
        BY <1>15, <2>1, <2>3
      <4>2. Due(f, sync, i)'
        BY <1>11, <3>1, <4>1
      <4> QED BY <4>2
    <3>2. CASE i \notin S
      <4>1. i \in Owed(f)
        BY <1>10, <1>16, <3>2
      <4>2. \/ client[f].view[i] = Projection(f, i) \/ Due(f, sync, i)
            \/ In(f, r.items, i) \/ Remains(f, r.next, i)
        BY <1>1, <2>1, <2>2, <2>3, <4>1 DEF FeedOK, MoreOK
      <4> QED BY <1>10, <1>16, <3>2, <4>2
    <3> QED BY <3>1, <3>2
  <2> QED BY <1>2, <2>1, <2>2, <2>3 DEF MoreOK
<1>20. PollOK(f)'
  <2>1. PICK r : r = client[f].poll.reply
    OBVIOUS
  <2>2. PICK cursor : cursor = client[f].poll.cursor
    OBVIOUS
  <2>3. ASSUME client[f].poll.step = "read", NEW i \in Owed(f)', Due(f, cursor, i)'
        PROVE  In(f, r.items, i)' \/ Due(f, r.sync, i)'
    <3>1. CASE i \in S
      <4>1. r.sync \in Cursors /\ NotAfter(r.sync, horizon[f])
        BY <1>15, <1>16, <2>1, <2>3
      <4>2. Due(f, r.sync, i)'
        BY <1>11, <3>1, <4>1
      <4> QED BY <4>2
    <3>2. CASE i \notin S
      <4>1. i \in Owed(f) /\ Due(f, cursor, i)
        BY <1>10, <1>16, <2>3, <3>2
      <4>2. In(f, r.items, i) \/ Due(f, r.sync, i)
        BY <1>1, <2>1, <2>2, <2>3, <4>1 DEF FeedOK, PollOK
      <4> QED BY <1>10, <1>16, <3>2, <4>2
    <3> QED BY <3>1, <3>2
  <2>4. client[f].poll.step = "read" =>
          \A i \in Owed(f)' : Due(f, cursor, i)' => In(f, r.items, i)' \/ Due(f, r.sync, i)'
    BY <2>3
  <2> QED BY <1>1, <1>2, <2>1, <2>2, <2>4 DEF FeedOK, PollOK
<1>21. CaughtOK(f)'
  BY <1>5 DEF CaughtOK
<1>22. FeedOK(f)'
  BY <1>13, <1>14, <1>17, <1>18, <1>19, <1>20, <1>21 DEF FeedOK
<1> QED BY <1>6, <1>7, <1>22 DEF SyncInv

LEMMA ChangedIs ==
  ASSUME NEW f \in Feeds, NEW r \in Rows(f)
  PROVE  Changed(r) \in Rows(f) /\ Changed(r).own = r.own /\ Changed(r).related = r.related
BY DEF Changed, Rows

LEMMA NewRowIs ==
  ASSUME NEW f \in Feeds, NEW place \in ListPlaces[f], NEW at \in Nat
  PROVE  NewRow(f, place, at) \in Rows(f)
BY DEF NewRow, Rows

LEMMA WriteRowStep ==
  ASSUME SyncInv, NEW t \in Transactions, NEW f \in Feeds, NEW i \in Ids,
         NEW place \in ListPlaces[f], WriteRow(t, f, i, place)
  PROVE  SyncInv'
<1>1. open[t] \in Nat /\ rows[f][i] \in Rows(f) \cup {NoRow}
  BY DEF SyncInv, SyncTypeOK
<1> DEFINE r == rows[f][i]
           q == IF r = NoRow THEN NewRow(f, place, open[t])
                ELSE [Changed(r) EXCEPT !.own = Later(@, open[t]), !.place = place, !.hidden = FALSE]
<1>2. q \in Rows(f)
  <2>1. CASE r = NoRow
    BY <1>1, <2>1, NewRowIs
  <2>2. CASE r # NoRow
    <3>1. Changed(r) \in Rows(f)
      BY <1>1, <2>2, ChangedIs
    <3> DEFINE x == Changed(r)
    <3> HIDE DEF x
    <3>2. x \in Rows(f) /\ Later(x.own, open[t]) \in Nat
      BY <1>1, <3>1 DEF x, Rows, Later
    <3>3. [x EXCEPT !.own = Later(@, open[t]), !.place = place, !.hidden = FALSE] \in Rows(f)
      BY <3>2 DEF Rows
    <3> QED BY <2>2, <3>3 DEF x
  <2> QED BY <2>1, <2>2
<1>3. Committed(t, f, {i}, [j \in {i} |-> q])
  BY DEF WriteRow
<1> HIDE DEF q
<1>4. {i} \in SUBSET Ids /\ \A j \in {i} : [k \in {i} |-> q][j] \in Rows(f)
  BY <1>2
<1> QED BY <1>3, <1>4, CommittedStep

LEMMA HideStep ==
  ASSUME SyncInv, NEW t \in Transactions, NEW i \in Ids, Hide(t, i)
  PROVE  SyncInv'
<1> DEFINE f == "conversations"
           r == rows[f][i]
           q == [Changed(r) EXCEPT !.own = Later(@, open[t]), !.hidden = TRUE]
<1>1. f \in Feeds /\ open[t] \in Nat /\ r \in Rows(f)
  BY DEF Hide, Visible, SyncInv, SyncTypeOK, Feeds
<1>2. Committed(t, f, {i}, [j \in {i} |-> q])
  BY DEF Hide
<1> HIDE DEF f, r
<1>3. q \in Rows(f)
  <2> DEFINE x == Changed(r)
  <2>1. x \in Rows(f)
    BY <1>1, ChangedIs
  <2> HIDE DEF x
  <2>2. Later(x.own, open[t]) \in Nat
    BY <1>1, <2>1 DEF Rows, Later
  <2>3. [x EXCEPT !.own = Later(@, open[t]), !.hidden = TRUE] \in Rows(f)
    BY <2>1, <2>2 DEF Rows
  <2> QED BY <2>3 DEF x
<1> HIDE DEF q
<1>4. {i} \in SUBSET Ids /\ \A j \in {i} : [k \in {i} |-> q][j] \in Rows(f)
  BY <1>3
<1> QED BY <1>1, <1>2, <1>4, CommittedStep

LEMMA WriteRelatedStep ==
  ASSUME SyncInv, NEW t \in Transactions, NEW f \in Feeds, NEW S \in SUBSET Ids,
         NEW part \in Parts(f), WriteRelated(t, f, S, part)
  PROVE  SyncInv'
<1> DEFINE q(i) == [Changed(rows[f][i]) EXCEPT !.related[part] =
                      IF part = "link" THEN Later(@, open[t]) ELSE open[t]]
<1>1. open[t] \in Nat /\ \A i \in S : rows[f][i] \in Rows(f)
  BY DEF WriteRelated, SyncInv, SyncTypeOK
<1>2. Committed(t, f, S, [i \in S |-> q(i)])
  BY DEF WriteRelated
<1>3. \A i \in S : q(i) \in Rows(f)
  <2> TAKE i \in S
  <2> DEFINE x == Changed(rows[f][i])
             at == IF part = "link" THEN Later(x.related[part], open[t]) ELSE open[t]
  <2>1. x \in Rows(f)
    BY <1>1, ChangedIs
  <2> HIDE DEF x
  <2>2. at \in Nat
    BY <1>1, <2>1 DEF Rows, Later
  <2>3. q(i) = [x EXCEPT !.related[part] = at]
    BY DEF x
  <2> HIDE DEF at, q
  <2>4. [x EXCEPT !.related[part] = at] \in Rows(f)
    BY <2>1, <2>2 DEF Rows
  <2> QED BY <2>3, <2>4
<1> HIDE DEF q
<1>4. \A j \in S : [i \in S |-> q(i)][j] \in Rows(f)
  BY <1>3
<1> QED BY <1>2, <1>4, CommittedStep

LEMMA WriteStatusStep ==
  ASSUME SyncInv, NEW t \in Transactions, NEW i \in Ids, NEW occurred \in Times \ {0},
         WriteStatus(t, i, occurred)
  PROVE  SyncInv'
<1> DEFINE f == "messages"
           r == rows[f][i]
           q == [Changed(r) EXCEPT !.own = Later(@, open[t]),
                                   !.related["status"] = Greatest({@, open[t], occurred})]
<1>1. f \in Feeds /\ open[t] \in Nat /\ r \in Rows(f) /\ "status" \in Parts(f) /\ occurred \in Nat
  <2>1. occurred \in Nat
    BY SyncAssumption DEF Times
  <2> QED BY <2>1 DEF WriteStatus, SyncInv, SyncTypeOK, Feeds, Parts
<1>2. Committed(t, f, {i}, [j \in {i} |-> q])
  BY DEF WriteStatus
<1> HIDE DEF f, r
<1>3. q \in Rows(f)
  <2> DEFINE x == Changed(r)
             T == {x.related["status"], open[t], occurred}
             at == Greatest(T)
             own == Later(x.own, open[t])
  <2>1. x \in Rows(f)
    BY <1>1, ChangedIs
  <2> HIDE DEF x
  <2>2. own \in Nat /\ x.related["status"] \in Nat
    BY <1>1, <2>1 DEF Rows, Later
  <2>3. IsFiniteSet(T)
    <3>1. IsFiniteSet({}) /\ T = (({} \cup {x.related["status"]}) \cup {open[t]}) \cup {occurred}
      BY FS_EmptySet
    <3> HIDE DEF T
    <3> QED BY <3>1, FS_AddElement
  <2>4. at \in Nat
    <3>1. T \in SUBSET Nat /\ T # {}
      BY <1>1, <2>2
    <3> HIDE DEF T
    <3> QED BY <2>3, <3>1, GreatestIn
  <2>5. q = [x EXCEPT !.own = own, !.related["status"] = at]
    BY <2>1 DEF x, Rows
  <2> HIDE DEF at, own, q
  <2>6. [x EXCEPT !.own = own, !.related["status"] = at] \in Rows(f)
    BY <1>1, <2>1, <2>2, <2>4 DEF Rows
  <2> QED BY <2>5, <2>6
<1> HIDE DEF q
<1>4. {i} \in SUBSET Ids /\ \A j \in {i} : [k \in {i} |-> q][j] \in Rows(f)
  BY <1>3
<1> QED BY <1>1, <1>2, <1>4, CommittedStep

-----------------------------------------------------------------------------
(* The theorem.                                                            *)

\* A step that leaves the rows and the browser alone.
LEMMA ClockStep ==
  ASSUME SyncInv, UNCHANGED <<rows, client, horizon, late, caught>>,
         open' \in [Transactions -> Nat], clock' \in Nat
  PROVE  SyncInv'
<1>1. \A g \in Feeds : FeedStays(g)
  BY DEF FeedStays, RowsStay
<1>2. \A g \in Feeds : FeedOK(g)'
  BY <1>1, OtherFeed DEF SyncInv
<1>3. SyncTypeOK'
  BY DEF SyncInv, SyncTypeOK
<1> QED BY <1>2, <1>3 DEF SyncInv

LEMMA ClientSteps ==
  ASSUME SyncInv, NEW f \in Feeds, ClientStep(f)
  PROVE  SyncInv'
<1>1. CASE RequestList(f) \/ RequestMore(f) \/ RequestPoll(f)
  BY <1>1, RequestListStep, RequestMoreStep, RequestPollStep
<1>2. CASE ApplyList(f) \/ ApplyMore(f) \/ ApplyPoll(f) \/ ApplyOne(f)
  BY <1>2, ApplyListStep, ApplyMoreStep, ApplyPollStep, ApplyOneStep
<1>3. CASE \E i \in Ids : ReadOne(f, i)
  BY <1>3, ReadOneStep
<1>4. CASE \E kind \in {"list", "poll"} : Read(f, kind)
  BY <1>4, ReadListStep, ReadPollStep
<1>5. CASE \E kind \in {"list", "more", "poll"} : Lose(f, kind)
  BY <1>5, LoseStep DEF Kinds
<1> QED BY <1>1, <1>2, <1>3, <1>4, <1>5 DEF ClientStep

LEMMA SyncSteps ==
  ASSUME SyncInv, SyncNext
  PROVE  SyncInv'
<1>1. CASE Tick
  BY <1>1, ClockStep DEF Tick, SyncInv, SyncTypeOK
<1>2. ASSUME NEW t \in Transactions, Begin(t)
      PROVE  SyncInv'
  <2>1. open' \in [Transactions -> Nat] /\ clock' \in Nat
    BY <1>2 DEF Begin, SyncInv, SyncTypeOK
  <2> QED BY <1>2, <2>1, ClockStep DEF Begin
<1>3. ASSUME NEW t \in Transactions, CommitStep(t)
      PROVE  SyncInv'
  <2>1. ASSUME NEW S \in (SUBSET Ids) \ {{}}
        PROVE  S \in SUBSET Ids
    OBVIOUS
  <2> QED BY <1>3, <2>1, WriteRowStep, HideStep, WriteRelatedStep, WriteStatusStep DEF CommitStep
<1> QED BY <1>1, <1>2, <1>3, ClientSteps DEF SyncNext

LEMMA SyncBegins ==
  ASSUME SyncInit
  PROVE  SyncInv
<1>1. \A f \in Feeds : rows[f] \in FirstRows(f)
  BY DEF SyncInit, Feeds
<1>2. \A f \in Feeds : FirstRows(f) \subseteq [Ids -> Rows(f) \cup {NoRow}]
  BY NewRowIs DEF FirstRows
<1>3. ASSUME NEW f \in Feeds
      PROVE  /\ client[f] \in Browsers(f)
             /\ client[f].page = NoCursor /\ client[f].sync = NoCursor /\ client[f].ready = FALSE
             /\ \A k \in Kinds : client[f][k] = Quiet
             /\ client[f].list = Quiet /\ client[f].more = Quiet /\ client[f].poll = Quiet
             /\ client[f].one = NoRow /\ \A i \in Ids : client[f].view[i] = NoRow
  BY QuietIs DEF SyncInit, Browsers, Kinds
<1>4. /\ DOMAIN rows = Feeds /\ DOMAIN client = Feeds /\ DOMAIN late = Feeds /\ DOMAIN caught = Feeds
      /\ horizon \in [Feeds -> Cursors] /\ open \in [Transactions -> Nat] /\ clock \in Nat
      /\ \A f \in Feeds : caught[f] = FALSE
  BY DEF SyncInit, Cursors
<1>5. SyncTypeOK
  BY <1>1, <1>2, <1>3, <1>4 DEF SyncTypeOK
<1>6. ASSUME NEW f \in Feeds
      PROVE  FeedOK(f)
  <2>1. /\ Quiet.step = "idle" /\ Len(Quiet.reply.items) = 0 /\ Quiet.cursor = NoCursor
        /\ Quiet.reply.sync = NoCursor /\ Quiet.reply.next = NoCursor
    BY QuietIs
  <2>2. 1..Len(Quiet.reply.items) = {}
    BY <2>1
  <2>3. \A k \in Kinds : \A n \in 1..Len(client[f][k].reply.items) : FALSE
    BY <1>3, <2>2, Zenon
  <2>4. CopiesOK(f)
    <3>1. client[f].one = NoRow /\ \A i \in Ids : client[f].view[i] = NoRow
      BY <1>3
    <3> QED BY <2>3, <3>1 DEF CopiesOK
  <2>5. HorizonOK(f)
    <3>1. ASSUME NEW k \in Kinds
          PROVE  ReplyBehind(f, client[f][k].reply)
      <4>1. client[f][k].reply.sync = NoCursor /\ client[f][k].reply.next = NoCursor
        BY <1>3, <2>1
      <4> QED BY <2>3, <4>1 DEF ReplyBehind
    <3> QED BY <1>3, <3>1 DEF HorizonOK
  <2>6. StepsOK(f)
    BY <1>3, <2>1, QuietIs DEF StepsOK
  <2>7. ListOK(f) /\ ViewOK(f) /\ MoreOK(f) /\ PollOK(f) /\ CaughtOK(f)
    BY <1>3, <1>4, QuietIs DEF ListOK, ViewOK, MoreOK, PollOK, CaughtOK
  <2> QED BY <2>4, <2>5, <2>6, <2>7 DEF FeedOK
<1> QED BY <1>5, <1>6 DEF SyncInv

LEMMA CatchesUp ==
  ASSUME SyncInv
  PROVE  BrowserCatchesUp
<1> SUFFICES ASSUME NEW f \in Feeds, caught[f], Rested(client[f]), client[f].crossed = {},
                    NEW i \in Ids, Visible(f, i), i \notin late[f]
             PROVE  client[f].view[i] = Projection(f, i)
  BY DEF BrowserCatchesUp, ShowsAll
<1>1. FeedOK(f) /\ i \in Owed(f)
  BY DEF SyncInv, Owed
<1>2. \/ client[f].view[i] = Projection(f, i)
      \/ Due(f, client[f].sync, i) \/ Remains(f, client[f].page, i)
  BY <1>1 DEF FeedOK, ViewOK, Rested
<1>3. ~Remains(f, client[f].page, i)
  BY DEF Rested, Remains
<1>4. client[f].poll.step = "idle" /\ client[f].sync # NoCursor
  BY QuietIs DEF Rested
<1>5. NothingDue(f, client[f].sync)
  BY <1>1, <1>4 DEF FeedOK, CaughtOK
<1> QED BY <1>2, <1>3, <1>5 DEF NothingDue

\* A browser that has loaded its whole list and polled until there was nothing more
\* shows every visible row as it is, in whatever order lists, pages, polls, losses
\* and commits came, but for the two exceptions that BrowserCatchesUp names.
THEOREM BrowserCatchesUpCorrect == SyncSpec => []BrowserCatchesUp
<1>1. SyncInit => SyncInv
  BY SyncBegins
<1>2. SyncInv /\ [SyncNext]_syncVars => SyncInv'
  <2> SUFFICES ASSUME SyncInv, [SyncNext]_syncVars PROVE SyncInv'
    OBVIOUS
  <2>1. CASE SyncNext
    BY <2>1, SyncSteps
  <2>2. CASE UNCHANGED syncVars
    BY <2>2, ClockStep DEF syncVars, serverVars, SyncInv, SyncTypeOK
  <2> QED BY <2>1, <2>2
<1>3. SyncInv => BrowserCatchesUp
  BY CatchesUp
<1> QED BY <1>1, <1>2, <1>3, PTL DEF SyncSpec

-----------------------------------------------------------------------------
(* BroadcastDraft: the invariant.                                          *)

USE DEF vars, draftVars, tokenVars, worldVars, Statuses, Recipients, Consents, ConsentEvents,
        AuditTypes, Readings, Requested, Digests

\* A broadcast has a content and a signature from its creation on.
CreatedOK == status # "none" => content \in Contents /\ signature \in Signatures

\* What a client was shown is not newer than the draft, and of the draft as it
\* is when it has its version.
SeenOK ==
  \A k \in Clients :
    seen[k] # Nobody =>
      /\ status # "none"
      /\ seen[k].version <= version
      /\ seen[k].version = version =>
           seen[k].content = content /\ seen[k].recipients = recipients

\* The token on the draft is the last one issued and vouches for the draft.
TokenOK ==
  /\ token <= issued
  /\ token # 0 => digest \in Digests
  /\ TokenVouches

\* A client that was given the token on the draft was shown the digest's
\* consent events with it.
GivenOK ==
  \A k \in Clients :
    seen[k] # Nobody =>
      /\ seen[k].token <= issued
      /\ seen[k].token # 0 /\ seen[k].token = token => seen[k].consents = digest.consents

IInv == TypeOK /\ CreatedOK /\ SeenOK /\ TokenOK /\ GivenOK
-----------------------------------------------------------------------------
(* Operators.                                                              *)

\* The element of a sequence at one of its positions.
LEMMA SeqElement ==
  ASSUME NEW T, NEW s \in Seq(T), NEW i \in 1..Len(s)
  PROVE  s[i] \in T
OBVIOUS

\* Events found among the first n exist.
LEMMA CurrentConsentsType ==
  ASSUME NEW R, NEW n \in Nat
  PROVE  CurrentConsents(R, n) \subseteq Consents
BY DEF CurrentConsents

\* A replacement leaves recipients with a phone.
LEMMA SelectionsType ==
  ASSUME TypeOK, NEW S \in SUBSET Customers, NEW R \in Selections(S)
  PROVE  R \subseteq Recipients
BY DEF TypeOK, Selections

\* The digest of a draft.
LEMMA DigestType ==
  ASSUME TypeOK, CreatedOK, status # "none", NEW n \in Nat
  PROVE  /\ Digest(n) \in Digests
         /\ Digest(n).version = version /\ Digest(n).content = content
         /\ Digest(n).signature = signature /\ Digest(n).recipients = recipients
         /\ Digest(n).consents = CurrentConsents(recipients, n)
BY CurrentConsentsType DEF Digest, TypeOK, CreatedOK

LEMMA ShownType ==
  ASSUME NEW v \in Nat, NEW c \in Contents, NEW R \in SUBSET Recipients
  PROVE  /\ Shown(v, c, R) \in Readings
         /\ Shown(v, c, R).version = v /\ Shown(v, c, R).content = c
         /\ Shown(v, c, R).recipients = R /\ Shown(v, c, R).token = 0
BY DEF Shown

LEMMA RequestType ==
  ASSUME TypeOK, NEW k \in Clients, request[k] # Nobody
  PROVE  /\ request[k] \in Requested
         /\ Horizons(k) \subseteq Nat
BY DEF TypeOK, Horizons
-----------------------------------------------------------------------------
(* The invariant.                                                          *)

LEMMA InitInv == Init => IInv
BY DraftAssumption
   DEF Init, IInv, TypeOK, CreatedOK, SeenOK, TokenOK, TokenVouches, GivenOK

\* A client is shown the broadcast and nothing else changes.
LEMMA ShowInv ==
  ASSUME IInv, NEW k \in Clients, status # "none",
         seen' = [seen EXCEPT ![k] = Shown(version, content, recipients)],
         request' \in [Clients -> Requested \cup {Nobody}],
         UNCHANGED <<draftVars, tokenVars, worldVars>>
  PROVE  IInv'
<1>1. TypeOK /\ CreatedOK
  BY DEF IInv
<1> DEFINE shown == Shown(version, content, recipients)
<1>2. /\ shown \in Readings
      /\ shown.version = version /\ shown.content = content
      /\ shown.recipients = recipients /\ shown.token = 0
  BY <1>1, ShownType DEF TypeOK, CreatedOK
<1>3. seen \in [Clients -> Readings \cup {Nobody}] /\ version \in Nat
  BY <1>1 DEF TypeOK
<1> HIDE DEF shown
<1>4. seen' = [seen EXCEPT ![k] = shown]
  BY DEF shown
<1>5. TypeOK'
  BY <1>1, <1>2, <1>4 DEF TypeOK
<1>6. CreatedOK' /\ TokenOK'
  BY DEF IInv, CreatedOK, TokenOK, TokenVouches
<1>7. SeenOK'
  BY <1>2, <1>3, <1>4 DEF IInv, SeenOK
<1>8. GivenOK'
  BY <1>1, <1>2, <1>3, <1>4 DEF IInv, GivenOK, TypeOK
<1>9. QED
  BY <1>5, <1>6, <1>7, <1>8 DEF IInv

\* A client replaces the draft it was shown by the next version.
LEMMA EditInv ==
  ASSUME IInv, NEW k \in Clients, DraftAt(k),
         NEW c \in Contents, NEW s \in Signatures, NEW R \in SUBSET Recipients,
         content' = c, signature' = s, recipients' = R,
         version' = NextVersion, token' = ClearedToken,
         seen' = [seen EXCEPT ![k] = Shown(version', c, R)],
         audit' \in Seq([type : AuditTypes, command : Commands]),
         request' \in [Clients -> Requested \cup {Nobody}],
         UNCHANGED <<status, creator, ready, digest, issued, lapsed, worldVars>>
  PROVE  IInv'
<1>1. TypeOK /\ version \in Nat /\ version' = version + 1 /\ version' \in Nat
  BY DEF IInv, TypeOK, NextVersion
<1>2. token' = 0
  BY DEF ClearedToken
<1> DEFINE shown == Shown(version', c, R)
<1>3. /\ shown \in Readings
      /\ shown.version = version' /\ shown.content = c
      /\ shown.recipients = R /\ shown.token = 0
  BY <1>1, ShownType
<1>4. seen \in [Clients -> Readings \cup {Nobody}]
  BY <1>1 DEF TypeOK
<1>5. seen' = [seen EXCEPT ![k] = shown]
  OBVIOUS
<1> HIDE DEF shown
<1>6. TypeOK'
  BY <1>1, <1>2, <1>3, <1>5 DEF TypeOK
<1>7. CreatedOK'
  BY DEF CreatedOK
<1>8. TokenOK'
  BY <1>1, <1>2 DEF IInv, TokenOK, TokenVouches, TypeOK
<1>9. SeenOK'
  BY <1>1, <1>3, <1>4, <1>5 DEF IInv, SeenOK, DraftAt
<1>10. GivenOK'
  BY <1>1, <1>2, <1>3, <1>4, <1>5 DEF IInv, GivenOK, TypeOK
<1>11. QED
  BY <1>6, <1>7, <1>8, <1>9, <1>10 DEF IInv

LEMMA CreateInv ==
  ASSUME IInv, NEW k \in Clients, NEW c \in Contents, Create(k, c)
  PROVE  IInv'
<1>1. TypeOK /\ request[k] \in Requested /\ request[k].listed \in Signatures
  BY RequestType DEF IInv, Create
<1>2. \A j \in Clients : seen[j] = Nobody
  BY DEF IInv, SeenOK, Create
<1>3. token = 0
  BY <1>1 DEF IInv, TokenOK, TokenVouches, Create
<1> DEFINE shown == Shown(1, c, recipients)
<1>4. /\ shown \in Readings
      /\ shown.version = 1 /\ shown.content = c
      /\ shown.recipients = recipients /\ shown.token = 0
  <2>1. 1 \in Nat /\ recipients \in SUBSET Recipients
    BY <1>1 DEF TypeOK
  <2>2. QED
    BY <2>1, ShownType
<1>5. seen' = [seen EXCEPT ![k] = shown] /\ seen \in [Clients -> Readings \cup {Nobody}]
  BY <1>1 DEF Create, TypeOK
<1> HIDE DEF shown
<1>6. TypeOK'
  BY <1>1, <1>4, <1>5 DEF TypeOK, Create
<1>7. CreatedOK'
  BY <1>1 DEF CreatedOK, Create
<1>8. TokenOK'
  BY <1>1, <1>3 DEF IInv, TokenOK, TokenVouches, Create, TypeOK
<1>9. SeenOK'
  BY <1>2, <1>4, <1>5 DEF SeenOK, Create
<1>10. GivenOK'
  BY <1>1, <1>2, <1>4, <1>5 DEF GivenOK, Create, TypeOK
<1>11. QED
  BY <1>6, <1>7, <1>8, <1>9, <1>10 DEF IInv

\* A validation with issues takes the token away; one without gives a new one,
\* to its client only.
LEMMA ValidateInv ==
  ASSUME IInv, NEW k \in Clients, Validate(k)
  PROVE  IInv'
<1>1. TypeOK /\ CreatedOK /\ SeenOK /\ TokenOK /\ GivenOK
  BY DEF IInv
<1>2. DraftAt(k) /\ status = "DRAFT" /\ seen[k] \in Readings /\ seen[k].version = version
  BY <1>1 DEF Validate, DraftAt, TypeOK
<1>3. PICK n \in Horizons(k) :
        IF Valid(request[k].listed, n)
        THEN /\ issued' = issued + 1 /\ token' = issued'
             /\ digest' = Digest(n)
             /\ seen' = [seen EXCEPT ![k].token = issued',
                                     ![k].consents = CurrentConsents(recipients, n)]
        ELSE /\ token' = 0
             /\ seen' = [seen EXCEPT ![k].token = 0, ![k].consents = {}]
             /\ UNCHANGED <<issued, digest>>
  BY DEF Validate
<1>4. n \in Nat
  BY <1>1, RequestType DEF Validate
<1>5. CurrentConsents(recipients, n) \subseteq Consents
  BY <1>4, CurrentConsentsType
<1>6. /\ Digest(n) \in Digests
      /\ Digest(n).version = version /\ Digest(n).content = content
      /\ Digest(n).signature = signature /\ Digest(n).recipients = recipients
      /\ Digest(n).consents = CurrentConsents(recipients, n)
  BY <1>1, <1>2, <1>4, DigestType
<1>7. /\ seen \in [Clients -> Readings \cup {Nobody}] /\ issued \in Nat /\ token \in Nat
      /\ version \in Nat
  BY <1>1 DEF TypeOK
<1>8. PICK C : C = CurrentConsents(recipients, n)
  OBVIOUS
<1>9. UNCHANGED <<draftVars, lapsed, worldVars>>
  BY DEF Validate
<1>10. request' \in [Clients -> Requested \cup {Nobody}]
  BY <1>1 DEF Validate, TypeOK
<1>11. CASE Valid(request[k].listed, n)
  <2>1. /\ issued' = issued + 1 /\ token' = issued + 1 /\ digest' = Digest(n)
        /\ seen' = [seen EXCEPT ![k].token = issued + 1, ![k].consents = C]
    BY <1>3, <1>8, <1>11
  <2>2. /\ seen'[k] \in Readings
        /\ seen'[k].version = seen[k].version /\ seen'[k].content = seen[k].content
        /\ seen'[k].recipients = seen[k].recipients
        /\ seen'[k].token = issued + 1 /\ seen'[k].consents = C
    <3>1. /\ issued + 1 \in Nat /\ C \in SUBSET Consents
      BY <1>5, <1>7, <1>8
    <3>2. seen'[k] = [seen[k] EXCEPT !.token = issued + 1, !.consents = C]
      BY <1>2, <1>7, <2>1
    <3>3. QED
      BY <1>2, <3>1, <3>2
  <2>3. \A j \in Clients : j # k => seen'[j] = seen[j]
    BY <1>7, <2>1
  <2>4. seen' \in [Clients -> Readings \cup {Nobody}]
    BY <1>7, <2>1, <2>2
  <2>5. TypeOK'
    BY <1>1, <1>6, <1>7, <1>9, <1>10, <2>1, <2>4 DEF TypeOK
  <2>6. CreatedOK'
    BY <1>1, <1>9 DEF CreatedOK
  <2>7. SeenOK'
    BY <1>1, <1>2, <1>9, <2>2, <2>3 DEF SeenOK, DraftAt
  <2>8. TokenOK'
    BY <1>2, <1>6, <1>7, <1>9, <2>1 DEF TokenOK, TokenVouches
  <2>9. GivenOK'
    <3>1. ASSUME NEW j \in Clients, seen'[j] # Nobody, j # k
          PROVE  seen'[j].token <= issued' /\ seen'[j].token # token'
      BY <1>1, <1>7, <2>1, <2>3, <3>1 DEF GivenOK
    <3>2. seen'[k].token <= issued' /\ seen'[k].consents = digest'.consents
      BY <1>6, <1>7, <1>8, <2>1, <2>2
    <3>3. QED
      BY <3>1, <3>2 DEF GivenOK
  <2>10. QED
    BY <2>5, <2>6, <2>7, <2>8, <2>9 DEF IInv
<1>12. CASE ~Valid(request[k].listed, n)
  <2>1. /\ token' = 0 /\ issued' = issued /\ digest' = digest
        /\ seen' = [seen EXCEPT ![k].token = 0, ![k].consents = {}]
    BY <1>3, <1>12
  <2>2. /\ seen'[k] \in Readings
        /\ seen'[k].version = seen[k].version /\ seen'[k].content = seen[k].content
        /\ seen'[k].recipients = seen[k].recipients
        /\ seen'[k].token = 0
    BY <1>2, <1>7, <2>1 DEF DraftAt
  <2>3. \A j \in Clients : j # k => seen'[j] = seen[j]
    BY <1>7, <2>1
  <2>4. seen' \in [Clients -> Readings \cup {Nobody}]
    BY <1>7, <2>1, <2>2
  <2>5. TypeOK'
    BY <1>1, <1>7, <1>9, <1>10, <2>1, <2>4 DEF TypeOK
  <2>6. CreatedOK'
    BY <1>1, <1>9 DEF CreatedOK
  <2>7. SeenOK'
    BY <1>1, <1>2, <1>9, <2>2, <2>3 DEF SeenOK, DraftAt
  <2>8. TokenOK'
    BY <1>7, <2>1 DEF TokenOK, TokenVouches
  <2>9. GivenOK'
    BY <1>1, <1>7, <2>1, <2>2, <2>3 DEF GivenOK
  <2>10. QED
    BY <2>5, <2>6, <2>7, <2>8, <2>9 DEF IInv
<1>13. QED
  BY <1>11, <1>12

\* A step that leaves the draft, the tokens and the clients' knowledge alone.
LEMMA WorldInv ==
  ASSUME IInv, TypeOK', UNCHANGED <<draftVars, token, digest, issued, seen>>
  PROVE  IInv'
BY DEF IInv, CreatedOK, SeenOK, TokenOK, TokenVouches, GivenOK

\* The lifecycle goes on: the draft stays, its token is used or gone.
LEMMA LifecycleInv ==
  ASSUME IInv, TypeOK', status # "none", status' \in Statuses \ {"none", "DRAFT"},
         token' = 0,
         UNCHANGED <<version, content, signature, recipients, digest, issued, seen>>
  PROVE  IInv'
BY DEF IInv, TypeOK, CreatedOK, SeenOK, TokenOK, TokenVouches, GivenOK

LEMMA NextInv == IInv /\ [Next]_vars => IInv'
<1> SUFFICES ASSUME IInv, [Next]_vars PROVE IInv'
  OBVIOUS
<1>1. TypeOK /\ CreatedOK
  BY DEF IInv
<1>2. CASE UNCHANGED vars
  BY <1>2 DEF IInv, TypeOK, CreatedOK, SeenOK, TokenOK, TokenVouches, GivenOK
<1>3. ASSUME NEW k \in Clients, Open(k) PROVE IInv'
  BY <1>1, <1>3, ShowInv DEF Open, TypeOK
<1>4. ASSUME NEW k \in Clients, BeginRequest(k) PROVE IInv'
  <2>1. [listed |-> template, horizon |-> Len(events), lapsed |-> lapsed] \in Requested
    BY <1>1 DEF TypeOK
  <2>2. TypeOK'
    BY <1>1, <1>4, <2>1 DEF BeginRequest, TypeOK
  <2>3. QED
    BY <1>4, <2>2, WorldInv DEF BeginRequest
<1>5. ASSUME NEW k \in Clients, EndRequest(k) PROVE IInv'
  <2>1. TypeOK'
    BY <1>1, <1>5 DEF EndRequest, TypeOK
  <2>2. QED
    BY <1>5, <2>1, WorldInv DEF EndRequest
<1>6. ASSUME NEW k \in Clients, ReplayCreate(k) PROVE IInv'
  <2>1. request' \in [Clients -> Requested \cup {Nobody}]
    BY <1>1, <1>6 DEF ReplayCreate, TypeOK
  <2>2. QED
    BY <1>6, <2>1, ShowInv DEF ReplayCreate
<1>7. ASSUME NEW k \in Clients, Validate(k) PROVE IInv'
  BY <1>7, ValidateInv
<1>8. ASSUME NEW k \in Clients, NEW c \in Contents, Create(k, c) PROVE IInv'
  BY <1>8, CreateInv
<1>9. ASSUME NEW k \in Clients, NEW c \in Contents, UpdateDraft(k, c) PROVE IInv'
  <2>1. request[k] \in Requested /\ request[k].listed \in Signatures
    BY <1>1, <1>9, RequestType DEF UpdateDraft
  <2>2. /\ request' \in [Clients -> Requested \cup {Nobody}]
        /\ recipients \in SUBSET Recipients
        /\ audit \in Seq([type : AuditTypes, command : Commands])
    BY <1>1, <1>9 DEF UpdateDraft, TypeOK
  <2>3. DraftAt(k)
    BY <1>9 DEF UpdateDraft
  <2>4. PICK s \in Signatures : s = request[k].listed
    BY <2>1
  <2>5. PICK R \in SUBSET Recipients : R = recipients
    BY <2>2
  <2>6. /\ content' = c /\ signature' = s /\ recipients' = R /\ audit' = audit
        /\ version' = NextVersion /\ token' = ClearedToken
        /\ seen' = [seen EXCEPT ![k] = Shown(version', c, R)]
        /\ UNCHANGED <<status, creator, ready, digest, issued, lapsed, worldVars>>
    BY <1>9, <2>4, <2>5 DEF UpdateDraft
  <2>7. QED
    BY <2>2, <2>3, <2>6, EditInv
<1>10. ASSUME NEW k \in Clients, NEW m \in Commands, Confirm(k, m) PROVE IInv'
  <2>1. PICK n \in Horizons(k) : ready' = CurrentConsents(recipients, n)
    BY <1>10 DEF Confirm
  <2>2. ready' \subseteq Consents
    BY <1>1, <1>10, <2>1, RequestType, CurrentConsentsType DEF Confirm
  <2>3. TypeOK'
    BY <1>1, <1>10, <2>2 DEF Confirm, TypeOK
  <2>4. QED
    BY <1>10, <2>3, LifecycleInv DEF Confirm, DraftAt
<1>11. ASSUME NEW k \in Clients, NEW m \in Commands, NEW S \in SUBSET Customers,
              ReplaceRecipients(k, S, m)
       PROVE  IInv'
  <2>1. PICK R \in Selections(S) : recipients' = R
    BY <1>11 DEF ReplaceRecipients
  <2>2. R \in SUBSET Recipients
    BY <1>1, SelectionsType
  <2>3. DraftAt(k) /\ content \in Contents /\ signature \in Signatures
    BY <1>1, <1>11 DEF ReplaceRecipients, CreatedOK, DraftAt
  <2>4. PICK c \in Contents : c = content
    BY <2>3
  <2>5. PICK s \in Signatures : s = signature
    BY <2>3
  <2>6. /\ audit' \in Seq([type : AuditTypes, command : Commands])
        /\ request' \in [Clients -> Requested \cup {Nobody}]
    BY <1>1, <1>11 DEF ReplaceRecipients, TypeOK
  <2>7. /\ content' = c /\ signature' = s
        /\ version' = NextVersion /\ token' = ClearedToken
        /\ seen' = [seen EXCEPT ![k] = Shown(version', c, R)]
        /\ UNCHANGED <<status, creator, ready, digest, issued, lapsed, worldVars>>
    BY <1>11, <2>1, <2>4, <2>5 DEF ReplaceRecipients
  <2>8. QED
    BY <2>1, <2>2, <2>3, <2>6, <2>7, EditInv
<1>12. ASSUME NEW m \in Commands, Start(m) PROVE IInv'
  <2>1. TypeOK'
    BY <1>1, <1>12 DEF Start, TypeOK
  <2>2. token = 0
    BY <1>12 DEF IInv, TokenOK, TokenVouches, Start
  <2>3. QED
    BY <1>12, <2>1, <2>2, LifecycleInv DEF Start
<1>13. CASE TokenLapses
  <2>1. TypeOK'
    BY <1>1, <1>13 DEF TokenLapses, TypeOK
  <2>2. QED
    BY <1>13, <2>1, WorldInv DEF TokenLapses
<1>14. ASSUME NEW c \in Customers, NEW g \in BOOLEAN, AppendConsent(c, g) PROVE IInv'
  <2>1. [customer |-> c, phone |-> phone[c], granted |-> g] \in ConsentEvents
    BY <1>1, <1>14 DEF AppendConsent, TypeOK
  <2>2. TypeOK'
    BY <1>1, <1>14, <2>1 DEF AppendConsent, TypeOK
  <2>3. QED
    BY <1>14, <2>2, WorldInv DEF AppendConsent
<1>15. ASSUME NEW c \in Customers, NEW p \in Phones \cup {Nobody}, ChangePhone(c, p)
       PROVE  IInv'
  <2>1. TypeOK'
    BY <1>1, <1>15, DraftAssumption DEF ChangePhone, TypeOK
  <2>2. QED
    BY <1>15, <2>1, WorldInv DEF ChangePhone
<1>16. ASSUME NEW t \in Signatures \cup {Nobody}, ChangeTemplate(t) PROVE IInv'
  <2>1. TypeOK'
    BY <1>1, <1>16, DraftAssumption DEF ChangeTemplate, TypeOK
  <2>2. QED
    BY <1>16, <2>1, WorldInv DEF ChangeTemplate
<1>17. QED
  BY <1>2, <1>3, <1>4, <1>5, <1>6, <1>7, <1>8, <1>9, <1>10, <1>11, <1>12, <1>13, <1>14,
     <1>15, <1>16 DEF Next

LEMMA Invariance == Spec => []IInv
BY InitInv, NextInv, PTL DEF Spec
-----------------------------------------------------------------------------
(* Theorems.                                                               *)

\* Every variable has its type: in particular what the database's constraints
\* and the digest's inputs are assumed to be.
THEOREM TypeCorrect == Spec => []TypeOK
BY Invariance, PTL DEF IInv

\* A client whose expected version is accepted has seen what it changes.
THEOREM SeenIsCurrentCorrect == Spec => []SeenIsCurrent
<1>1. IInv => SeenIsCurrent
  BY DEF IInv, SeenOK, SeenIsCurrent
<1>2. QED
  BY <1>1, Invariance, PTL

\* A token on the draft vouches for the draft as it is.
THEOREM TokenVouchesCorrect == Spec => []TokenVouches
<1>1. IInv => TokenVouches
  BY DEF IInv, TokenOK
<1>2. QED
  BY <1>1, Invariance, PTL

\* Only confirm leads from DRAFT to CONFIRMED.
LEMMA ConfirmStep ==
  ASSUME [Next]_vars, Confirms
  PROVE  \E k \in Clients, m \in Commands : Confirm(k, m)
BY DEF Confirms, Next, Open, BeginRequest, EndRequest, ReplayCreate, Validate, Create, UpdateDraft,
       ReplaceRecipients, Start, TokenLapses, AppendConsent, ChangePhone, ChangeTemplate

\* A confirmed broadcast is frozen, whatever commands are under way.
THEOREM FrozenAfterConfirmCorrect == Spec => FrozenAfterConfirm
<1>1. ASSUME [Next]_vars, status \in {"CONFIRMED", "PROCESSING"}, IInv
      PROVE  /\ UNCHANGED <<version, content, signature, recipients, ready, token>>
             /\ status' \in {status, "PROCESSING"}
  <2>1. \A k \in Clients : ~DraftAt(k)
    BY <1>1 DEF DraftAt
  <2>2. QED
    BY <1>1, <2>1
       DEF Next, Open, BeginRequest, EndRequest, ReplayCreate, Validate, Create, UpdateDraft,
           Confirm, ReplaceRecipients, Start, TokenLapses, AppendConsent, ChangePhone,
           ChangeTemplate
<1>2. QED
  BY <1>1, Invariance, PTL DEF Spec, FrozenAfterConfirm

\* What is confirmed, down to the consent events, is what the confirming user
\* was shown as valid.
THEOREM ConfirmedAsShownCorrect == Spec => ConfirmedAsShown
<1>1. ASSUME IInv, [Next]_vars, Confirms
      PROVE  \E k \in Clients :
               /\ request[k] # Nobody /\ request'[k] = Nobody
               /\ seen[k].content = content' /\ seen[k].recipients = recipients'
               /\ seen[k].consents = ready'
  <2>1. PICK k \in Clients, m \in Commands : Confirm(k, m)
    BY <1>1, ConfirmStep
  <2>2. PICK n \in Horizons(k) : Digest(n) = digest /\ ready' = CurrentConsents(recipients, n)
    BY <2>1 DEF Confirm
  <2>3. seen[k].consents = digest.consents
    BY <1>1, <2>1 DEF Confirm, DraftAt, IInv, GivenOK
  <2>4. Digest(n).consents = CurrentConsents(recipients, n)
    BY DEF Digest
  <2>5. seen[k].content = content' /\ seen[k].recipients = recipients'
    BY <1>1, <2>1 DEF Confirm, DraftAt, IInv, SeenOK
  <2>6. request[k] # Nobody /\ request'[k] = Nobody
    BY <1>1, <2>1 DEF Confirm, IInv, TypeOK
  <2>7. QED
    BY <2>2, <2>3, <2>4, <2>5, <2>6
<1>2. QED
  BY <1>1, Invariance, PTL DEF Spec, ConfirmedAsShown

\* A command has one effect, however often and by whomever it is sent.
THEOREM OneEffectPerCommandCorrect == Spec => []OneEffectPerCommand
<1>1. Init => OneEffectPerCommand
  BY DEF Init, OneEffectPerCommand
<1>2. ASSUME IInv, OneEffectPerCommand, [Next]_vars
      PROVE  OneEffectPerCommand'
  <2>1. audit \in Seq([type : AuditTypes, command : Commands])
    BY <1>2 DEF IInv, TypeOK
  <2>2. \/ UNCHANGED audit
        \/ \E t \in AuditTypes, m \in Commands :
             Unused(m) /\ audit' = Append(audit, [type |-> t, command |-> m])
    BY <1>2 DEF Next, Open, BeginRequest, EndRequest, ReplayCreate, Validate, Create, UpdateDraft,
                Confirm, ReplaceRecipients, Start, TokenLapses, AppendConsent, ChangePhone,
                ChangeTemplate
  <2>3. CASE UNCHANGED audit
    BY <1>2, <2>3 DEF OneEffectPerCommand
  <2>4. ASSUME NEW t \in AuditTypes, NEW m \in Commands, Unused(m),
               audit' = Append(audit, [type |-> t, command |-> m])
        PROVE  OneEffectPerCommand'
    <3>1. PICK x : x = [type |-> t, command |-> m]
      OBVIOUS
    <3>2. x.command = m /\ x \in [type : AuditTypes, command : Commands]
      BY <3>1
    <3>3. audit' = Append(audit, x)
      BY <2>4, <3>1
    <3>4. /\ Len(audit') = Len(audit) + 1
          /\ audit'[Len(audit) + 1] = x
          /\ \A i \in 1..Len(audit) : audit'[i] = audit[i]
      BY <2>1, <3>2, <3>3
    <3>5. \A i \in 1..Len(audit) : audit[i].command # m
      BY <2>4 DEF Unused
    <3>6. Len(audit) \in Nat
      BY <2>1
    <3>7. QED
      BY <1>2, <3>2, <3>4, <3>5, <3>6 DEF OneEffectPerCommand
  <2>5. QED
    BY <2>2, <2>3, <2>4
<1>3. QED
  BY <1>1, <1>2, Invariance, PTL DEF Spec
=============================================================================
