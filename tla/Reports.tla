-------------------------------- MODULE Reports --------------------------------
(***************************************************************************)
(* What the dashboard and the lists say of the pipeline: the metrics, each *)
(* computed by statements of its own from the current rows and from the    *)
(* snapshots of the loss events, and the lists of lost and won             *)
(* opportunities, read page by page while commands commit.                 *)
(*                                                                         *)
(* Superposed on Opportunity: every step of the pipeline also stamps the   *)
(* rows it writes with the time of its commit.  A line of a quote weighs   *)
(* one kilogram, a day is a unit of time.                                  *)
(***************************************************************************)
EXTENDS Opportunity, FiniteSetsExt

CONSTANTS
  Provinces,   \* values of Customer.province, its absence one of them
  Names,       \* values of Product.name
  Dimensions,  \* combinations of filters that are asked for
  Periods,     \* periods that are asked for, <<from, to>>
  Walks,       \* readers of a list
  PageSize,
  MaxTime,     \* bound: days that pass
  MaxMoves,    \* bound: changes of a customer's province or a product's name
  MaxWalks     \* bound: lists that are begun

ASSUME ReportsAssumption ==
  /\ Nobody \notin Products /\ Nobody \notin Provinces /\ Nobody \notin Statuses
  /\ IsFiniteSet(Sources) /\ IsFiniteSet(Products) /\ IsFiniteSet(Provinces)
  /\ Dimensions \subseteq [source : Sources \cup {Nobody}, product : Products \cup {Nobody},
                           province : Provinces \cup {Nobody}]
  /\ Periods \subseteq Nat \X Nat
  /\ PageSize \in Nat \ {0} /\ MaxTime \in Nat /\ MaxMoves \in Nat /\ MaxWalks \in Nat

VARIABLES
  now,
  createdAt,  \* Opportunity.created_at
  enteredAt,  \* current_status_entered_at
  lossRow,    \* opportunity_loss_events by id, with their product snapshots
  province,   \* Customer.province
  name,       \* Product.name
  moves,      \* consumed bound
  walk,       \* per reader: the list it reads
  begun       \* consumed bound

reportVars == <<now, createdAt, enteredAt, lossRow, province, name, moves, walk, begun>>

Days == 0..MaxTime
Lists == {"lost", "won"}

-----------------------------------------------------------------------------
(* Filters.                                                                *)

Accepts(filter, value) == filter = Nobody \/ filter = value
Within(t, period) == period[1] <= t /\ t < period[2]
AnyProduct(d) == [d EXCEPT !.product = Nobody]

\* _opportunity_filters
Matches(d) ==
  {o \in Created \ deleted :
     /\ Accepts(d.source, source[o])
     /\ Accepts(d.province, province[customer[o]])
     /\ d.product = Nobody \/ d.product \in products[o]}

\* Mutant: a loss is counted while the opportunity is still lost.
LossMatchesCurrent(d) ==
  {i \in DOMAIN lossRow :
     LET o == lossRow[i].opportunity IN
     /\ o \notin deleted /\ status[o] = "PERDIDA"
     /\ Accepts(d.source, lossRow[i].source)
     /\ Accepts(d.province, lossRow[i].province)
     /\ d.product = Nobody \/ d.product \in lossRow[i].products}
\* _loss_event_filters
LossMatches(d) ==
  {i \in DOMAIN lossRow :
     /\ lossRow[i].opportunity \notin deleted
     /\ Accepts(d.source, lossRow[i].source)
     /\ Accepts(d.province, lossRow[i].province)
     /\ d.product = Nobody \/ d.product \in lossRow[i].products}

CreatedIn(S, period) == {o \in S : Within(createdAt[o], period)}
WonIn(S, period) == {o \in S : status[o] = "GANADA" /\ Within(enteredAt[o], period)}
LostIn(S, period) == {i \in S : Within(lossRow[i].at, period)}

\* The lines of the product filter, if any: _line_filters
Lines(P, d) == {p \in P : Accepts(d.product, p)}
LineKgOfAll(S, d) == Cardinality({l \in S \X Products : l[2] \in products[l[1]]})  \* Mutant
\* _line_totals
LineKg(S, d) == Cardinality({l \in S \X Products : l[2] \in Lines(products[l[1]], d)})
\* _loss_kg_column
LossKg(S, d) == Cardinality({l \in S \X Products : l[2] \in Lines(lossRow[l[1]].products, d)})

-----------------------------------------------------------------------------
(* MetricsService.                                                         *)

Overview(d, period) ==
  LET S == Matches(d)
      T == Matches(AnyProduct(d))
      L == LostIn(LossMatches(d), period)
      C == CreatedIn(T, period)
  IN [created |-> Cardinality(CreatedIn(S, period)),
      won |-> Cardinality(WonIn(S, period)),
      lost |-> Cardinality(L),
      open |-> Cardinality({o \in CreatedIn(S, period) : status[o] \in Active}),
      kgQuoted |-> Cardinality({l \in C \X Products : l[2] \in Lines(products[l[1]], d)}),
      kgWon |-> Cardinality({l \in WonIn(T, period) \X Products :
                               l[2] \in Lines(products[l[1]], d)}),
      kgLost |-> LossKg(L, d),
      kgOpen |-> Cardinality({l \in {o \in C : status[o] \in {"COTIZADA", "NEGOCIACION"}} \X Products :
                               l[2] \in Lines(products[l[1]], d)})]

\* The names that the losses of a product were recorded under.
LossNames(L, p) == {lossRow[i].names[p] : i \in {k \in L : p \in lossRow[k].products}}

\* products: the losses come in groups of one product and one name, in no order,
\* and a dictionary by product keeps one of its groups: that of the name `kept'.
KeptNames(d, period) ==
  LET L == LostIn(LossMatches(AnyProduct(d)), period) IN
  {kept \in [Products -> Names] :
     \A p \in Products : LossNames(L, p) = {} \/ kept[p] \in LossNames(L, p)}

ByProduct(d, period, kept) ==
  LET C == CreatedIn(Matches(AnyProduct(d)), period)
      W == WonIn(Matches(AnyProduct(d)), period)
      L == LostIn(LossMatches(AnyProduct(d)), period)
      Having(S, p) == {o \in S : p \in products[o]}
  IN [p \in Lines(Products, d) |->
        [quoted |-> Cardinality(Having(C, p)), won |-> Cardinality(Having(W, p)),
         lost |-> Cardinality({i \in L : p \in lossRow[i].products /\
                                         lossRow[i].names[p] = kept[p]})]]

\* sources
BySource(d, period) ==
  LET C == CreatedIn(Matches(d), period)
      W == WonIn(Matches(d), period)
      L == LostIn(LossMatches(d), period)
  IN [s \in Sources |->
        [created |-> Cardinality({o \in C : source[o] = s}),
         won |-> Cardinality({o \in W : source[o] = s}),
         lost |-> Cardinality({i \in L : lossRow[i].source = s})]]

\* provinces: the customer's for what is created and won, the snapshot's for
\* what is lost.
ByProvince(d, period) ==
  LET Of(S, v) == {o \in S : province[customer[o]] = v}
      C == CreatedIn(Matches(d), period)
      W == WonIn(Matches(d), period)
      L == LostIn(LossMatches(d), period)
  IN [v \in Provinces |->
        [created |-> Cardinality(Of(C, v)), won |-> Cardinality(Of(W, v)),
         lost |-> Cardinality({i \in L : lossRow[i].province = v}),
         kgQuoted |-> LineKg(Of(C, v), d), kgWon |-> LineKg(Of(W, v), d),
         kgLost |-> LossKg({i \in L : lossRow[i].province = v}, d)]]

\* timeline, by day; _period_buckets
Timeline(d, period) ==
  LET C == CreatedIn(Matches(d), period)
      W == WonIn(Matches(d), period)
      L == LostIn(LossMatches(d), period)
      won(t) == {o \in W : enteredAt[o] = t}
      lost(t) == {i \in L : lossRow[i].at = t}
  IN [t \in period[1]..(period[2] - 1) |->
        [created |-> Cardinality({o \in C : createdAt[o] = t}),
         won |-> Cardinality(won(t)), lost |-> Cardinality(lost(t)),
         kgWon |-> LineKg(won(t), d), kgLost |-> LossKg(lost(t), d)]]

\* timeline_day_opportunities, _day_period: opportunities, or losses.
DayOpportunities(t, series, d) ==
  LET day == <<t, t + 1>> IN
  CASE series = "lost" -> LostIn(LossMatches(d), day)
    [] series = "created" -> CreatedIn(Matches(d), day)
    [] series = "won" -> WonIn(Matches(d), day)

\* metric_opportunities; what is active has no period.
MetricOpportunities(kind, d, period) ==
  CASE kind = "lost" -> LostIn(LossMatches(d), period)
    [] kind = "created" -> CreatedIn(Matches(d), period)
    [] kind = "won" -> WonIn(Matches(d), period)
    [] kind \in Statuses -> {o \in Matches(d) : status[o] = kind}
    [] kind = "active" -> {o \in Matches(d) : status[o] \in Active}

\* pipeline
Pipeline(d) == [s \in Statuses |-> Cardinality({o \in Matches(d) : status[o] = s})]

-----------------------------------------------------------------------------
(* Lists.                                                                  *)

\* OpportunityQueryService.list_opportunities
Listed(s, src) ==
  {o \in Created \ deleted :
     /\ status[o] # "PERDIDA"
     /\ Accepts(s, status[o]) /\ Accepts(src, source[o])}

LatestLosses == {Max({i \in DOMAIN lossRow : lossRow[i].opportunity = o}) :
                 o \in {lossRow[i].opportunity : i \in DOMAIN lossRow}}

\* LostOpportunityService._conditions, without a period
LostConditions(d) ==
  {i \in DOMAIN lossRow :
     /\ Accepts(d.source, lossRow[i].source)
     /\ Accepts(d.province, lossRow[i].province)
     /\ d.product = Nobody \/ d.product \in lossRow[i].products}

CurrentLosses ==
  {i \in LatestLosses :
     LET o == lossRow[i].opportunity IN status[o] = "PERDIDA" /\ o \notin deleted}

\* LostOpportunityService.statistics
LostStatistics(d) ==
  LET events == LostConditions(d)
      current == events \cap CurrentLosses
  IN [current |-> Cardinality(current), currentKg |-> LossKg(current, AnyProduct(d)),
      historical |-> Cardinality(events), historicalKg |-> LossKg(events, AnyProduct(d)),
      reopened |-> Cardinality({i \in events :
        LET o == lossRow[i].opportunity IN
        \E k \in DOMAIN reopens[o] : lossRow[i].entry = losses[o][reopens[o][k].loss].entry})]

\* The rows of a list: ids with the time they are ordered by.
Rows(list, d) ==
  IF list = "lost"
  THEN {[at |-> lossRow[i].at, id |-> i] : i \in LostConditions(d) \cap CurrentLosses}
  ELSE {[at |-> enteredAt[o], id |-> o] : o \in {p \in Matches(d) : status[p] = "GANADA"}}

\* The order of both lists, descending.
Precedes(q, r) == q.at > r.at \/ (q.at = r.at /\ q.id > r.id)

AfterByTime(r, cursor) == r.at < cursor.at  \* Mutant: the id does not break ties
\* The condition of a further page.
After(r, cursor) == r.at < cursor.at \/ (r.at = cursor.at /\ r.id < cursor.id)
NoCursor == [at |-> MaxTime + 1, id |-> 0]

\* list_current and list: a page of the rows after the cursor.
Page(list, d, cursor) ==
  LET rest == {r \in Rows(list, d) : After(r, cursor)} IN
  {r \in rest : Cardinality({q \in rest : Precedes(q, r)}) < PageSize}

NoWalk == [list |-> "won", filter |-> Nobody, stage |-> "idle", cursor |-> NoCursor,
           page |-> {}, more |-> FALSE, shown |-> {}, kept |-> {}]

-----------------------------------------------------------------------------
ReportsInit ==
  /\ Init
  /\ now = 0
  /\ createdAt = [o \in Opportunities |-> 0]
  /\ enteredAt = [o \in Opportunities |-> 0]
  /\ lossRow = <<>>
  /\ province \in [Customers -> Provinces]
  /\ name \in [Products -> Names]
  /\ \A p, q \in Products : name[p] = name[q] => p = q
  /\ moves = 0 /\ begun = 0
  /\ walk = [w \in Walks |-> NoWalk]

\* Rows that stay in a list as they are while a reader pages through it.
Listings == [l \in Lists \X Dimensions |-> Rows(l[1], l[2])]
Keep == walk' = [w \in Walks |-> [walk[w] EXCEPT !.kept =
                   IF walk[w].stage = "idle" THEN {}
                   ELSE @ \cap Listings'[<<walk[w].list, walk[w].filter>>]]]

\* _record_loss_event: the row with its snapshots.
LossOf(o) ==
  [opportunity |-> o, at |-> now, entry |-> Len(history[o]) + 1, source |-> source[o],
   province |-> province[customer[o]], products |-> products[o],
   names |-> [p \in products[o] |-> name[p]]]

\* A step of the pipeline and the times it writes.
PipelineStep ==
  /\ Next
  /\ createdAt' = [o \in Opportunities |->
       IF status[o] = "none" /\ status'[o] # "none" THEN now ELSE createdAt[o]]
  /\ enteredAt' = [o \in Opportunities |-> IF history'[o] # history[o] THEN now ELSE enteredAt[o]]
  /\ lossRow' = IF losses' = losses THEN lossRow
                ELSE Append(lossRow, LossOf(CHOOSE o \in Opportunities : losses'[o] # losses[o]))
  /\ UNCHANGED <<now, province, name, moves, begun>>
  /\ Keep

Tick ==
  /\ now < MaxTime
  /\ now' = now + 1
  /\ UNCHANGED <<vars, createdAt, enteredAt, lossRow, province, name, moves, walk, begun>>

\* CustomerService.update_customer
MoveCustomer(c, v) ==
  /\ Unheld(c) /\ c \notin archived
  /\ v # province[c] /\ moves < MaxMoves
  /\ province' = [province EXCEPT ![c] = v]
  /\ moves' = moves + 1
  /\ UNCHANGED <<vars, now, createdAt, enteredAt, lossRow, name, begun>>
  /\ Keep

\* ProductService.update_product: a name no other product has.
RenameProduct(p, n) ==
  /\ \A q \in Products : name[q] # n
  /\ moves < MaxMoves
  /\ name' = [name EXCEPT ![p] = n]
  /\ moves' = moves + 1
  /\ UNCHANGED <<vars, now, createdAt, enteredAt, lossRow, province, begun>>
  /\ Keep

\* The first statement of a page.
Fetch(w, list, d, cursor, shown, kept) ==
  LET page == Page(list, d, cursor)
      rest == {r \in Rows(list, d) : After(r, cursor)} \ page
  IN walk' = [walk EXCEPT ![w] =
       [list |-> list, filter |-> d, stage |-> "page", cursor |-> cursor, page |-> page,
        more |-> rest # {}, shown |-> shown, kept |-> kept]]

BeginWalk(w, list, d) ==
  /\ walk[w].stage = "idle" /\ begun < MaxWalks
  /\ begun' = begun + 1
  /\ Fetch(w, list, d, NoCursor, {}, Rows(list, d))
  /\ UNCHANGED <<vars, now, createdAt, enteredAt, lossRow, province, name, moves>>

NextPage(w) ==
  /\ walk[w].stage = "more"
  /\ Fetch(w, walk[w].list, walk[w].filter, walk[w].cursor, walk[w].shown, walk[w].kept)
  /\ UNCHANGED <<vars, now, createdAt, enteredAt, lossRow, province, name, moves, begun>>

\* A page is shown, and the cursor is its last row.
Turned(v) ==
  LET last == CHOOSE r \in v.page : \A q \in v.page : ~Precedes(r, q) IN
  [v EXCEPT !.shown = v.shown \cup {r.id : r \in v.page}, !.page = {},
            !.cursor = IF v.more THEN last ELSE v.cursor,
            !.stage = IF v.more THEN "more" ELSE "read"]

\* The further statements of a page, which read the opportunities: the lost
\* list reads each by itself and fails when one has been deleted meanwhile.
ShowPage(w) ==
  LET failed == walk[w].list = "lost" /\
                  \E r \in walk[w].page : lossRow[r.id].opportunity \in deleted
  IN
  /\ walk[w].stage = "page"
  /\ walk' = [walk EXCEPT ![w] = IF failed THEN NoWalk ELSE Turned(walk[w])]
  /\ UNCHANGED <<vars, now, createdAt, enteredAt, lossRow, province, name, moves, begun>>

Close(w) ==
  /\ walk[w].stage \in {"more", "read"}
  /\ walk' = [walk EXCEPT ![w] = NoWalk]
  /\ UNCHANGED <<vars, now, createdAt, enteredAt, lossRow, province, name, moves, begun>>

ReportsNext ==
  \/ PipelineStep
  \/ Tick
  \/ \E c \in Customers, v \in Provinces : MoveCustomer(c, v)
  \/ \E p \in Products, n \in Names : RenameProduct(p, n)
  \/ \E w \in Walks :
       \/ \E list \in Lists, d \in Dimensions : BeginWalk(w, list, d)
       \/ NextPage(w) \/ ShowPage(w) \/ Close(w)

ReportsSpec == ReportsInit /\ [][ReportsNext]_<<vars, reportVars>>

-----------------------------------------------------------------------------
(* Properties                                                              *)

Total(f, field) == MapThenSumSet(LAMBDA x : f[x][field], DOMAIN f)

\* Every loss of the period that has the product was recorded under one name.
OneNameEach(d, period) ==
  LET L == LostIn(LossMatches(AnyProduct(d)), period) IN
  \A p \in Products : \A m, n \in LossNames(L, p) : m = n

\* CRM-041: "denominator is the sum of returned source Created counts and equals
\* overview Created".  Whatever was created, quoted, won, lost, reopened, regressed
\* and moved, the statements behind one dashboard agree with each other: a card
\* is the sum of its sources, provinces, products and days, a day and a period
\* open the opportunities that they count, and a loss is a current one, a reopened
\* one, or of an opportunity that has been deleted.  The products say no more kg
\* lost than the card, and less only if a product was renamed between two losses.
ReportsAgree ==
  \A d \in Dimensions :
    /\ d.product = Nobody /\ d.province = Nobody =>
         \A s \in Statuses \ {"PERDIDA"} : Pipeline(d)[s] = Cardinality(Listed(s, d.source))
    /\ LET t == LostStatistics(d) IN
         t.historical = t.current + t.reopened + Cardinality(
           {i \in LostConditions(d) \cap LatestLosses :
              LET o == lossRow[i].opportunity IN o \in deleted /\ status[o] = "PERDIDA"})
    /\ \A period \in Periods :
         LET v == Overview(d, period)
             sources == BySource(d, period)
             provinces == ByProvince(d, period)
             days == Timeline(d, period)
         IN
         /\ \A kind \in {"created", "won", "lost"} :
              /\ v[kind] = Total(sources, kind) /\ v[kind] = Total(provinces, kind)
              /\ v[kind] = Total(days, kind)
              /\ \A t \in DOMAIN days : days[t][kind] = Cardinality(DayOpportunities(t, kind, d))
              /\ MetricOpportunities(kind, d, period) =
                   UNION {DayOpportunities(t, kind, d) : t \in DOMAIN days}
         /\ \A kg \in {"kgWon", "kgLost"} :
              v[kg] = Total(provinces, kg) /\ v[kg] = Total(days, kg)
         /\ v.kgQuoted = Total(provinces, "kgQuoted")
         /\ \A kept \in KeptNames(d, period) :
              LET goods == ByProduct(d, period, kept) IN
              /\ v.kgQuoted = Total(goods, "quoted") /\ v.kgWon = Total(goods, "won")
              /\ Total(goods, "lost") <= v.kgLost
              /\ OneNameEach(d, period) => Total(goods, "lost") = v.kgLost

\* Not so: the losses of a product that was renamed between two of them.
ProductsAddUp ==
  \A d \in Dimensions, period \in Periods : \A kept \in KeptNames(d, period) :
    Total(ByProduct(d, period, kept), "lost") = Overview(d, period).kgLost

\* CRM-041: "reopening never removes a prior period loss; a later repeated loss is
\* another outcome episode".  Nor does a regression, an edit of the quote or a
\* customer's move: the losses of a period that is over change only when an
\* opportunity is deleted.
LossesStay ==
  [][\A d \in Dimensions, period \in Periods :
       period[2] <= now =>
         MetricOpportunities("lost", d, period)' =
           {i \in MetricOpportunities("lost", d, period) :
              lossRow[i].opportunity \notin deleted'}]_<<vars, reportVars>>

\* CRM-012, CRM-039: a reader who pages to the end of the lost or the won list
\* while commands commit is shown every row that stays as it was, and no row
\* twice.
ListsAreComplete ==
  \A w \in Walks :
    /\ walk[w].stage = "read" => {r.id : r \in walk[w].kept} \subseteq walk[w].shown
    /\ {r.id : r \in walk[w].page} \cap walk[w].shown = {}
=============================================================================
