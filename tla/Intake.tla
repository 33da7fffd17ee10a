------------------------------- MODULE Intake -------------------------------
(***************************************************************************)
(* How customers come to be: signed web leads, manual creation of          *)
(* opportunities, CSV imports in two phases, edits by hand, and the        *)
(* Legendary recomputation that meets them on the same locks.  Requests    *)
(* are PostgreSQL transactions at READ COMMITTED, split at each lock they  *)
(* may wait for; what a transaction writes becomes visible in its Commit   *)
(* action.  Values a request compares as a whole (names, message,          *)
(* assignee, actor, digest) are one member of Rests.                       *)
(***************************************************************************)
EXTENDS Naturals, Sequences, FiniteSets, SequencesExt

CONSTANTS
  Requests,      \* transactions, each used once
  Submissions,   \* external submission ids of web leads
  Commands,      \* command ids of manual creations and of import commits
  Batches,       \* customer import batches, by their client import id
  Files,         \* contents of a CSV file: sequences of profiles
  Emails,        \* normalised e-mail addresses
  Phones,        \* telephone texts as stored
  Companies,     \* a field that identifies nobody; stands for name, company, province
  Nothing,       \* an absent e-mail, telephone, key, id
  KeyOf,         \* [Phones -> match keys and Nothing], Nothing: under 7 digits
  Rank,          \* the numeric order of the hashed advisory keys
  Offered,       \* the profiles that requests and hands bring
  Rests,         \* the other fields of a payload
  Kinds,         \* the kinds of request that occur
  Beginnings,    \* sequences of customers a run starts from
  MaxByHand      \* bound: edits, creations and deletions by hand

\* The two ledgers of the code are one here.
ASSUME IdsAreDistinct == Submissions \cap Commands = {}

ASSUME OfferedAreProfiles ==
  Offered \subseteq [email : Emails \cup {Nothing}, phone : Phones \cup {Nothing},
                     company : Companies \cup {Nothing}]

VARIABLES customers, opportunities, ledger, batches, req, byHand
vars == <<customers, opportunities, ledger, batches, req, byHand>>

Profiles == [email : Emails \cup {Nothing}, phone : Phones \cup {Nothing},
             company : Companies \cup {Nothing}]
Blank == [email |-> Nothing, phone |-> Nothing, company |-> Nothing]

\* A file without rows is one erroneous row (_parse).
ASSUME FilesAreProfiles == Files \subseteq Seq(Profiles) \ {<<>>}

\* The keys of pg_advisory_xact_lock but the Legendary ones; two keys of one
\* hash would be one lock and are left out.
AdvisoryKeys ==
  ({"id"} \X (Submissions \cup Commands)) \cup ({"batch"} \X Batches) \cup ({"email"} \X Emails)
    \cup ({"phone"} \X ({KeyOf[t] : t \in Phones} \ {Nothing}))

ASSUME RanksAreDistinct ==
  /\ \A k \in AdvisoryKeys : Rank[k] \in Nat
  /\ \A j, k \in AdvisoryKeys : Rank[j] = Rank[k] => j = k

ASSUME RequestsAreFinite == IsFiniteSet(Requests)

\* The exact signals two customers may share, and the locks named after them.
Signals(p) ==
  {<<"email", e>> : e \in {p.email} \ {Nothing}}
    \cup {<<"phone", k>> : k \in {KeyOf[t] : t \in {p.phone} \ {Nothing}} \ {Nothing}}
EmailSignals(p) == {s \in Signals(p) : s[1] = "email"}
PhoneSignals(p) == {s \in Signals(p) : s[1] = "phone"}

\* The rows a match statement returns, deleted customers included.
Matching(signals) == {c \in DOMAIN customers : signals \cap Signals(customers[c]) # {}}
Live(cs) == {c \in cs : customers[c].live}

\* Only fields that are missing take what the profile brings.
Filled(old, new) == IF old = Nothing THEN new ELSE old
Enriched(c, p) ==
  [c EXCEPT !.email = Filled(@, p.email), !.phone = Filled(@, p.phone),
            !.company = Filled(@, p.company)]
WouldEnrich(c, p) == Enriched(c, p) # c

\* A customer row; given: the signals somebody typed into it by hand.
CustomerRows ==
  [email : Emails \cup {Nothing}, phone : Phones \cup {Nothing},
   company : Companies \cup {Nothing}, live : BOOLEAN, given : SUBSET AdvisoryKeys]
Customer(p, given) ==
  [email |-> p.email, phone |-> p.phone, company |-> p.company,
   live |-> TRUE, given |-> given]

\* Two live customers of one signal: somebody typed it into one of them.
SharedByHand(cs) ==
  \A c, d \in DOMAIN cs :
    c # d /\ cs[c].live /\ cs[d].live
      => Signals(cs[c]) \cap Signals(cs[d]) \subseteq cs[c].given \cup cs[d].given

\* A run starts from customers that earlier requests may have left.
ASSUME BeginningsAreSound ==
  Beginnings \subseteq Seq(CustomerRows) /\ \A cs \in Beginnings : SharedByHand(cs)

\* A request: what it was asked, its place, its locks, what it found.  target:
\* the customer it works on, 0 a new one; plan: the rows of an import decided.
Idle ==
  [kind |-> "idle", id |-> Nothing, profile |-> Blank, rest |-> Nothing, asked |-> 0,
   target |-> 0, batch |-> Nothing, item |-> 0, plan |-> <<>>, step |-> "ready",
   wanted |-> {}, held |-> {}, rows |-> {}, found |-> {}, outcome |-> "open", answer |-> 0]

\* seen: the customers the preview was made from.
NoBatch == [status |-> "NONE", rows |-> <<>>, command |-> Nothing, seen |-> <<>>]

Init ==
  /\ customers \in Beginnings
  /\ opportunities = <<>>
  /\ ledger = [i \in {} |-> 0]
  /\ batches = [b \in Batches |-> NoBatch]
  /\ req = [r \in Requests |-> Idle]
  /\ byHand = 0

-----------------------------------------------------------------------------
(* Locks.  An advisory lock and a row lock last until the transaction ends. *)

Others(r) == Requests \ {r}
Holders(r, k) == {s \in Others(r) : k \in req[s].held}
Lockers(r, cs) == {s \in Others(r) : req[s].rows \cap cs # {}}
RowFree(c) == \A s \in Requests : c \notin req[s].rows

NextUnsorted(kind, keys) ==  \* Mutant: an import takes its keys in another order
  CHOOSE k \in keys :
    \A j \in keys : IF kind = "import" THEN Rank[k] >= Rank[j] ELSE Rank[k] <= Rank[j]
NextKey(kind, keys) == CHOOSE k \in keys : \A j \in keys : Rank[k] <= Rank[j]

\* The Legendary key of a customer; nobody else can know a new customer's.
FlagKeys(c) == {<<"legendary", d>> : d \in {c} \ {0}}

\* What a waiting request waits for: an advisory key, or customer rows.
KeyNeeded(r) ==
  CASE req[r].step = "locks" -> {NextKey(req[r].kind, req[r].wanted)}
    [] req[r].step = "flag" -> FlagKeys(req[r].target)
    [] OTHER -> {}
RowsNeeded(r) ==
  CASE req[r].step = "email" -> Matching(EmailSignals(req[r].profile))
    [] req[r].step = "phone" -> Matching(PhoneSignals(req[r].profile))
    [] req[r].step = "row" -> {IF req[r].kind = "job" THEN req[r].target ELSE req[r].asked}
    [] OTHER -> {}
WaitsFor(r, s) ==
  \/ \E k \in KeyNeeded(r) : s \in Holders(r, k)
  \/ s \in Lockers(r, RowsNeeded(r))

\* Requests that all wait for one another: PostgreSQL's deadlock.
WaitCycles == {S \in (SUBSET Requests) \ {{}} : \A r \in S : \E s \in S \ {r} : WaitsFor(r, s)}

Ended(q, outcome, answer) ==
  [q EXCEPT !.step = "done", !.wanted = {}, !.held = {}, !.rows = {}, !.found = {},
            !.plan = <<>>, !.item = 0, !.target = 0, !.outcome = outcome, !.answer = answer]
Finish(r, outcome, answer) == req' = [req EXCEPT ![r] = Ended(@, outcome, answer)]
Fail(r, outcome) ==
  /\ Finish(r, outcome, 0)
  /\ UNCHANGED <<customers, opportunities, ledger, batches, byHand>>
Advance(r, q) ==
  /\ req' = [req EXCEPT ![r] = q]
  /\ UNCHANGED <<customers, opportunities, ledger, batches, byHand>>

TakeKey(r) ==
  /\ req[r].step = "locks"
  /\ LET k == NextKey(req[r].kind, req[r].wanted)
         rest == req[r].wanted \ {k}
     IN /\ Holders(r, k) = {}
        /\ Advance(r, [req[r] EXCEPT !.held = @ \cup {k}, !.wanted = rest,
                         !.step = IF rest # {} THEN "locks"
                                  ELSE IF req[r].item = 0 THEN "lookup" ELSE "email"])

\* PostgreSQL aborts one transaction of a cycle: it leaves nothing behind.
AbortDeadlocked(r) ==
  /\ \E S \in WaitCycles : r \in S
  /\ Fail(r, "deadlock")

-----------------------------------------------------------------------------
(* Identity: two statements that lock the rows they match.                  *)

LockEmailMatches(r) ==
  /\ req[r].step = "email"
  /\ LET matches == Matching(EmailSignals(req[r].profile))
     IN /\ Lockers(r, matches) = {}
        /\ Advance(r, [req[r] EXCEPT !.rows = @ \cup matches, !.found = matches,
                                     !.step = "phone"])

LockPhoneMatches(r) ==
  /\ req[r].step = "phone"
  /\ LET matches == Matching(PhoneSignals(req[r].profile))
     IN /\ Lockers(r, matches) = {}
        /\ Advance(r, [req[r] EXCEPT !.rows = @ \cup matches, !.found = @ \cup matches,
                                     !.step = "decide"])

Ambiguous(found) == Cardinality(Live(found)) > 1
HasDeleted(found) == found # Live(found)
TheCustomer(found) == CHOOSE c \in Live(found) : TRUE

-----------------------------------------------------------------------------
(* Leads and manual creation.                                               *)

KeysWithoutId(id, profile) ==  \* Mutant: an identity alone is locked
  IF Signals(profile) = {} THEN {<<"id", id>>} ELSE Signals(profile)
KeysWithoutPhone(id, profile) == {<<"id", id>>} \cup EmailSignals(profile)  \* Mutant
LockKeys(id, profile) == {<<"id", id>>} \cup Signals(profile)

Begin(r, q) ==
  /\ req[r].step = "ready" /\ q.kind \in Kinds
  /\ Advance(r, q)

BeginLead(r, id, profile, rest) ==
  Begin(r, [Idle EXCEPT !.kind = "lead", !.id = id, !.profile = profile, !.rest = rest,
              !.wanted = LockKeys(id, profile), !.step = "locks"])

BeginManual(r, id, profile, rest) ==
  Begin(r, [Idle EXCEPT !.kind = "manual", !.id = id, !.profile = profile, !.rest = rest,
              !.wanted = LockKeys(id, profile), !.step = "locks"])

\* Manual creation for a customer chosen from the list: it may be stale.
BeginChosen(r, id, c, rest) ==
  Begin(r, [Idle EXCEPT !.kind = "chosen", !.id = id, !.rest = rest, !.asked = c,
              !.wanted = {<<"id", id>>}, !.step = "locks"])

Payload(q) == [profile |-> q.profile, rest |-> q.rest, asked |-> q.asked]

\* The durable record of the id decides: replay, conflict, or go on.
LookUp(r) ==
  LET q == req[r] IN
  /\ q.step = "lookup" /\ q.kind \in {"lead", "manual", "chosen"}
  /\ IF q.id \in DOMAIN ledger
     THEN IF ledger[q.id].payload = Payload(q)
          THEN /\ Finish(r, "replayed", ledger[q.id].opportunity)
               /\ UNCHANGED <<customers, opportunities, ledger, batches, byHand>>
          ELSE Fail(r, "conflict")
     ELSE IF q.kind # "lead" /\ q.rest = "forbidden"
          THEN Fail(r, "denied")
          ELSE Advance(r, [q EXCEPT !.step = IF q.kind = "chosen" THEN "row" ELSE "email"])

\* A lead takes the customer it matches, deleted ones aside; a manual
\* creation refuses every match.  Target 0 stands for a new customer.
DecideLead(r) ==
  LET q == req[r] IN
  /\ q.step = "decide" /\ q.kind = "lead"
  /\ IF Ambiguous(q.found) THEN Fail(r, "ambiguous")
     ELSE Advance(r, [q EXCEPT !.step = "flag",
                        !.target = IF Live(q.found) = {} THEN 0 ELSE TheCustomer(q.found)])

DecideManual(r) ==
  LET q == req[r] IN
  /\ q.step = "decide" /\ q.kind = "manual"
  /\ IF HasDeleted(q.found) THEN Fail(r, "deleted")
     ELSE IF Ambiguous(q.found) THEN Fail(r, "ambiguous")
     ELSE IF q.found # {} THEN Fail(r, "matched")
     ELSE Advance(r, [q EXCEPT !.step = "flag"])

LockChosen(r) ==
  LET q == req[r] IN
  /\ q.step = "row" /\ q.kind = "chosen"
  /\ Lockers(r, {q.asked}) = {}
  /\ IF customers[q.asked].live
     THEN Advance(r, [q EXCEPT !.rows = {q.asked}, !.target = q.asked, !.step = "flag"])
     ELSE Fail(r, "deleted")

\* The new opportunity recomputes the customer's Legendary flag under its key.
TakeFlagKey(r) ==
  /\ req[r].step = "flag"
  /\ \A k \in FlagKeys(req[r].target) : Holders(r, k) = {}
  /\ Advance(r, [req[r] EXCEPT !.held = @ \cup FlagKeys(req[r].target),
                               !.step = IF req[r].kind = "job" THEN "row" ELSE "commit"])

\* The customer, the opportunity and the record of the id in one commit; the
\* unique constraint on the id rejects a second record.
CommitOpportunity(r) ==
  LET q == req[r]
      c == IF q.target = 0 THEN Len(customers) + 1 ELSE q.target
      o == Len(opportunities) + 1
  IN /\ q.step = "commit" /\ q.kind \in {"lead", "manual", "chosen"}
     /\ IF q.id \in DOMAIN ledger
        THEN Fail(r, "constraint")
        ELSE /\ customers' = IF q.target = 0 THEN Append(customers, Customer(q.profile, {}))
                             ELSE [customers EXCEPT ![c] = Enriched(@, q.profile)]
             /\ opportunities' = Append(opportunities, [customer |-> c, id |-> q.id])
             /\ ledger' = [i \in DOMAIN ledger \cup {q.id} |->
                             IF i = q.id THEN [payload |-> Payload(q), opportunity |-> o]
                                         ELSE ledger[i]]
             /\ Finish(r, "created", o)
             /\ UNCHANGED <<batches, byHand>>


-----------------------------------------------------------------------------
(* Customer import: a preview, then a commit that decides every row again.  *)

RowError(file, i) ==
  LET p == file[i]
      found == Matching(Signals(p))
  IN \/ p.phone # Nothing /\ PhoneSignals(p) = {}
     \/ \E j \in DOMAIN file \ {i} : Signals(file[j]) \cap Signals(p) # {}
     \/ HasDeleted(found) \/ Ambiguous(found)

RowAction(p) ==
  LET found == Live(Matching(Signals(p)))
  IN IF found = {} THEN [profile |-> p, action |-> "CREATE", customer |-> 0]
     ELSE LET c == TheCustomer(found)
          IN [profile |-> p, customer |-> c,
              action |-> IF WouldEnrich(customers[c], p) THEN "ENRICH" ELSE "UNCHANGED"]

\* The dry run, in one step: its unlocked reads are all repeated by the commit.
\* A second dry run of the same import changes nothing.
Preview(b, file) ==
  /\ "import" \in Kinds /\ batches[b].status = "NONE"
  /\ batches' = [batches EXCEPT ![b] =
       IF \E i \in DOMAIN file : RowError(file, i)
       THEN [NoBatch EXCEPT !.status = "INVALID"]
       ELSE [status |-> "VALID", rows |-> [i \in DOMAIN file |-> RowAction(file[i])],
             command |-> Nothing, seen |-> customers]]
  /\ UNCHANGED <<customers, opportunities, ledger, req, byHand>>

BeginImport(r, b, id) ==
  Begin(r, [Idle EXCEPT !.kind = "import", !.batch = b, !.id = id,
              !.wanted = {<<"batch", b>>}, !.step = "locks"])

AtRow(q, i) ==
  [q EXCEPT !.item = i, !.profile = batches[q.batch].rows[i].profile, !.found = {}]

LookUpBatch(r) ==
  LET q == req[r]
      b == batches[q.batch]
      signals == UNION {Signals(b.rows[i].profile) : i \in DOMAIN b.rows}
  IN /\ q.step = "lookup" /\ q.kind = "import"
     /\ IF b.status = "COMMITTED"
        THEN Fail(r, IF b.command = q.id THEN "replayed" ELSE "conflict")
        ELSE IF b.status # "VALID" THEN Fail(r, "invalid")
        ELSE Advance(r, [AtRow(q, 1) EXCEPT !.wanted = signals,
                           !.step = IF signals = {} THEN "email" ELSE "locks"])

\* A locked row with what the earlier rows of the plan have written to it.
Working(plan, c) ==
  FoldLeft(LAMBDA row, p : IF p.customer = c THEN Enriched(row, p.profile) ELSE row,
           customers[c], plan)

StaleIdentity(q, row) ==  \* Mutant: what the row would complete is not compared again
  \/ HasDeleted(q.found) \/ Ambiguous(q.found)
  \/ row.action = "CREATE" /\ q.found # {}
  \/ row.action # "CREATE" /\ q.found # {row.customer}
Stale(q, row) ==
  \/ HasDeleted(q.found) \/ Ambiguous(q.found)
  \/ row.action = "CREATE" /\ q.found # {}
  \/ /\ row.action # "CREATE"
     /\ \/ q.found # {row.customer}
        \/ (row.action = "ENRICH") # WouldEnrich(Working(q.plan, row.customer), q.profile)

DecideRow(r) ==
  LET q == req[r]
      rows == batches[q.batch].rows
  IN /\ q.step = "decide" /\ q.kind = "import"
     /\ IF Stale(q, rows[q.item]) THEN Fail(r, "stale")
        ELSE LET planned == [q EXCEPT !.plan = Append(@, rows[q.item])]
             IN Advance(r, IF q.item < Len(rows)
                           THEN [AtRow(planned, q.item + 1) EXCEPT !.step = "email"]
                           ELSE [planned EXCEPT !.step = "commit"])

Applied(cs, row) ==
  IF row.action = "CREATE" THEN Append(cs, Customer(row.profile, {}))
  ELSE [cs EXCEPT ![row.customer] = Enriched(@, row.profile)]

\* Every customer and the batch in one commit.
CommitImport(r) ==
  LET q == req[r] IN
  /\ q.step = "commit" /\ q.kind = "import"
  /\ customers' = FoldLeft(Applied, customers, q.plan)
  /\ batches' = [batches EXCEPT ![q.batch] = [@ EXCEPT !.status = "COMMITTED", !.command = q.id]]
  /\ Finish(r, "created", 0)
  /\ UNCHANGED <<opportunities, ledger, byHand>>

-----------------------------------------------------------------------------
(* Hands and jobs: neither takes the keys of an identity.                   *)

ByHand == byHand < MaxByHand /\ byHand' = byHand + 1

CreateByHand(p) ==
  /\ ByHand
  /\ customers' = Append(customers, Customer(p, Signals(p)))
  /\ UNCHANGED <<opportunities, ledger, batches, req>>

DeleteByHand(c) ==
  /\ ByHand /\ RowFree(c)
  /\ customers' = [customers EXCEPT ![c].live = FALSE]
  /\ UNCHANGED <<opportunities, ledger, batches, req>>

\* An edit locks the row; one that sets the Legendary override then takes the
\* Legendary key.  A stale expected_updated_at only refuses the edit.
BeginEdit(r, c, p) ==
  /\ ByHand
  /\ req[r].step = "ready" /\ "edit" \in Kinds
  /\ req' = [req EXCEPT ![r] = [Idle EXCEPT !.kind = "edit", !.asked = c, !.profile = p,
                                             !.step = "row"]]
  /\ UNCHANGED <<customers, opportunities, ledger, batches>>

LockEdited(r, override) ==
  LET q == req[r] IN
  /\ q.step = "row" /\ q.kind = "edit"
  /\ Lockers(r, {q.asked}) = {}
  /\ IF ~customers[q.asked].live THEN Fail(r, "deleted")
     ELSE Advance(r, [q EXCEPT !.rows = {q.asked}, !.target = q.asked,
                               !.step = IF override THEN "flag" ELSE "commit"])

CommitEdit(r) ==
  LET q == req[r]
      old == customers[q.target]
      new == Customer(q.profile, old.given \cup (Signals(q.profile) \ Signals(old)))
  IN /\ q.step = "commit" /\ q.kind = "edit"
     /\ customers' = [customers EXCEPT ![q.target] = new]
     /\ Finish(r, "created", 0)
     /\ UNCHANGED <<opportunities, ledger, batches, byHand>>

\* The recomputation of all flags: for each customer its key, then its row,
\* all held to the end.  item: the last customer of the batch.
BeginRecompute(r) ==
  /\ customers # <<>>
  /\ Begin(r, [Idle EXCEPT !.kind = "job", !.target = 1, !.item = Len(customers),
                           !.step = "flag"])

LockRecomputed(r) ==
  LET q == req[r] IN
  /\ q.step = "row" /\ q.kind = "job"
  /\ Lockers(r, {q.target}) = {}
  /\ IF q.target < q.item
     THEN Advance(r, [q EXCEPT !.rows = @ \cup {q.target}, !.target = @ + 1, !.step = "flag"])
     ELSE Fail(r, "created")

-----------------------------------------------------------------------------
Requested(r) ==
  \/ \E i \in Submissions, p \in Offered, x \in Rests : BeginLead(r, i, p, x)
  \/ \E i \in Commands, p \in Offered, x \in Rests : BeginManual(r, i, p, x)
  \/ \E i \in Commands, c \in DOMAIN customers, x \in Rests : BeginChosen(r, i, c, x)
  \/ \E b \in Batches, i \in Commands : BeginImport(r, b, i)
  \/ \E c \in DOMAIN customers, p \in Offered : BeginEdit(r, c, p)
  \/ BeginRecompute(r)

Progress(r) ==
  \/ TakeKey(r) \/ TakeFlagKey(r) \/ LookUp(r) \/ LookUpBatch(r)
  \/ LockEmailMatches(r) \/ LockPhoneMatches(r) \/ LockChosen(r)
  \/ DecideLead(r) \/ DecideManual(r) \/ DecideRow(r)
  \/ CommitOpportunity(r) \/ CommitImport(r)
  \/ \E override \in BOOLEAN : LockEdited(r, override)
  \/ CommitEdit(r) \/ LockRecomputed(r) \/ AbortDeadlocked(r)

Next ==
  \/ \E r \in Requests : Requested(r) \/ Progress(r)
  \/ \E b \in Batches, f \in Files : Preview(b, f)
  \/ \E p \in Offered : CreateByHand(p)
  \/ \E c \in DOMAIN customers : DeleteByHand(c)

Spec == Init /\ [][Next]_vars

-----------------------------------------------------------------------------
(* Leads, manual creations and imports look for the customer under the keys *)
(* of every signal they bring, so two live customers share a signal only if *)
(* somebody typed it into one of them, whatever runs at the same time.      *)
DuplicatesOnlyByHand == SharedByHand(customers)

Answered(r) == req[r].outcome \in {"created", "replayed"}

(* A submission or command that is sent again, or twice at once, is         *)
(* answered with the one opportunity it made when it says the same and with *)
(* a conflict when it does not; none ever meets the unique constraint, and  *)
(* an opportunity exists for it exactly once.                               *)
DuplicatesAreAnswered ==
  /\ \A r \in Requests : req[r].outcome # "constraint"
  /\ \A r, s \in Requests :
       /\ req[r].kind \in {"lead", "manual", "chosen"} /\ req[s].kind = req[r].kind
       /\ req[r].id = req[s].id /\ Answered(r) /\ Answered(s)
       => /\ Payload(req[r]) = Payload(req[s])
          /\ req[r].answer = req[s].answer
          /\ opportunities[req[r].answer].id = req[r].id
  /\ \A o, p \in DOMAIN opportunities : opportunities[o].id = opportunities[p].id => o = p

(* An import does what its preview said, to the customers it named, however *)
(* the customers changed between the two: it makes as many customers as it  *)
(* showed, each with no other live customer of its signals except by hand   *)
(* meanwhile, completes the rows it showed as incomplete and no others, and *)
(* overwrites nothing that was known.                                       *)
Knows(new, old) ==
  /\ old.email # Nothing => new.email = old.email
  /\ old.phone # Nothing => new.phone = old.phone
  /\ old.company # Nothing => new.company = old.company
Shown(b, action) == {i \in DOMAIN batches[b].rows : batches[b].rows[i].action = action}
NamedBy(b, action) == {batches[b].rows[i].customer : i \in Shown(b, action)}
ImportDoesAsShown ==
  [][\A b \in Batches :
       batches[b].status # "COMMITTED" /\ batches'[b].status = "COMMITTED"
         => /\ Len(customers') = Len(customers) + Cardinality(Shown(b, "CREATE"))
            /\ \A c \in DOMAIN customers :
                 /\ customers'[c] # customers[c] <=> c \in NamedBy(b, "ENRICH")
                 /\ Knows(customers'[c], customers[c])
            /\ \A c \in NamedBy(b, "ENRICH") \cup NamedBy(b, "UNCHANGED") : customers[c].live]_vars

(* Requests never deadlock on keys alone: the keys of ids and identities    *)
(* are taken in one global order, so every cycle of waiting transactions    *)
(* has one that waits for a customer row.                                   *)
CyclesWaitForRows == \A S \in WaitCycles : \E r \in S : Lockers(r, RowsNeeded(r)) # {}

(* docs/specs/043 gives manual creation the lock order "sorted transaction  *)
(* advisory locks for command and normalized Customer identities, then      *)
(* matching Customer rows": requests in one order cannot deadlock.  The     *)
(* Legendary key is an advisory lock taken after the row.                   *)
NobodyDeadlocks == WaitCycles = {}

(* docs/specs/012: "multiple CSV rows targeting the same identity are       *)
(* errors rather than guesses".  A valid preview can be committed as long   *)
(* as no customer has changed.                                              *)
PreviewCanCommit ==
  [][\A r \in Requests :
       req[r].outcome = "open" /\ req'[r].outcome = "stale"
         => customers # batches[req[r].batch].seen]_vars
=============================================================================
