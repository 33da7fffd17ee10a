-------------------------------- MODULE Notes --------------------------------
(***************************************************************************)
(* The notes of opportunities.  A note is a chain of immutable revisions;  *)
(* a command appends one.  Its transaction first looks for a revision with *)
(* the command's id, without a lock, and then locks the opportunity, the   *)
(* note and its latest revision.  The commands are those of requests that  *)
(* Sessions has admitted; opportunities are deleted by others meanwhile.   *)
(***************************************************************************)
EXTENDS Sessions, Sequences, SequencesExt

CONSTANTS
  Opportunities, CommandIds, Bodies,
  Keep,      \* a field the command does not give
  MaxTime,   \* bound: times at which transactions begin
  MaxNotes   \* bound: notes

ASSUME NotesAssumption ==
  /\ Keep \notin Bodies \cup BOOLEAN /\ MaxTime \in Nat \ {0} /\ MaxNotes \in Nat

Times == 1..MaxTime
NoteIds == 1..MaxNotes
Commands ==
  [id : CommandIds, opportunity : Opportunities, note : 0..MaxNotes, expected : Nat,
   body : Bodies \cup {Keep}, pinned : BOOLEAN \cup {Keep}, actor : Users]

VARIABLES
  opportunities,  \* "live" or "deleted"
  notes,          \* OpportunityNote rows: the opportunity and the author
  revisions,      \* OpportunityNoteRevision rows
  command,        \* per request: the command whose id it has not found, or NoUser
  answers         \* the commands that were answered with a revision, and which

noteVars == <<opportunities, notes, revisions, command, answers>>
vars == <<sessionVars, noteVars>>

NotesInit ==
  /\ Init
  /\ opportunities = [o \in Opportunities |-> "live"]
  /\ notes = <<>> /\ revisions = <<>>
  /\ command = [q \in Requests |-> NoUser]
  /\ answers = {}

-----------------------------------------------------------------------------
Of(n) == {i \in 1..Len(revisions) : revisions[i].note = n}
\* _latest_revision
Latest(n) == CHOOSE i \in Of(n) : \A j \in Of(n) : revisions[j].number <= revisions[i].number
With(id) == {i \in 1..Len(revisions) : revisions[i].command = id}

Given(value, old) == IF value = Keep THEN old ELSE value
\* The revision a command asks for, number aside; expected is 0 when it creates the note.
Matches(k, i) ==
  LET r == revisions[i] IN
  /\ notes[r.note].opportunity = k.opportunity
  /\ k.expected > 0 => r.note = k.note
  /\ r.number = k.expected + 1
  /\ r.actor = k.actor
  /\ r.body = Given(k.body, r.body) /\ r.pinned = Given(k.pinned, r.pinned)

Finished(q) == request' = [request EXCEPT ![q] = Idle]
Answer(k, i) == answers' = answers \cup {[command |-> k, revision |-> i]}

MatchesId(k, i) == TRUE  \* Mutant: the id alone identifies a command
Replays(k, i) == Matches(k, i)

\* The commands a client can send: it has seen the revision it expects.
Sendable(q) ==
  {k \in [id : CommandIds, opportunity : Opportunities, note : 0..Len(notes),
          expected : 0..Len(revisions), body : Bodies \cup {Keep},
          pinned : BOOLEAN \cup {Keep}, actor : {request[q].token.user}] :
     IF k.expected = 0
     THEN k.note = 0 /\ k.body # Keep /\ k.pinned # Keep
     ELSE /\ k.body # Keep \/ k.pinned # Keep
          /\ \E i \in Of(k.note) : revisions[i].number = k.expected}

\* create, revise: the replay lookup.
Replay(q, k) ==
  /\ request[q].step = "admitted" /\ command[q] = NoUser /\ Spend("notes")
  /\ \E i \in With(k.id) :
       IF Replays(k, i) THEN Answer(k, i) ELSE UNCHANGED answers  \* IdempotencyConflict
  /\ Finished(q)
  /\ UNCHANGED <<users, tokens, revoked, opportunities, notes, revisions, command>>

NotFound(q, k) ==
  /\ request[q].step = "admitted" /\ command[q] = NoUser /\ Spend("notes")
  /\ With(k.id) = {}
  /\ command' = [command EXCEPT ![q] = k]
  /\ UNCHANGED <<users, tokens, revoked, request, opportunities, notes, revisions, answers>>

\* create, under the opportunity's lock.
Create(q, at) ==
  LET k == command[q]
      revision == [note |-> Len(notes) + 1, number |-> 1, body |-> k.body, pinned |-> k.pinned,
                   actor |-> k.actor, command |-> k.id, at |-> at, expected |-> 0]
  IN /\ k # NoUser /\ k.expected = 0
     /\ opportunities[k.opportunity] = "live" /\ With(k.id) = {} /\ Len(notes) < MaxNotes
     /\ notes' = Append(notes, [opportunity |-> k.opportunity, author |-> k.actor])
     /\ revisions' = Append(revisions, revision)
     /\ Answer(k, Len(revisions) + 1)
     /\ command' = [command EXCEPT ![q] = NoUser] /\ Finished(q)
     /\ UNCHANGED <<users, tokens, revoked, budget, opportunities>>

AnyRevision(k, latest) == TRUE  \* Mutant: expected_revision is not compared
ExpectedRevision(k, latest) == latest.number = k.expected

Changes(k, latest) ==
  Given(k.body, latest.body) # latest.body \/ Given(k.pinned, latest.pinned) # latest.pinned

\* revise, under the locks of the opportunity, the note and its latest revision.
Revise(q, at) ==
  LET k == command[q] IN
  /\ k # NoUser /\ k.expected > 0
  /\ opportunities[k.opportunity] = "live" /\ notes[k.note].opportunity = k.opportunity
  /\ LET latest == revisions[Latest(k.note)] IN
     /\ ExpectedRevision(k, latest) /\ Changes(k, latest) /\ With(k.id) = {}
     /\ latest.at <= at
     /\ revisions' = Append(revisions,
          [note |-> k.note, number |-> latest.number + 1, body |-> Given(k.body, latest.body),
           pinned |-> Given(k.pinned, latest.pinned), actor |-> k.actor, command |-> k.id,
           at |-> at, expected |-> k.expected])
  /\ Answer(k, Len(revisions) + 1)
  /\ command' = [command EXCEPT ![q] = NoUser] /\ Finished(q)
  /\ UNCHANGED <<users, tokens, revoked, budget, opportunities, notes>>

\* The opportunity or the note is not found, the revision is stale or changes
\* nothing, the id is taken by now (its unique constraint), or the process died.
Refuse(q) ==
  /\ command[q] # NoUser
  /\ command' = [command EXCEPT ![q] = NoUser] /\ Finished(q)
  /\ UNCHANGED <<users, tokens, revoked, budget, opportunities, notes, revisions, answers>>

\* OpportunityService.soft_delete
DeleteOpportunity(o) ==
  /\ opportunities[o] = "live" /\ Spend("changes")
  /\ opportunities' = [opportunities EXCEPT ![o] = "deleted"]
  /\ UNCHANGED <<users, tokens, revoked, request, notes, revisions, command, answers>>

NoteStep(q) ==
  \/ \E k \in Sendable(q) : Replay(q, k) \/ NotFound(q, k)
  \/ \E at \in Times : Create(q, at) \/ Revise(q, at)
  \/ Refuse(q)

SessionsNext ==
  /\ \/ \E q \in Requests : command[q] = NoUser /\ (SessionStep(q) \/ UserStep(q))
     \/ \E t \in tokens : Expire(t)
     \/ \E email \in Emails, password \in Passwords : ResetPassword(email, password)
  /\ UNCHANGED noteVars

NotesNext ==
  \/ SessionsNext
  \/ \E q \in Requests : request[q].step = "admitted" /\ NoteStep(q)
  \/ \E o \in Opportunities : DeleteOpportunity(o)

NotesSpec == NotesInit /\ [][NotesNext]_vars

-----------------------------------------------------------------------------
(* list_current                                                            *)

Listed(o, pins) ==
  {i \in 1..Len(revisions) :
     /\ notes[revisions[i].note].opportunity = o /\ i = Latest(revisions[i].note)
     /\ revisions[i].pinned \in pins}

\* ORDER BY is_pinned DESC, created_at DESC, id DESC
Precedes(i, j) ==
  LET r == revisions[i]
      s == revisions[j]
  IN \/ r.pinned /\ ~s.pinned
     \/ r.pinned = s.pinned /\ (r.at > s.at \/ (r.at = s.at /\ r.note > s.note))
Sorted(S) == CHOOSE s \in SetToSeqs(S) : \A j, k \in DOMAIN s : j < k => Precedes(s[j], s[k])

AfterTime(i, cursor) == revisions[i].at < revisions[cursor].at  \* Mutant: the id does not break ties
AfterInGroup(i, cursor) ==
  \/ revisions[i].at < revisions[cursor].at
  \/ revisions[i].at = revisions[cursor].at /\ revisions[i].note < revisions[cursor].note
\* The cursor holds the pin, the time and the id of the last revision of a page.
AfterCursor(i, cursor) ==
  \/ ~revisions[i].pinned /\ AfterInGroup(i, cursor)
  \/ revisions[cursor].pinned /\ (~revisions[i].pinned \/ AfterInGroup(i, cursor))

\* A page after a cursor, 0 for the first page, and the cursor of the next, 0 at the end.
Page(o, pins, limit, cursor) ==
  LET rest == {i \in Listed(o, pins) : cursor = 0 \/ AfterCursor(i, cursor)}
      sorted == Sorted(rest)
      items == SubSeq(sorted, 1, IF Len(sorted) < limit THEN Len(sorted) ELSE limit)
  IN [items |-> items, next |-> IF Len(sorted) > limit THEN items[limit] ELSE 0]

\* What a client that follows the cursors has read after n + 1 pages.
Walk(o, pins, limit) ==
  LET walk[n \in Nat] ==
        IF n = 0 THEN Page(o, pins, limit, 0)
        ELSE LET before == walk[n - 1] IN
             IF before.next = 0 THEN before
             ELSE LET page == Page(o, pins, limit, before.next)
                  IN [items |-> before.items \o page.items, next |-> page.next]
  IN walk[MaxNotes]

-----------------------------------------------------------------------------
\* Per note the revisions are numbered without a gap from the one that created
\* it, each was written by an author who had seen the one before it, and it
\* differs from that one; no two revisions have one command id.  So no edit is
\* overwritten unseen and none is applied twice (create, revise).
RevisionsAreChained ==
  /\ \A n \in 1..Len(notes) :
       {revisions[i].number : i \in Of(n)} = 1..Cardinality(Of(n)) /\ Of(n) # {}
  /\ \A i \in 1..Len(revisions) :
       /\ With(revisions[i].command) = {i}
       /\ revisions[i].expected = revisions[i].number - 1
       /\ \A j \in Of(revisions[i].note) : revisions[j].number = revisions[i].number - 1 =>
            revisions[i].body # revisions[j].body \/ revisions[i].pinned # revisions[j].pinned

\* Whoever is answered with a revision, at once or after a retry, is answered
\* with one that he wrote and that says what his command said (the replay checks
\* of create and revise).
AnswersAreOwn ==
  \A a \in answers : Matches(a.command, a.revision) /\ a.command.id = revisions[a.revision].command

\* A client that follows the cursors reads every current note of the opportunity
\* once and in order, whatever the page size and though revisions of one time
\* are many (list_current, _decode_cursor).
PagesAreComplete ==
  \A o \in Opportunities, pins \in (SUBSET BOOLEAN) \ {{}}, limit \in 1..2 :
    Walk(o, pins, limit) = [items |-> Sorted(Listed(o, pins)), next |-> 0]
=============================================================================
