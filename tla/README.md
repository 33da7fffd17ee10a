# Asfaltos CRM in TLA+

Asfaltos CRM is a FastAPI application over PostgreSQL with a React client: a
sales pipeline of opportunities, a WhatsApp inbox, and WhatsApp Broadcasts.
Several processes serve requests, and command-line jobs (batch processing of
Broadcasts, stale notifications, Legendary recomputation) run beside them.  All
coordination goes through the database: row locks, transaction advisory locks,
unique indexes, and states committed before and after each call of the WhatsApp
provider.  These modules model that coordination.

## Inventory

For every part: the state it keeps, its operations, who else touches the state,
what makes it hard, what makes it correct, and where it is modelled.

| Part (`backend/app/`) | State | Operations | Interacts with | Hard part | Correct when | Module |
|---|---|---|---|---|---|---|
| Broadcast processing (`services/whatsapp_broadcast_service.py`, `whatsapp_message_service.py`, `whatsapp_broadcast_projection_service.py`, `scripts/process_whatsapp_broadcast.py`) | broadcast status; recipient status, claim token and time; message dispatch and provider state, author, retry link | `process_batch`, `retry_failed`, `send` and its transactions, stale-claim recovery | consent, conversations, status webhooks, provider | concurrent processors, I/O between transactions, crashes, claims that time out under a live worker | one provider call per message; a further message only after a failure; every recipient settles; the recipient row follows its latest message | `BroadcastDispatch`, `AttemptLedger` |
| Broadcast draft (same service) | draft version, recipients, validation token, digest, expiry | create, edit, validate, confirm, start | consent | tokens and digests that go stale | only what was validated is started | `BroadcastDraft` |
| Consent (`whatsapp_consent_service.py`) | append-only events | append | draft, dispatch start | a late opt-out | an opt-out that commits first stops the send | `BroadcastDraft`, `BroadcastDispatch` |
| Inbox (`whatsapp_inbound_service.py`, `whatsapp_conversation_service.py`, `whatsapp_projection_service.py`) | conversations, links, unread and waiting projections | inbound message, mark read/handled, hide, resolve customer, create/link/unlink opportunity | opportunities, customers, replies | a reading before the lock, projections that lag | no message is hidden as read or answered | `Inbox` |
| Human replies (`whatsapp_message_service.py`) | outbound messages of a conversation | send, repeat, resend | provider, status events | crash after dispatch start, UNKNOWN answers | one unsettled reply per conversation | `Inbox` |
| Status evidence (`whatsapp_status_service.py`) | status events, provider state | record, attach | messages, recipients | duplicated, early, reordered webhooks | evidence never goes backwards | `Inbox`, `BroadcastDispatch` |
| Opportunity lifecycle (`opportunity_service.py`) | status, products, history, loss and reopen events | create, quote, negotiate, win, lose, regress, reopen, edit, delete | notifications, Legendary, inbox | concurrent commands on one row, command replay | history is a path of the pipeline; one active WhatsApp opportunity per customer | `Opportunity` |
| Notifications (`notification_service.py`) | stale and new-lead notices, read state | generate, resolve, read, delete | opportunities | generator against transitions | one active stale notice per opportunity, none on a closed one | `Opportunity` |
| Legendary (`legendary_service.py`) | customer flags, events | recompute, override | opportunities, intake locks | recomputed by some transitions only; lock order | flag agrees with the first won opportunity | `Opportunity`, `Intake` |
| Customers and intake (`customer_identity_service.py`, `lead_intake_service.py`, `manual_opportunity_service.py`, `customer_service.py`, `customer_import_service.py`) | customers, intakes, commands, import batches | web lead, manual creation, import, edit, delete | opportunities, Legendary | concurrent repeats and matches, many locks | one customer per identity, one effect per id | `Intake` |
| Users and sessions (`auth_service.py`, `user_service.py`, `core/security.py`) | users, session version | login, authenticate, create, update, change password | every request | a change under a request | a revoked session is refused | `Sessions` |
| Notes (`opportunity_note_service.py`) | revisions | create, revise, list | sessions, opportunities | optimistic revisions, replay | no lost edit | `Notes` |
| Queries of the inbox (`whatsapp_query_service.py`) and the browser (`frontend/src/whatsapp/`) | none; the browser's copy | lists, histories, change feeds; load, page, poll, merge | everything that changes a conversation | no event log, replies in any order | the copy catches up | `Sync` |
| Provider (`whatsapp/meta_provider.py`, `meta_http.py`), human templates (`whatsapp_human_template_service.py`) | the template catalogue of a process | send, upload, list, prepare | replies, Broadcasts, media | retries, lost answers, threads | one send per call, truthfully answered | `SendContract`, `MetaProvider` |
| Media (`whatsapp_media_service.py`, `whatsapp_api_media_service.py`, `whatsapp/media_storage.py`) | attachment status, objects | download, upload, read | provider, inbound | I/O between transactions | AVAILABLE means stored | `Media` |
| Reports (`metrics_service.py`, `lost_opportunity_service.py`, `won_opportunity_service.py`) | none | metrics, drill-downs, lists | opportunities | snapshots against current rows | the numbers agree | `Reports` |
| Products, HTTP, migrations, webhook decoding | rows, none | CRUD, decode, render | - | - | - | see "Not modelled" |

## How the modules fit together

    SendContract <--implements-- MetaProvider <-- Media
         |  assumed by
         v
    Inbox        BroadcastDispatch --implements--> AttemptLedger
                 BroadcastDraft (ends where BroadcastDispatch begins)
    Opportunity <-- Reports       Sessions <-- Notes
    Intake                        Sync

`Media` extends `MetaProvider`, `Notes` extends `Sessions` and `Reports` extends
`Opportunity`: each is the composition of the two.  The other modules
meet at interfaces: the provider call of `Inbox` and `BroadcastDispatch` may do
what `SendContract` allows, and `MetaProvider` is shown to do no more; the
opportunities of `Inbox` and `Intake` are records that are open, closed or
deleted, and have their lives in `Opportunity`; `Sync` sees of every command the
rows and timestamps it writes.  Each `MC...` module instantiates one of them for
TLC.

The order in which they were written is the order of their weight: what leaves
the system cannot be taken back (`BroadcastDispatch`, `BroadcastDraft`,
`Inbox`, `MetaProvider`), the pipeline is what users work with (`Opportunity`,
`Intake`, `Notes`), then what is shown of both (`Sync`, `Reports`, `Media`).
What a next step would add is listed under "Not modelled".

## Conventions

One transaction is one action wherever the rows it decides on are locked until
it commits.  A transaction is split where the code reads before it locks, keeps
objects of an earlier transaction, may wait for a lock in a cycle, or does I/O in
between.  Three properties of the sessions (`db/session.py`) decide much of what
follows: `expire_on_commit=False` keeps loaded attributes across commits,
`autoflush=False` hides a transaction's own changes from its queries, and a
`SELECT ... FOR UPDATE` without `populate_existing` locks a row but does not
refresh an object that is already loaded.

A `\* Mutant` is a plausible wrong version of a definition, and every property
of a run has one that breaks it.  Variables that the code does not have, such as
`wire`, `calls`, `given` or `overlapped`, record what happened so that a property
can speak of it; what the code does never depends on them.

| Run | Module | Distinct states | What it asks |
|---|---|---|---|
| `broadcast_safety`, `broadcast_live` | `BroadcastDispatch` | 536 000, 71 000 | safety, liveness of processing |
| `broadcast_foreign_conversation` | `BroadcastDispatch` | a violation | do others go on behind a conversation in the way |
| `broadcast_draft` | `BroadcastDraft` | 405 000 | is what is confirmed what was shown |
| `opportunity` | `Opportunity` | 460 000 | pipeline with its jobs; optimistic edits |
| `reports` | `Reports` | 113 000 | do numbers and lists agree |
| `inbox` | `Inbox` | 774 000 | one conversation with its replies |
| `intake` | `Intake` | 936 000 | identities, repeats, imports, locks |
| `notes` | `Notes`, `Sessions` | 284 000 | sessions and revisions |
| `sync` | `Sync` | 1 852 000 | the browser's copy |
| `provider`, `media_downgrade` | `Media`, `MetaProvider` | 188 000; a violation | sends, templates, attachments |

Beside the runs there are configurations that demonstrate one behaviour each:
TLC finds a violation of the one property they check.

| Configuration | Property | What TLC shows |
|---|---|---|
| `MCBroadcastSlowOrphan` | `InProgressSettles` | a worker slower than the claim timeout orphans a started message |
| `MCBroadcastRetryByOther` | `PendingIsHandled` | a retry by another user than the starter is never sent |
| `MCReportsRenamed` | `ProductsAddUp` | after a product is renamed between two losses the products' kilograms lost are less than the card's |
| `MCOpportunityOverlap` | `NoticesAreAlwaysDue` | a command inside the scan leaves a notice nobody resolves |
| `MCOpportunityDeletionFlag` | `DeletionIsRecomputed` | a deletion recomputes the flag from the row being deleted |
| `MCInboxFailedDelivery` | `FailedDeliveryWaits` | after SENT and FAILED the conversation does not wait |
| `MCInboxUnknownBlocks` | `ReplyIsPossible` | two replies of unknown acceptance block the conversation |
| `MCIntakeLockOrder` | `NobodyDeadlocks` | a creation and the Legendary job lock in opposite orders |
| `MCIntakePreview` | `PreviewCanCommit` | a valid preview that can never be committed |
| `MCSyncStalePoll` | `NewListStartsFresh` | a poll under way keeps changes from a new list |
| `MCProviderOversized` | `ImplementsContract` | an answer that is too large turns a sent message into a failed one |

## BroadcastDispatch

A started Broadcast is processed by concurrent calls of `process_batch`.  One
call recovers stale claims, reads candidates, claims some of them in one
transaction, and then sends to each claimed recipient in turn; a send is three
transactions (`_prepare`, `_start_dispatch`, `_reconcile_*`) around the provider
call.  Each transaction is one action, since the rows it decides on are locked
until it commits.  What the model keeps apart is exactly what the code does not
hold a lock over:

| Action | Code |
|---|---|
| `RecoverStaleClaims` | `_recover_stale_claims_transaction`; also `processed_at` (`consentSeen`) and `list_templates` |
| `ReadCandidates`, `ClaimRecipients`, `ClaimReplays`, `ClaimRaises` | `_claim_candidates` and the claim transaction of `process_batch`; a `command_id` used before ends the call there |
| `PrepareBlocks`, `PreparePlans` | `_prepare_dispatch` |
| `PrepareSend`, `PrepareRaises` | `WhatsAppMessageService._prepare` and its validation |
| `StartDispatch`, `StartBlocks` | `_start_dispatch`, `_block_broadcast_recipient` |
| `CallProvider` | `_dispatch`, outside every transaction |
| `Reconcile` | `_reconcile_success`, `_reconcile_error` |
| `FinishBatch` | `_complete_if_idle` |
| `RetryFailed` | `retry_failed` |
| `ProviderReports` | `WhatsAppStatusService.record` |
| `ContactChanges`, `ClaimExpires`, `Crash` | consent, customer and conversation services; the clock; the process |

Two details of SQLAlchemy decide behaviour.  The session neither expires objects
on commit nor flushes on query, and a `SELECT ... FOR UPDATE` without
`populate_existing` returns an object already loaded with its old attributes: so
`_prepare_dispatch` sees the recipient and a PENDING message as the claim left
them (`ReadsPending`, `held`).  `_start_dispatch` does populate existing objects.
And `claimed_at` is the start of the batch, so the claims of a batch of slow
provider calls expire under a live worker (`MaxSlow`).

`wire` is what the provider really did, which no process knows: an "unknown"
answer leaves it open.  `calls` counts provider calls per message.

Abstractions: claim and message timestamps are the set `expired`; the latest of
two webhooks by `occurred_at` is the choice `newer`; templates are a Boolean
listed at the start of a call; a recipient is one customer with one phone.

### AttemptLedger

What all of this amounts to for one recipient: attempts are authorized one at a
time, started once, concluded once, and another attempt is authorized only after
the provider refused the last one or reported it FAILED.  `ImplementsLedger` is
the refinement.

### Runs

| Run | Shows | Instance |
|---|---|---|
| `broadcast_safety` | provider-facing safety, the refinement, and, while no claim has expired under its worker (`slow = 0`), that the recipient row tells the truth | 1 recipient, 2 workers, 2 attempts, a slow claim, a crash, a change |
| `broadcast_live` | the broadcast completes, messages left IN_PROGRESS become UNKNOWN, a recipient whose consent or phone changed before its message was started ends blocked | 2 recipients in batches of 1, 1 worker, a crash, a retry, a template that may be withdrawn, one change: of the first recipient's consent or the second one's phone |
| `broadcast_foreign_conversation` | a recipient whose own conversation is in order waits for ever behind another's (violated) | 2 recipients in batches of 1, 1 worker, one conversation resolved to another customer |

One recipient is enough where the property speaks of one recipient: recipients
share only the broadcast row, the batch limit and the worker's loop, which
`broadcast_live` covers.  Two workers are the least that interleave; two
attempts the least with a retry.

The constraint `ConsentOrPhone` of `broadcast_live` leaves the other changes of
contacts to `broadcast_safety`; it only drops steps that no fairness speaks of, so
that no behaviour is cut short.  Webhooks are left out there (`NoReports`), so that a
retry follows a refused send only.

Fairness (`FairProcessing`): the job keeps being scheduled, with a new `command_id`
for every call (`scripts/process_whatsapp_broadcast.py`), and running calls go on; an abandoned claim's age passes the timeout; SKIP LOCKED does not skip the
same rows for ever, since no row lock is held across I/O.  Nothing is assumed of
crashes, webhooks, retries or contact changes.

### What the code does otherwise than documented

With a worker slower than the claim timeout (`MaxSlow = 1`), a started message
whose recipient that worker blocks is never recovered
(`MCBroadcastSlowOrphan.cfg`), although CRM-013 says stale IN_PROGRESS work becomes
UNKNOWN; such a worker also writes BLOCKED over the recipient of a message another
one got accepted, and blocks recipients about which nothing changed, which is why
`ProjectionFollowsLatest` and `OnlyChangedConditionsBlock` speak of `slow = 0` only.
Without slowness, a retry by another user than the starter is never sent
(`MCBroadcastRetryByOther.cfg`; CRM-011 says a retry makes the recipient
processable): every plan is sent in the starter's name, and the payload check of
the retried message refuses that.  One conversation resolved to another customer
makes the claim transaction raise, so that the same first rows are claimed and
rolled back in every batch (the run `broadcast_foreign_conversation`; CRM-011 says a
changed condition blocks the affected send and records why).  A hidden conversation of a claimed
recipient makes its send raise in every batch in the same way, although CRM-055
calls hiding an Inbox visibility state only; the liveness run leaves hidden
and foreign conversations out, so that `EventuallyCompletes` says nothing of them.

### Proofs

`BroadcastDispatchProofs` proves for every instance of the constants
(`BroadcastAssumption`): type correctness, `AtMostOneCall`, `ReadyMeansUnsent`,
`OneDispatcher`, `NoDoubleDelivery`,
`ProjectionFollowsLatest`, `OnlyChangedConditionsBlock`, and the refinement of
`AttemptLedger`.  None of the properties is inductive.  The invariant `IInv`
adds what the workers' locals refer to (`WorkerOK`), that a worker inside the
provider call holds the latest message, which is IN_PROGRESS or recovered to
UNKNOWN, and has not called yet (`SenderOK`), and what a message's dispatch state
says of the provider (`MessageOK`: unsent messages have no calls, only ACCEPTED
ones have an external id, a message with a successor failed).  The key step is
`StartDispatch`: it requires PENDING, so nobody else holds the message, and
leaves PENDING for good.  `Movers` isolates the actions that touch messages, and
the refinement maps each to a ledger action.

`ProjectionFollowsLatest` and `OnlyChangedConditionsBlock` speak of behaviours in
which no worker was slower than the claim timeout, and rest on `CalmInv`: as long as
that is so, a recipient is held by the worker that took it, its claim is not expired
and its latest message is as that worker knows it (`HoldsOK`), because nobody else
moves the recipient between two of the worker's transactions; and a recipient's
status is the projection of its latest message, or BLOCKED with the message still
PENDING (`Projected`).  Each of the two is needed for the other: a worker writes the
status it computed from what it read a transaction ago.

Only model-checked: the liveness properties, since TLAPS does not reason about
fairness.
`ReadyMeansUnsent` (a READY recipient has no message that may have reached the
provider) and `OneDispatcher` (one worker at a time is inside the provider call of
a message) are proved without a run of their own: they are part of `IInv`.

## Opportunity

The commands of `OpportunityService` on the opportunities of several customers.
Each is one transaction under the opportunity's row lock, and most are one
action.  The commands that make an opportunity active - `create_opportunity`,
`regress_stage`, `reopen` - lock the customer's row, check the customer's other
opportunities and then write; the commands that leave an opportunity active or
close it lock only their own row and commit in between.  So those three are two
actions, `Begin...` and `Commit...`, and `pending[c]` is the transaction that
holds the row of customer `c`; `RollBack` is its death.  `reopen` is three: its
replay lookup (`LookUpReopen`) holds no lock at all.

| Action | Code |
|---|---|
| `BeginCreate`, `CommitCreate` | `create_opportunity_in_transaction` |
| `BeginRegress`, `CommitRegress` | `regress_stage` |
| `LookUpReopen`, `BeginReopen`, `RefuseReopen`, `CommitReopen`, `Forget` | `reopen`, and its client |
| `Quote`, `Advance`, `Lose`, `Delete` | `quote_opportunity`, `move_to_negotiation` and `mark_as_won`, `mark_as_lost`, `soft_delete_opportunity` |
| `Read`, `EditQuote`, `Assign` | the detail a client read, `update_quote_products` and `assign_user` with `expected_updated_at` |
| `ToggleProduct`, `ArchiveCustomer` | `update_product`, `soft_delete_customer` |
| `BecomesOverdue`, `SelectStale`, `InsertStale` | the clock; the snapshot and the insert of `generate_stale_opportunity_notifications` |
| `Matures`, `RecomputeJob` | the clock; `recompute_batch` |

`Transition` is `_transition`: status, timer, `updated_at` (the counter
`version`), the stale notice resolved, the history entry.  `Recompute` takes the
statuses and deletions the recomputation's query sees: the session does not
flush before a query, `_transition` does flush, so after a regression it sees
the new status and after a deletion it does not see the deletion.

Abstractions: a quote is a set of products (no quantities), actors and loss
reasons are dropped, time is the sets `overdue` and `mature`, ids are given out
in creation order, NEW_LEAD notices are left out.  A command that waits for a
lock is a command that has not started; the deadlocks such waiting may end in
are a subject of `Intake`.

### Runs

| Run | Shows | Instance |
|---|---|---|
| `opportunity` | one active WhatsApp opportunity, legal histories, loss and reopen episodes, notices on open overdue opportunities, which come in the end, the flag is earned; optimistic edits, the quote is never lost | 2 opportunities of 1 customer, 1 request with 1 command, 5 history entries, one opportunity ages, both mature, at most one command commits inside the stale scan; or 1 opportunity, 2 clients, 2 products, one of them withdrawn, 2 edits, 4 history entries |

The constraint `EditsOrJobs` keeps the two apart: in a behaviour either clients edit
and no job runs, or the jobs run and nobody edits.  Edits write only the quote, the
assignee and the version, which no job reads; the proofs have no such bound.

Two opportunities of one customer are the least that compete, and customers share
nothing; five entries reach a loss, a reopening and a second loss (or a win and a
regression from it).
Fairness (`FairJobs`): the generator keeps being scheduled, a transaction ends,
one way or the other, and the generator's insert, which waits for row locks that
others take again and again, gets its turn in their queues (strong fairness).
Nothing is assumed of users.

### What the code does otherwise than documented

A deletion recomputes the Legendary flag from the row that is being deleted: the
session does not flush before the query (`MCOpportunityDeletionFlag.cfg`).  A
command that commits inside the scan of the stale generator leaves a notice nobody
resolves (`MCOpportunityOverlap.cfg`); `NoticesAreDue` therefore says what holds
while no command has done so.  Two more show in the definitions only:
`mark_as_won` does not
recompute the flag at all, although CRM-012 lists the transition (`Advance`
leaves `legendary` alone); and of two overlapping deliveries of one reopen
command the second is refused as an invalid transition, where CRM-012 says an
identical replay is successful (`RefuseReopen` of a request whose lookup came
before the commit of the other).

### Proofs

`OpportunityProofs` proves for every instance of the constants
(`OpportunityAssumption`) `TypeOK`, `OneActiveWhatsApp`, `LegendaryIsEarned`,
`QuoteIsKept`, `HistoryIsPipeline`, `LossEpisodes`, `ReadingsAreExact`,
`NoticesAreDue` and `OneReopenPerCommand`.
Types alone are not inductive: a commit uses what its `Begin` checked.  `TypeInv`
adds that a row has a customer from its creation on, that no two transactions
hold the same opportunity (`DistinctOK`), and that what a transaction checked
still holds (`HeldOK`).  The argument is one of frames: every step leaves the rows
alone, changes one unlocked row, or commits one held row (`StepKinds`, `RowFrame`,
`CommitFrame`), so nobody touches the row or the request of a pending transaction
(`HeldUntouched`, `RequestKept`).  One active WhatsApp opportunity then follows
from `AloneOK`: between check and commit, only the holder of the customer's row
could have made another one active (`NoneActivated`).  The other invariants are
inductive row by row above `TypeInv`, two with a strengthening: for `LossEpisodes`,
the last loss event of a lost row is of the last entry of its history (`Episode`),
which is what a reopening then refers to; for `NoticesAreDue`, the running
generator's selection is as due as the notices (`DueInv`).

Only model-checked: the liveness of the notices.  `OneReopenPerCommand`, one reopen
event per command id for any number of requests that got past the unlocked lookup
together, is proved only.

## BroadcastDraft

The life of a Broadcast before `BroadcastDispatch`: several users edit it,
validate it, confirm it and start it.  Every command is one transaction under the
broadcast's row lock, and one action.  What is outside the lock is what can go
stale: the version a user was shown (`seen`), the token (`token`, `lapsed`), and
the templates and the time a command takes before it waits for the lock
(`request`, set by `BeginRequest`).  Consent events and customers are never
locked; a command sees the events effective at its time, or appended just then
and committed before it reads them (`Horizons`).

| Action | Code |
|---|---|
| `Open` | `get`; what a user's browser shows |
| `BeginRequest`, `EndRequest` | `now` and `list_templates` at the head of a command; its refusal |
| `Create`, `ReplayCreate` | `create`, `_assert_create_replay` |
| `ReplaceRecipients`, `UpdateDraft` | the edits, with `expected_version` |
| `Validate`, `Confirm` | `validate`, `confirm`: both evaluate `_validation_snapshot` (`Valid`) and `_validation_digest` (`Digest`) |
| `Start` | `start` |
| `TokenLapses` | the clock passes `validation_expires_at` |
| `AppendConsent`, `ChangePhone`, `ChangeTemplate` | `WhatsAppConsentService.append`; `update_customer` and `soft_delete_customer`; the provider |

Abstractions: one broadcast; label, parameters and header media are one value;
the digest is the values it hashes; a deleted customer is one without a phone;
consent events are direct ones, appended in the order of their effective time.

The run `broadcast_draft` has one customer with a phone to lose, two users, two
contents, three commands, three versions, two tokens, two consent events and one
change.  Two tokens let a second validation supersede the first, two consent
events are an opt-in and its withdrawal or renewal, three versions are a draft,
its recipients and one edit after them; three commands are a replacement, a
confirmation and a start, and the least with which a command is repeated by
another user.  A template changes here by being withdrawn; more signatures,
customers and users are left to the proofs.

### Where code and documentation differ

Two things show in the definitions and have no run.  `_assert_create_replay`
compares the request with the draft as it is now, so that an identical replay
after an edit of the draft is a conflict, where CRM-011 says it returns the
existing Draft (`ReplayCreate` is the successful answer only).  And
`_command_exists` looks a command up whatever it was, so that a command id used
for a replacement makes a confirmation with the same id an empty success
(`Unused`).

### Proofs

`BrowserProofs`, which also holds the proofs of `Sync`, proves for every instance of the constants
(`DraftAssumption`) type correctness, the two properties of the run and three
more: `FrozenAfterConfirm` (a confirmed broadcast keeps its recipients and content),
`SeenIsCurrent` and `TokenVouches`.  The last two are inductive only together with what `IInv` adds: a user was
shown no later version than the draft's (`SeenOK`), tokens are numbered and the
one on the draft is not newer than the last issued (`TokenOK`), and a user who
was given the token on the draft was shown the digest's consent events with it
(`GivenOK`).  `ConfirmedAsShown` is then the invariant before the
step and `Confirm`'s guards: the token identifies the reading, and the equal digests
carry it over to the rows.  That the digest is compared is what `ConfirmedAsShown` rests on: without it a renewed
opt-in would be confirmed that nobody was shown.

## Inbox

The conversation of one phone.  Webhooks record its inbound messages and the
delivery events of its replies; users reply, read, handle, hide, resolve and link
it; customers and opportunities change beside it; and its projections (`unread`,
waiting `since`, `lastInbound`, the link) follow.  All of these take the
conversation's row lock, and are one action, except `receive`: it finds the
conversation with an unlocked query, then takes further locks, and the later
locking query gives it back the object it has.  `Discover` is that reading, `held`
is what it read, and `Receive` computes from `held` what it writes.  `Written` is
the UPDATE of SQLAlchemy: only attributes whose value is not the one that was read.

| Action | Code |
|---|---|
| `Discover`, `Receive`, `ReceiveFirst`, `CollideFirst`, `AbandonInbound` | `WhatsAppInboundService.receive`, the unique phone key, the death of its process |
| `MarkRead`, `MarkHandled`, `Hide`, `Resolve`, `CreateOpportunity`, `LinkOpportunity`, `Unlink`, `OpenForOpportunity` | `WhatsAppConversationService` |
| `Prepare`, `Repeat`, `StartDispatch`, `Call`, `ReconcileAccepted`, `ReconcileError`, `AbandonRequest` | `WhatsAppMessageService.send`: its three transactions, the provider call between them, the same `client_generated_id` again, and the death of the process |
| `Record` | `WhatsAppStatusService.record`, with the events that come before the answer (`Pending`, `DeliveryAttached`) |
| `DeleteCustomer`, `AddOpportunity`, `EndOpportunity`, `Tick` | the customer and opportunity services; the clock |

`Recomputed` is `recompute_response_projection` over the rows its query sees: the
transaction's own changes to messages are not flushed yet, so it lags one event
behind the replies.  `readTo`, `handledTo`, `overlapped` and `reassigned` record
what users saw and whether a commit came between a reading and its use.

The run `inbox` has two messages of the contact, two replies by two requests, two
customers, and one of three budgets: two commands and a change; a command, a reply
and two delivery events; or two replies, an event and a crash.  Two messages are
the least of which one can be read and the other not; the budgets pair the
operations that write the same attributes, and what they do not pair is covered by
the proofs, which have no bound.

The properties: `UnreadIsSeen` (the count hides no message), `UnansweredIsWaiting`
(a conversation that does not wait owes no answer), `OneReplyAtATime`,
`DeliveryFollowsEvidence`, `LinkFollowsCustomer`.

### What the code does otherwise than documented

`recompute_response_projection` after a FAILED event still counts the reply by the
state before it, so that after SENT and FAILED the conversation does not wait
(`MCInboxFailedDelivery.cfg`; the test of failed delivery expects that it does, in
a session that flushes).  A reply of unknown acceptance that is resent and becomes
unknown again leaves two of which each is in the way of the other's resend, and
nothing settles them: no reply is possible any more
(`MCInboxUnknownBlocks.cfg`; CRM-010 promises the explicit resend).  And a commit
between the reading and the use of `receive` is undone or kept against the intent:
a mark-as-read is overwritten by the old count plus one, a conversation that is
hidden in between stays hidden under its new message, one handled in between may
wait for what was handled, and one resolved to another customer in between gets an
opportunity of the previous one linked.  `overlapped` excepts exactly these from
the properties.

### Proofs

`InboxProofs` proves type correctness and the five invariants for every
instance of the constants.  None is inductive; the strengthenings are `TInv`, what
holds of the ids and locks (each id is recorded once, the phone's advisory lock
leaves one webhook at a time, a request under way has a reply); `SendInv`, that a
reply is handed over by the one request that started it, and that a PENDING reply
has no call yet; `HeldInv`, that a reading is the row as it is unless a commit
overlapped; `WaitInv`, that the handled cutoff never lies beyond what was handled,
so that a step that recomputes the projection and finds nothing waiting has seen
every message settled, and a step that does not leaves settled what was;
`LinkInv`, that the link is that of the conversation's customer; `EvidenceInv`, that
an event is attached to its message exactly when that is ACCEPTED, that the events
of a message are coherent with the provider's clock (one time per state, and a
further state no earlier), and that the delivery state of an accepted message is
what its set of events shows (`Shows`).  The key lemma is `AppliedShows`: applying
one more coherent event to a state that shows a set gives the state that shows the
larger set, whatever the order.  `Evidence` applies the pending events one by one,
sorted: that it shows them all is an induction over the beginnings of that one
sequence, of which only the elements matter.

## Intake

How customers come to be, under which locks.  A request is one transaction at READ
COMMITTED, split wherever it may wait: at each advisory key and at each statement
that locks rows.  What it writes appears in its commit.  `wanted`, `held` and `rows`
are its locks, and `NextKey` is the order in which it takes the keys: sorted by
their hash (`Rank`).

| Action | Code |
|---|---|
| `BeginLead`, `BeginManual`, `BeginChosen`, `LookUp`, `DecideLead`, `DecideManual`, `LockChosen`, `CommitOpportunity` | `LeadIntakeService.intake`, `ManualOpportunityService.create` for a new or a chosen customer |
| `TakeKey`, `LockEmailMatches`, `LockPhoneMatches` | `acquire_advisory_locks`, `CustomerIdentityResolver.resolve` |
| `Preview`, `BeginImport`, `LookUpBatch`, `DecideRow`, `CommitImport` | `CustomerImportService.dry_run` and `commit` |
| `BeginEdit`, `LockEdited`, `CommitEdit`, `CreateByHand`, `DeleteByHand` | `CustomerService` |
| `TakeFlagKey`, `BeginRecompute`, `LockRecomputed` | `recompute_customer_in_transaction`, `recompute_batch` |
| `AbortDeadlocked` | PostgreSQL ends one transaction of a waiting cycle |

Abstractions: a profile is an e-mail, a telephone text with its match key (or
without one, when it is short), and `company`, which stands for every field that
identifies nobody; the rest of a payload is one value (`Rests`), which may also be
one that a collaborator may not send; the two ledgers of ids are one, their ids
being distinct; two advisory keys of one hash, which would be one lock, are left
out; an edit with a stale `expected_updated_at` is only a refusal; a dry run is one
step, since all it reads the commit reads again.  `given` marks signals typed in by
hand, which no lock guards, and `seen` the customers a preview was made from.

The run `intake` starts from none, one or two known customers and has two requests
of any kind, one submission, two commands, one batch with files of one or two rows
and one change by hand.  Two requests are the least that compete; the hash order
interleaves the keys of ids, e-mails and phones so that it agrees with no grouping
by kind.

`DuplicatesOnlyByHand`: two live customers share a signal only if somebody typed it
in.  `DuplicatesAreAnswered`: repeats get the one opportunity their id made, or a
conflict.  `ImportDoesAsShown`: a commit does what the preview showed, or nothing.
`CyclesWaitForRows`: no deadlock on advisory keys alone.

### What the code does otherwise than documented

CRM-043 gives the permanent order "advisory locks, then matching Customer rows", but
the recomputation of the Legendary flag inside a creation takes an advisory key
after the customer's row, and the Legendary job the key first: the two deadlock
(`MCIntakeLockOrder.cfg`), and PostgreSQL aborts one.  And two rows of a file that
name one customer by different signals make a valid preview (CRM-012 calls multiple
rows of one identity an error) whose commit fails every time
(`MCIntakePreview.cfg`).

### Proofs

`IntakeProofs` proves all four properties.  `DuplicatesAreAnswered`
needs that a request holds the key of its id from its lookup to its end
(`RequestOK`), that keys are exclusive, and that the ledger names just the
opportunities there are (`LedgerOK`): so nobody can record the id between a lookup
that did not find it and the commit.  `CyclesWaitForRows` is an argument of order: identity
keys are taken with rising rank, the batch key before all of them, and a Legendary
key last or, by the job, first and one at a time.  In a cycle that waits for keys
alone, the request that waits for the greatest key would have to wait for a request
that waits for a greater one.  That a finite set of requests has such a member is
in `Inductions`, from the library's theorem that finite sets are well-founded.

`DuplicatesOnlyByHand` and `ImportDoesAsShown` rest on what a request may still rely
on when it commits.  It holds the keys of its signals from its first lock to the
end, so that from the two statements that lock its matches on no other customer can
come to have these signals, but by hand (`Vouched`): the lookups by e-mail and phone
have found everyone there is (`Saw`).  The customers it found are locked, and
nobody else writes a locked row.  An import takes the keys of all its rows before the
first, and the signals of its rows are disjoint, so that each row of the plan is
still right when the last one is decided (`PlannedOK`): an ENRICH row has something
to write to the row as the earlier rows of the plan leave it (`Worked`), an UNCHANGED
one has not, and the signals of a CREATE row are nobody's.  The commit folds over
the plan; the proof goes row by row with what the customers are after the first
rows.  The files are non-empty sequences of profiles (`FilesAreProfiles`) and the
customers at the start share signals only by hand (`BeginningsAreSound`), as the
properties say of every later state.

## Sessions and Notes

A token repeats the user's session version; a password change and a deactivation
raise the version.  A request is two transactions of one database session: one
authenticates it (`Admit`), one is its command.

| Action | Code |
|---|---|
| `Login`, `IssueToken`, `Expire` | `AuthService.authenticate`, the token made of what it read, its expiry (a token that disappears at any time) |
| `Admit`, `End` | `get_current_user`, the end of the session |
| `CreateUser`, `UpdateUser`, `ChangePassword` | `UserService` |
| `ResetPassword` | `scripts/reset_user_password.py` |
| `Replay`, `NotFound`, `Create`, `Revise`, `Refuse` | `OpportunityNoteService.create` and `revise`: the unlocked lookup of the command id, then the locks |
| `DeleteOpportunity` | `soft_delete_opportunity` |

`Locked` is what a command sees of the row it locks: the row itself, because
`get_current_user` expunges the object it read.  Without that, the version would be
raised from a stale value and a revoked token be accepted again, which the mutant
of `NoRevokedSession` shows.  `Page` and `Walk` are the cursor pages of the notes.

Two behaviours are as designed and show here: a request admitted before a
revocation may still commit after it, and of two overlapping sendings of one
revision the second is answered with a revision conflict although it was applied.
Nothing keeps the last supervisor from being deactivated.

The run `notes` has two users, two requests, three commands, two times, and either
logins and changes of users, or notes with at most one change between them.
`NoRevokedSession`, `RevisionsAreChained` and `AnswersAreOwn` are proved in
`NotesProofs`: no token is ahead of its user, one that is not behind has seen every
revocation (`VersionsOK`), and revision numbers are injective and chained (`NInv`).
`PagesAreComplete` is proved for every number of notes, and with every page size
(`EveryPageSize`; the run has pages of one and of two).  The current notes of an
opportunity are finitely many and the order of the list is total on them, so that
there is one way to sort them (`Inductions`); the filter by the cursor is that order
itself, so that what follows a cursor is the rest of the sequence; and a walk is a
beginning of the sequence that grows by a page, by induction on the pages.

## Sync

How the browser keeps its copy of the conversations, and of the messages of the
selected one.  There is no event log: the server derives from each row's timestamps
a change key, a cursor is a key and an id, and a poll asks for what is after it.
The model has both feeds; the server side is `ListPage` and `ChangePage`
(`list_conversations`, `list_message_history`, `list_conversation_changes`,
`list_message_changes`), the browser is `RequestList` to `ApplyOne`
(`useWhatsAppInbox.ts`, `inbox-state.ts`), and the writers are what they do to rows
and timestamps (`Begin` takes the time, `WriteRow`, `Hide`, `WriteRelated`,
`WriteStatus` commit).  A list, a further page and a poll may be under way at once,
and each may be lost (`Lose`).

`BrowserCatchesUp`: a browser that has loaded every page and then polled until there
was nothing more shows every visible row as it is.  The list it shows is the one it
requested last (`ready`): after a reload whose request is lost, a poll under way may
still store its cursor and polling goes on over a list without rows, and the code
then shows the status 'error' (`conversationStatus`, `messageStatus`), which is no
claim to be up to date.  It excepts what the code does
not provide for.  A transaction takes its timestamp before it commits, so that
a change may be committed behind a cursor already given out; there is no overlap
window, and the row is shown again only when it changes again (`late`).  A delivery
event with a time ahead of the clock has the same effect on later changes (`Ahead`).
And a further page requested before a reload is merged into the new list
(`crossed`).  A hidden conversation is delivered as gone by no feed.  Names of users
are not part of the change key.

`MCSyncStalePoll.cfg` shows that a poll under way when a list is requested has the
same effect: its reply stores its cursor after the list has replaced the rows, and
what changed in between is never asked for, although CRM-010 says that changing the
filter starts a fresh snapshot and cursor.

The run `sync` has two rows per feed, pages of one, two places, two ticks, a
timestamp at most one tick ahead, one open transaction, and at most two commits and
two lists.  Two rows on pages of one are the least in which a page boundary
separates equal keys and a row can overtake a cursor.  One of the budgets has two
lists of messages with one commit between them, in which a reload is lost.
`MCInit` leaves a feed that nothing is committed to empty.

### Proofs

`BrowserProofs` proves `BrowserCatchesUp` for every number of rows, transactions,
pages and requests (`SyncAssumption`).  The invariant `SyncInv` says, of each feed:

- a copy, in the browser or in a reply, is of a row there is and as old as its key
  says: it equals the row, or its key is lower, or the row is `late` (`CopiesOK`);
- nothing the browser or a reply has read is beyond `horizon`, the greatest cursor
  the feed has given out (`HorizonOK`);
- every visible row that is not `late` is shown as it is, or its key is after the
  sync cursor, or it is on a page still to be loaded (`ViewOK`); and the replies
  under way keep it so when they are merged, unless they will be dropped (`ListOK`,
  `MoreOK`, `PollOK`);
- after a poll that found nothing more, no visible row is after the cursor (`CaughtOK`).

The conclusion is immediate; the work is in the steps.  A commit that is not `late`
has a key after the horizon, hence after every cursor anyone holds, and after the
keys of the copies handed out, hence wins over them (`CommittedStep`).
A page is a beginning of the one sorted sequence of what the cursor lets pass, so
that what is not on it is after its last row.  `upsert` folds over the items of a
reply and keeps the newer of two copies, by induction over the beginnings of the
reply (`UpsertIs`).

## SendContract, MetaProvider and Media

`SendContract` is what a caller of a provider's send method may rely on: the message
is taken at most once, a result means it was taken, a definitive failure that it was
not, and anything may be true of an unknown answer or of none.  `Inbox` and
`BroadcastDispatch` assume just that.

`MetaProvider` is the adapter that must keep it: the bounded retries of
`MetaGraphClient._request` (`After`: an answer is retried, or ends the call),
uploads before a message that refers to them, and the catalogue of templates that
the threads of a process read page by page and replace as a whole (`ListPage`,
`Replace`), with `prepare_send` deciding on one reading and `send_template` on
another.  A page that repeats a template or one too many (`SnapshotLimit`, 500 in the
code), or a header of an unknown format, ends the reading with an error.  A header
is IMAGE, DOCUMENT or none: `prepare_send` wants an object of that very type,
`send_template` only that there is one where the header needs one, since the type
was settled before.  An attempt of a request has one of `AllAnswers`; Meta may change the
catalogue at any time and the process may restart.

`Media` adds the attachments: `Open`, `Resolve`, `Download`, `Write`, `Promote`,
`Record`, `MarkFailed` are `download` with the file system's two steps, `StartUpload`
and `Attach` the upload, `Get` and `MarkStorageFailed` a reading that may fail, and
`Crash` may come between any two.

| Property | Says |
|---|---|
| `ImplementsContract` | a call is one send and is answered truthfully, whatever the retries do |
| `TemplatesAreChecked` | what is uploaded for or posted was approved, not for marketing (but for the recontact template), not hello_world and of that form, with a header for that type of media, in a reading since the request began |
| `AvailableIsComplete` | an AVAILABLE row names a complete object |
| `NeverDowngraded` | only an unreadable object makes an available attachment unavailable (violated) |

The run `provider` has two threads with two calls between them, two tries per
request, two templates on a page each and a change; or two readers with one inbound
and one outbound attachment, three objects and three readings.  Two tries are the
least with a retry.  `MCInit` keeps what is not used at rest.  `UsualAnswers` leaves
out the answer that is too large, since with it the contract is broken.

### What the code does otherwise than documented

The run `media_downgrade`: two readers download one attachment, the first makes it
available, the second fails and marks it failed, because the second transaction's
object keeps the attributes of the first (CRM-008 says to lock, recheck and never
downgrade AVAILABLE).  `MCProviderOversized.cfg`: the body of an answer is
read with a limit, and a send that Meta took and answered at too great a length is
reported as a definitive failure (CRM-009 makes an ambiguous success body an unknown
acceptance).  Without a run: one template with an unknown header format (VIDEO) makes
the reading of the whole catalogue fail; an outbound attachment marked FAILED after
one storage error can never be read again, since only inbound ones are downloaded;
exceptions of `connect()` other than the mapped ones escape the transport.  Explicit
answers 408, 429 and 5xx to a send count as refusals and are retried, as CRM-009
allows: the model takes them at their word.

### Proofs

`ProviderProofs` proves `TemplatesAreChecked`, `CacheIsAReading` (the catalogue
only holds what a reading was told) and, for instances in which no answer is too
large, `ImplementsContract`.  For the templates: `heard` collects what Meta said to
any reading since a call began or while one under way at that time lasted; what the
catalogue holds was heard by everyone who listens, a reading's own entries are heard
by every listener, and `heard` only grows, so what `prepare_send` or `send_template`
decides on is in it.  For the contract: until its call ends, a message is not taken
and the verdict is open, and the retries repeat only what was not transmitted or was
refused.  `ProviderWithMedia` carries the three over to the composition that runs,
in which the attachments are retrieved and uploaded meanwhile.

`AvailableIsComplete` is inductive with one more conjunct (`MediaInv`): a reader that
is about to record a download has its object in storage.  It holds across crashes
because an object is only ever promoted whole, and the model, like the code, never
removes one that was recorded.

## Reports

`Reports` extends `Opportunity`: every step of the pipeline also stamps the rows it
writes (`PipelineStep`), a day is a tick, customers move (`MoveCustomer`), products
are renamed (`RenameProduct`), and `Overview`, `BySource`,
`ByProvince`, `ByProduct`, `Timeline`, `Pipeline`, the drill-downs
(`MetricOpportunities`, `DayOpportunities`), `LostStatistics` and the two lists are
the statements behind the dashboard and the lists.  A loss is counted from the
snapshot of its event (source, province, products and their names at that time),
everything else from current rows.  `BeginWalk`, `NextPage` and `ShowPage` are a user who reads a
list page by page while commands commit.

`ReportsAgree`: cards, breakdowns, days, drill-downs and lists agree in every
reachable state; the kilograms lost of the products only bound from below those of
the card.  `product_metrics` groups losses by product and name and puts the groups
into a map by product, so that of a product that was renamed between two losses only
one name's are left, and which is up to the database: `KeptNames` are the choices,
`ByProduct` the table of one.  They are equal while no product has losses under two
names (`OneNameEach`); `MCReportsRenamed.cfg` shows the difference otherwise.
`LossesStay`: the losses of a past period change only when an opportunity is deleted,
whatever is reopened, regressed or moved.  `ListsAreComplete`: a reader of the lost or won list is shown every row that stayed
as it was, and none twice.

The run `reports` starts from a lost and a won opportunity of one customer, which
`opportunity` reaches, with two products, two provinces and pages of one; a
behaviour either moves the customer or renames a product over two days, or reads a list on the last day.
A line weighs one kilogram, and rows are stamped at the commit.

What shows in the definitions: `LostStatistics` counts, in its historical numbers,
the losses of deleted opportunities, which the metrics leave out; the kilograms of
`metric_opportunities` are those of all lines even under a product filter; the ACTIVE
drill-down has no period; a regression from GANADA (CRM-044 AC-11) takes the win
out of the period it was won in, while a reopening keeps the loss; the lost list fails as a whole when one of its items is
deleted between its two queries; the pages by OFFSET of other lists may skip or
repeat rows.

### Proofs

The three properties are proved in `OpportunityProofs`, on top of the invariants of
the pipeline (`ReportsAssumption`: finitely many sources, products and provinces, so
that their numbers can be summed).

- `LossesStay` needs the types of the rows only (`TimesOK`): a step adds at most one
  loss event, stamped now, so that it falls in no period that has ended.
- `ListsAreComplete` needs `WalksOK`: no row's time falls, every row shown is at or
  above the cursor, and a row that stayed as it was is shown, on the page read, or
  below the cursor.
- `ReportsAgree` needs `AgreeInv`: the opportunities and their episodes are as
  `EpisodesInv` and `RowsInv` say, and the loss events are one to one, and in order,
  the losses of the pipeline's history (`LinkOK`).  The rest is arithmetic of finite
  sums: a total is the sum over a partition, and two sums over sets in bijection
  agree, each by induction on the sets.

## What is proved, and what is only checked

| Module | Theorems about the runs' properties | Further theorems |
|---|---|---|
| `BroadcastDispatchProofs` | `AtMostOneCall`, `NoDoubleDelivery`, `ProjectionFollowsLatest`, `OnlyChangedConditionsBlock`, `ImplementsLedger` | types, `ReadyMeansUnsent`, `OneDispatcher` |
| `OpportunityProofs` | `OneActiveWhatsApp`, `LegendaryIsEarned`, `QuoteIsKept`, `HistoryIsPipeline`, `LossEpisodes`, `ReadingsAreExact`, `NoticesAreDue`, `ReportsAgree`, `ListsAreComplete`, `LossesStay` | types, `OneReopenPerCommand` |
| `BrowserProofs` | `ConfirmedAsShown`, `OneEffectPerCommand`, `BrowserCatchesUp` | types, `SeenIsCurrent`, `TokenVouches`, `FrozenAfterConfirm` |
| `InboxProofs` | `UnreadIsSeen`, `UnansweredIsWaiting`, `OneReplyAtATime`, `LinkFollowsCustomer`, `DeliveryFollowsEvidence` | types |
| `IntakeProofs` | `DuplicatesAreAnswered`, `CyclesWaitForRows`, `DuplicatesOnlyByHand`, `ImportDoesAsShown` | |
| `NotesProofs` | `NoRevokedSession`, `RevisionsAreChained`, `AnswersAreOwn`, `PagesAreComplete` | `EveryPageSize` |
| `ProviderProofs` | `TemplatesAreChecked`, `ImplementsContract`, `AvailableIsComplete` | `CacheIsAReading`, `ProviderWithMedia` |

`Inductions` holds the lemmas these modules share: least and greatest elements of
finite sets, induction on sets of numbers, that a fold over a sequence exists and
goes from each number to the next, and that a finite set is sorted in one way.
Every theorem holds for all values of the constants that satisfy the named
assumptions of its module (`...Assumption`); the bounds of the models are such
constants too, so that the theorems hold at any bound.

Every invariant and action property of the passing runs is stated by a theorem.  Only
model-checked are the four liveness properties, `EventuallyCompletes`,
`InProgressSettles`, `ChangedConditionBlocks` and `OverdueIsNotified`: liveness under fairness
(and ENABLED) is beyond the proof system.

No module declares a RECURSIVE operator.  What a recursive function or a fold computes
cannot be proved once for every operator, since the library's induction theorems take
an operator as a parameter; where a property needs it of one fold or walk, the proof
is an induction on the set of numbers up to which the claim holds (`AllNaturals`).
The sorting operators of the community modules are defined in ways the provers cannot
expand; the models choose a sorted sequence from the sequences of a set
(`SetToSeqs`) instead, which is the same one where the order is total.

Fairness is assumed in `FairProcessing` and `FairJobs` only, as described there.
Runs of the other modules state safety, and TLC does not look for deadlocks where
the users, or the bounds on them, may simply stop.

## Not modelled

`PROJECT.json` lists every component with its status and the reason.

- Webhook signatures and the decoding of Meta's payloads; HTTP routing, validation
  and error mapping; configuration; migrations; the fake and disabled providers.
  They keep no state between requests.  Constraints of the schema are modelled where
  an operation depends on them.
- Notification recipients, their read state and NEW_LEAD notices; the manual
  Legendary override and the event log; creating products: each is one
  row written by one command.
- The import of consent events with an earlier effective time, and their idempotent
  ids.
- Of the reports: that one report is several statements at READ COMMITTED, so that a
  report may be torn; weekly and monthly buckets; the remaining list filters and the
  pages by OFFSET.
- Of the frontend: forms, views and the optimistic board, whose rules the backend
  enforces again and whose state its answers replace.
- Liveness of replies, imports and the browser: nothing in the code schedules them
  but users.

Next would be the composition of `Inbox` with the full `Opportunity` commands,
and reports made of several statements.
