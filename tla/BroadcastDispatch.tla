-------------------------- MODULE BroadcastDispatch --------------------------
(***************************************************************************)
(* The processing phase of a started WhatsApp Broadcast: concurrent calls  *)
(* of WhatsAppBroadcastService.process_batch claim READY recipients, send  *)
(* one template message to each through WhatsAppMessageService.send, and   *)
(* reconcile the provider's answer; meanwhile claims expire, processes     *)
(* crash, users retry failed recipients, consent and conversations change, *)
(* and the provider's status webhooks arrive.                              *)
(*                                                                         *)
(* Every database transaction of the code is one action: the rows it       *)
(* decides on are held FOR UPDATE to its commit, so transactions on one    *)
(* recipient are serial.  What is not serial is the sequence of            *)
(* transactions of one call, and the provider I/O between them.            *)
(***************************************************************************)
EXTENDS Integers, FiniteSets

CONSTANTS
  Recipients,       \* ids of the recipient rows, one customer and phone each
  Workers,          \* concurrent process_batch calls (CLI runs or API requests)
  Users,            \* users who may authorize a retry
  Starter,          \* started_by_user_id: sender of every dispatch plan
  NoOne,            \* NULL claim token, and the recipient of an idle worker
  BatchSize,        \* WHATSAPP_BROADCAST_BATCH_SIZE
  MaxAttempts,      \* bound: messages per recipient
  MaxSlow,          \* bound: claims that expire while their worker still runs
  MaxCrashes,       \* bound: worker crashes
  MaxChanges,       \* bound: changes of consent, contact, conversation, starter
  ConversationKinds,\* the conversation states the environment may produce
  TemplateAnswers,  \* what list_templates may say of the template: {TRUE} or BOOLEAN
  Reports           \* the delivery states the provider's webhooks may report

DispatchStates == {"NONE", "PENDING", "IN_PROGRESS", "ACCEPTED", "DEFINITIVE_FAILED", "UNKNOWN"}
DeliveryStates == {"SENT", "DELIVERED", "READ", "FAILED"}
RecipientStatuses ==
  {"READY", "IN_PROGRESS", "ACCEPTED", "UNKNOWN", "BLOCKED"} \cup DeliveryStates
Conversations == {"usable", "hidden", "foreign"}
Steps == {"idle", "candidates", "claim", "next", "prepare", "start", "call", "reconcile"}
Attempts == 1..MaxAttempts

ASSUME BroadcastAssumption ==
  /\ Recipients \subseteq Nat /\ IsFiniteSet(Recipients)
  /\ Starter \in Users
  /\ NoOne \notin Recipients /\ NoOne \notin Workers
  /\ BatchSize \in Nat \ {0}
  /\ MaxAttempts \in Nat \ {0}
  /\ MaxSlow \in Nat /\ MaxCrashes \in Nat /\ MaxChanges \in Nat
  /\ ConversationKinds \subseteq Conversations
  /\ TRUE \in TemplateAnswers /\ TemplateAnswers \subseteq BOOLEAN
  /\ Reports \subseteq DeliveryStates

VARIABLES
  broadcast,      \* WhatsAppBroadcast.status, PROCESSING or COMPLETED
  status,         \* WhatsAppBroadcastRecipient.status
  claim,          \* claim_token (set and cleared together with claimed_at)
  expired,        \* recipients whose claimed_at is older than claim_timeout
  attempts,       \* number of messages of the recipient, the latest one's index
  dispatchState,  \* WhatsAppMessage.dispatch_state per recipient and attempt
  providerState,  \* WhatsAppMessage.provider_state
  matched,        \* external_message_id is stored
  author,         \* sent_by_user_id
  events,         \* delivery states recorded in whatsapp_message_status_events
  wire,           \* the provider's own truth: "none", "accepted" or "rejected"
  calls,          \* provider calls made for the attempt
  optedIn,        \* current consent decision is OPT_IN
  reachable,      \* customer not deleted and its phone is the recipient's
  conversation,   \* the conversation of the recipient's phone
  starterActive,  \* User.is_active of the starter
  step,           \* where each process_batch call stands
  todo,           \* candidates, then claimed recipients not yet handled
  current,        \* the recipient being sent to
  attempt,        \* the message being sent
  held,           \* attempt index of a PENDING message object loaded by the claim
  template,       \* the template was sendable when the call listed templates
  consentSeen,    \* recipients opted in at the call's processed_at
  answer,         \* the provider's answer, not yet reconciled
  slow, crashes, changes  \* consumed bounds

recipientVars == <<status, claim, expired>>
messageVars == <<attempts, dispatchState, providerState, matched, author>>
providerVars == <<wire, calls, events>>
contactVars == <<optedIn, reachable, conversation, starterActive>>
workerVars == <<step, todo, current, attempt, held, template, consentSeen, answer>>
boundVars == <<slow, crashes, changes>>
vars == <<broadcast, recipientVars, messageVars, providerVars, contactVars,
          workerVars, boundVars>>

-----------------------------------------------------------------------------
(* The projection of the latest message on the recipient.                  *)

\* _recipient_status: the provider's evidence first, then the dispatch state.
RecipientStatus(dispatch, provider, claimed) ==
  IF provider # "NONE" THEN provider
  ELSE IF dispatch = "UNKNOWN" THEN "UNKNOWN"
  ELSE IF dispatch = "DEFINITIVE_FAILED" THEN "FAILED"
  ELSE IF dispatch = "ACCEPTED" THEN "ACCEPTED"
  ELSE IF dispatch = "PENDING" /\ ~claimed THEN "READY"
  ELSE "IN_PROGRESS"

\* recompute_broadcast_recipient_projection keeps BLOCKED while the latest
\* message is PENDING (every BLOCKED recipient has a reason_code).
Recomputed(old, dispatch, provider, claimed) ==
  IF old = "BLOCKED" /\ dispatch = "PENDING"
  THEN "BLOCKED"
  ELSE RecipientStatus(dispatch, provider, claimed)

\* _latest_message: dispatch state of the message with the greatest id.
LatestDispatch(r) == IF attempts[r] = 0 THEN "NONE" ELSE dispatchState[r][attempts[r]]
LatestProvider(r) == IF attempts[r] = 0 THEN "NONE" ELSE providerState[r][attempts[r]]

\* A claim or a recovery may go on with the recipient: no message, or one that
\* never crossed the dispatch boundary.
UnsentAbsent(r) == LatestDispatch(r) = "NONE"  \* Mutant: PENDING counts as sent
Unsent(r) == LatestDispatch(r) \in {"NONE", "PENDING"}

\* The provider state of the recipient's latest message once that of its
\* attempt i is s: evidence on an older attempt does not reach the projection.
LatestAfterAny(r, i, s) == s  \* Mutant: any attempt's evidence does
LatestAfter(r, i, s) == IF i = attempts[r] THEN s ELSE LatestProvider(r)

\* The first n of a set of ids: ORDER BY id LIMIT n.
First(n, S) == {r \in S : Cardinality({q \in S : q < r}) < n}

\* _remaining_count
RemainingUncertain ==  \* Mutant: an UNKNOWN recipient keeps the broadcast open
  {r \in Recipients : status[r] \in {"READY", "IN_PROGRESS", "UNKNOWN"}}
Remaining == {r \in Recipients : status[r] \in {"READY", "IN_PROGRESS"}}

\* _should_replace_effective_state: DELIVERED and READ are never replaced by
\* FAILED; otherwise the later occurred_at wins, which "newer" stands for.
MayReplace(old, new, newer) ==
  \/ old = "NONE"
  \/ newer /\ ~(old \in {"DELIVERED", "READ"} /\ new = "FAILED")

\* attach_pending_events_in_transaction applies the recorded events in the
\* order of occurred_at: the states the last replacement can leave.
Attached(recorded) ==
  IF recorded = {} THEN {"NONE"}
  ELSE {s \in recorded :
          s = "FAILED" => "SENT" \in recorded \/ recorded \cap {"DELIVERED", "READ"} = {}}
-----------------------------------------------------------------------------
Init ==
  \* A broadcast that start() has just moved to PROCESSING.
  /\ broadcast = "PROCESSING"
  /\ status = [r \in Recipients |-> "READY"]
  /\ claim = [r \in Recipients |-> NoOne]
  /\ expired = {}
  /\ attempts = [r \in Recipients |-> 0]
  /\ dispatchState = [r \in Recipients |-> [i \in Attempts |-> "NONE"]]
  /\ providerState = [r \in Recipients |-> [i \in Attempts |-> "NONE"]]
  /\ matched = [r \in Recipients |-> [i \in Attempts |-> FALSE]]
  /\ author = [r \in Recipients |-> [i \in Attempts |-> Starter]]
  /\ events = [r \in Recipients |-> [i \in Attempts |-> {}]]
  /\ wire = [r \in Recipients |-> [i \in Attempts |-> "none"]]
  /\ calls = [r \in Recipients |-> [i \in Attempts |-> 0]]
  /\ optedIn = [r \in Recipients |-> TRUE]
  /\ reachable = [r \in Recipients |-> TRUE]
  /\ conversation = [r \in Recipients |-> "usable"]
  /\ starterActive = TRUE
  /\ step = [w \in Workers |-> "idle"]
  /\ todo = [w \in Workers |-> {}]
  /\ current = [w \in Workers |-> NoOne]
  /\ attempt = [w \in Workers |-> 0]
  /\ held = [w \in Workers |-> [r \in Recipients |-> 0]]
  /\ template = [w \in Workers |-> TRUE]
  /\ consentSeen = [w \in Workers |-> {}]
  /\ answer = [w \in Workers |-> "none"]
  /\ slow = 0 /\ crashes = 0 /\ changes = 0

\* process_batch returns, raises or dies: its locals are gone.
Leave(w) ==
  /\ step' = [step EXCEPT ![w] = "idle"]
  /\ todo' = [todo EXCEPT ![w] = {}]
  /\ current' = [current EXCEPT ![w] = NoOne]
  /\ attempt' = [attempt EXCEPT ![w] = 0]
  /\ held' = [held EXCEPT ![w] = [r \in Recipients |-> 0]]
  /\ template' = [template EXCEPT ![w] = TRUE]
  /\ consentSeen' = [consentSeen EXCEPT ![w] = {}]
  /\ answer' = [answer EXCEPT ![w] = "none"]

\* process_batch leaves a transaction that commits nothing: an exception rolls
\* it back, or it returns early.
Abort(w) ==
  /\ Leave(w)
  /\ UNCHANGED <<broadcast, recipientVars, messageVars, providerVars, contactVars, boundVars>>

\* The send of the current recipient is over; completed_count += 1.
NextRecipient(w) ==
  /\ step' = [step EXCEPT ![w] = "next"]
  /\ todo' = [todo EXCEPT ![w] = @ \ {current[w]}]
  /\ current' = [current EXCEPT ![w] = NoOne]
  /\ attempt' = [attempt EXCEPT ![w] = 0]
  /\ answer' = [answer EXCEPT ![w] = "none"]
  /\ UNCHANGED <<held, template, consentSeen>>

Goto(w, next) ==
  /\ step' = [step EXCEPT ![w] = next]
  /\ UNCHANGED <<todo, current, attempt, held, template, consentSeen, answer>>

\* _block and _block_broadcast_recipient
Block(r) ==
  /\ status' = [status EXCEPT ![r] = "BLOCKED"]
  /\ claim' = [claim EXCEPT ![r] = NoOne]
  /\ expired' = expired \ {r}

-----------------------------------------------------------------------------
(* process_batch                                                           *)

\* Mutant: only unstarted messages are recovered.
StaleUnstarted == {r \in Recipients :
  status[r] = "IN_PROGRESS" /\ r \in expired /\ LatestDispatch(r) # "IN_PROGRESS"}

Stale == {r \in Recipients : status[r] = "IN_PROGRESS" /\ r \in expired}

\* _recover_stale_claims of one recipient: a started message may have reached
\* the provider, and becomes UNKNOWN.
RecoveredDispatch(d) == IF d = "IN_PROGRESS" THEN "UNKNOWN" ELSE d

\* The claim is released before the projection is recomputed, except that of a
\* message already reconciled.
Cleared(r) == Unsent(r) \/ LatestDispatch(r) = "IN_PROGRESS"

RecoveredStatus(r) ==
  IF Unsent(r) THEN "READY"
  ELSE RecipientStatus(RecoveredDispatch(LatestDispatch(r)), LatestProvider(r),
                       ~Cleared(r) /\ claim[r] # NoOne)

\* _recover_stale_claims_transaction: claims of a PENDING or absent message
\* are released, an IN_PROGRESS message becomes UNKNOWN.  Rows locked by
\* another transaction are skipped, hence the subset.
RecoverStaleClaims(w) ==
  /\ step[w] = "idle"
  /\ \E R \in SUBSET Stale :
       /\ broadcast # "PROCESSING" => R = {}
       /\ status' = [r \in Recipients |-> IF r \in R THEN RecoveredStatus(r) ELSE status[r]]
       /\ claim' = [r \in Recipients |-> IF r \in R /\ Cleared(r) THEN NoOne ELSE claim[r]]
       /\ expired' = expired \ {r \in R : Cleared(r)}
       /\ dispatchState' =
            [r \in Recipients |->
              [i \in Attempts |->
                IF r \in R /\ i = attempts[r]
                THEN RecoveredDispatch(dispatchState[r][i]) ELSE dispatchState[r][i]]]
  /\ \E sendable \in TemplateAnswers : template' = [template EXCEPT ![w] = sendable]
  /\ consentSeen' = [consentSeen EXCEPT ![w] = {r \in Recipients : optedIn[r]}]
  /\ step' = [step EXCEPT ![w] = "candidates"]
  /\ UNCHANGED <<broadcast, attempts, providerState, matched, author, providerVars,
                 contactVars, todo, current, attempt, held, answer, boundVars>>

\* _claim_candidates: the first 2 * batch_size READY recipients.
ReadCandidates(w) ==
  /\ step[w] = "candidates"
  /\ todo' = [todo EXCEPT ![w] =
                First(2 * BatchSize, {r \in Recipients : status[r] = "READY"})]
  /\ step' = [step EXCEPT ![w] = "claim"]
  /\ UNCHANGED <<broadcast, recipientVars, messageVars, providerVars, contactVars,
                 current, attempt, held, template, consentSeen, answer, boundVars>>

Claimable(w) == {r \in todo[w] : status[r] = "READY"}

\* The claim transaction for the rows S that SKIP LOCKED lets it lock.
ClaimRecipients(w, S) ==
  /\ step[w] = "claim"
  /\ broadcast = "PROCESSING"
  /\ S \subseteq Claimable(w) /\ Cardinality(S) <= BatchSize
  \* _conversation_for_recipient raises otherwise
  /\ \A r \in S : conversation[r] # "foreign"
  /\ LET owned == {r \in S : Unsent(r)}
     IN /\ status' = [r \in Recipients |->
                        IF r \in owned THEN "IN_PROGRESS"
                        ELSE IF r \in S THEN "BLOCKED" ELSE status[r]]
        /\ claim' = [r \in Recipients |->
                        IF r \in owned THEN w ELSE IF r \in S THEN NoOne ELSE claim[r]]
        /\ expired' = expired \ S
        \* _pending_broadcast_message, the initial message
        /\ attempts' = [r \in Recipients |->
                        IF r \in S /\ attempts[r] = 0 THEN 1 ELSE attempts[r]]
        /\ dispatchState' =
             [r \in Recipients |->
               [i \in Attempts |->
                 IF r \in S /\ attempts[r] = 0 /\ i = 1 THEN "PENDING"
                 ELSE dispatchState[r][i]]]
        /\ todo' = [todo EXCEPT ![w] = owned]
        /\ held' = [held EXCEPT ![w] =
                      [r \in Recipients |-> IF r \in owned THEN attempts[r] ELSE 0]]
  /\ step' = [step EXCEPT ![w] = "next"]
  /\ UNCHANGED <<broadcast, providerState, matched, author, providerVars, contactVars,
                 current, attempt, template, consentSeen, answer, boundVars>>

\* The claim transaction raises: the broadcast is not PROCESSING, or a phone
\* belongs to an unresolved or different conversation.  Nothing is claimed.
ClaimRaises(w) ==
  /\ step[w] = "claim"
  /\ \/ broadcast # "PROCESSING"
     \/ \E S \in SUBSET Claimable(w) :
          Cardinality(S) <= BatchSize /\ \E r \in S : conversation[r] = "foreign"
  /\ Abort(w)

\* The command_id is known already, that of start() or of an earlier call whose
\* answer was lost: the call returns a replayed result and claims nothing.
ClaimReplays(w) ==
  /\ step[w] = "claim"
  /\ Abort(w)

\* The claimed ORM objects outlive the claim transaction (the session does
\* not expire on commit), and _prepare_dispatch reads them without
\* populate_existing: the recipient still reads IN_PROGRESS whatever the row
\* says, and a PENDING message loaded by the claim still reads PENDING.
ReadsPending(w, r) == LatestDispatch(r) = "PENDING" \/ held[w][r] = attempts[r]

Dispatchable(w, r) ==
  /\ template[w]
  /\ reachable[r] /\ r \in consentSeen[w]
  /\ ReadsPending(w, r)

\* _prepare_dispatch blocks the recipient and returns no plan.
PrepareBlocks(w, r) ==
  /\ step[w] = "next"
  /\ r \in todo[w]
  /\ ~Dispatchable(w, r)
  /\ Block(r)
  /\ todo' = [todo EXCEPT ![w] = @ \ {r}]
  /\ UNCHANGED <<broadcast, messageVars, providerVars, contactVars, step, current, attempt,
                 held, template, consentSeen, answer, boundVars>>

\* _prepare_dispatch returns the plan of the latest message.
PreparePlans(w, r) ==
  /\ step[w] = "next"
  /\ r \in todo[w]
  /\ Dispatchable(w, r)
  /\ current' = [current EXCEPT ![w] = r]
  /\ attempt' = [attempt EXCEPT ![w] = attempts[r]]
  /\ step' = [step EXCEPT ![w] = "prepare"]
  /\ UNCHANGED <<broadcast, recipientVars, messageVars, providerVars, contactVars,
                 todo, held, template, consentSeen, answer, boundVars>>
-----------------------------------------------------------------------------
(* WhatsAppMessageService.send for the current recipient                   *)

\* _prepare raises: the conversation is hidden, the sender is inactive, or the
\* message of this UUID was authored by another user (_assert_same_payload).
PrepareRaises(w) ==
  LET r == current[w] IN
  /\ step[w] = "prepare"
  /\ \/ conversation[r] = "hidden"
     \/ ~starterActive
     \/ author[r][attempt[w]] # Starter
  /\ Abort(w)

\* _prepare finds the message: it is dispatched only while PENDING.
PrepareSend(w) ==
  LET r == current[w] IN
  /\ step[w] = "prepare"
  /\ conversation[r] # "hidden" /\ starterActive
  /\ author[r][attempt[w]] = Starter
  /\ IF dispatchState[r][attempt[w]] = "PENDING" THEN Goto(w, "start") ELSE NextRecipient(w)
  /\ UNCHANGED <<broadcast, recipientVars, messageVars, providerVars, contactVars, boundVars>>

\* Mutant: consent is only checked when the plan is made.
MayStartWithoutConsent(w, r) ==
  /\ reachable[r] /\ conversation[r] # "foreign"
  /\ status[r] = "IN_PROGRESS"
  /\ attempts[r] = attempt[w]

\* What _start_dispatch requires under the consent-dispatch lock and the row
\* locks, read with populate_existing.
MayStart(w, r) ==
  /\ reachable[r] /\ optedIn[r]
  /\ conversation[r] # "foreign"
  /\ status[r] = "IN_PROGRESS"
  /\ attempts[r] = attempt[w]

\* _start_dispatch on an ineligible recipient, whatever the message's state.
StartBlocks(w) ==
  LET r == current[w] IN
  /\ step[w] = "start"
  /\ ~MayStart(w, r)
  /\ Block(r)
  /\ NextRecipient(w)
  /\ UNCHANGED <<broadcast, messageVars, providerVars, contactVars, boundVars>>

\* Mutant: the message's own dispatch state is not rechecked.
StartDispatchUnchecked(w) ==
  LET r == current[w] IN
  /\ step[w] = "start"
  /\ MayStart(w, r)
  /\ dispatchState' = [dispatchState EXCEPT ![r][attempt[w]] = "IN_PROGRESS"]
  /\ status' = [status EXCEPT ![r] = "IN_PROGRESS"]
  /\ Goto(w, "call")
  /\ UNCHANGED <<broadcast, claim, expired, attempts, providerState, matched, author,
                 providerVars, contactVars, boundVars>>

\* _start_dispatch: PENDING -> IN_PROGRESS, the durable dispatch boundary.
StartDispatch(w) ==
  LET r == current[w] IN
  /\ step[w] = "start"
  /\ MayStart(w, r)
  /\ IF dispatchState[r][attempt[w]] = "PENDING"
     THEN /\ dispatchState' = [dispatchState EXCEPT ![r][attempt[w]] = "IN_PROGRESS"]
          /\ status' = [status EXCEPT ![r] =
               RecipientStatus("IN_PROGRESS", providerState[r][attempt[w]], claim[r] # NoOne)]
          /\ Goto(w, "call")
     ELSE /\ NextRecipient(w)
          /\ UNCHANGED <<dispatchState, status>>
  /\ UNCHANGED <<broadcast, claim, expired, attempts, providerState, matched, author,
                 providerVars, contactVars, boundVars>>

\* _dispatch: the provider call, outside every transaction.  An "unknown"
\* answer (a timeout) leaves open whether the provider accepted.
CallProvider(w) ==
  LET r == current[w]
      i == attempt[w]
  IN
  /\ step[w] = "call"
  /\ calls' = [calls EXCEPT ![r][i] = @ + 1]
  /\ \E truth \in {"accepted", "rejected"}, told \in {"success", "failure", "unknown"} :
       /\ told = "success" => truth = "accepted"
       /\ told = "failure" => truth = "rejected"
       /\ wire' = [wire EXCEPT ![r][i] = truth]
       /\ answer' = [answer EXCEPT ![w] = told]
  /\ step' = [step EXCEPT ![w] = "reconcile"]
  /\ UNCHANGED <<broadcast, recipientVars, messageVars, events, contactVars,
                 todo, current, attempt, held, template, consentSeen, boundVars>>

\* Mutant: a timeout is taken for a refusal.
AnswerStateTimeout(told) == IF told = "success" THEN "ACCEPTED" ELSE "DEFINITIVE_FAILED"

\* The dispatch state a provider answer stands for.
AnswerState(told) ==
  CASE told = "success" -> "ACCEPTED"
    [] told = "failure" -> "DEFINITIVE_FAILED"
    [] OTHER -> "UNKNOWN"

\* _reconcile_success and _reconcile_error: they act only on a message still
\* IN_PROGRESS; success stores the external id, attaches the events recorded
\* before it was known, and recomputes the recipient.
Reconcile(w) ==
  LET r == current[w]
      i == attempt[w]
      reached == AnswerState(answer[w])
  IN
  /\ step[w] = "reconcile"
  /\ IF dispatchState[r][i] = "IN_PROGRESS"
     THEN /\ dispatchState' = [dispatchState EXCEPT ![r][i] = reached]
          /\ matched' = [matched EXCEPT ![r][i] = reached = "ACCEPTED"]
          /\ \E s \in (IF reached = "ACCEPTED" THEN Attached(events[r][i]) ELSE {"NONE"}) :
               /\ providerState' = [providerState EXCEPT ![r][i] = s]
               /\ status' = [status EXCEPT ![r] =
                    Recomputed(@, IF i = attempts[r] THEN reached ELSE LatestDispatch(r),
                               LatestAfter(r, i, s), claim[r] # NoOne)]
     ELSE UNCHANGED <<dispatchState, matched, providerState, status>>
  /\ NextRecipient(w)
  /\ UNCHANGED <<broadcast, claim, expired, attempts, author, providerVars, contactVars, boundVars>>

\* The last transaction of process_batch: _complete_if_idle.
FinishBatch(w) ==
  /\ step[w] = "next"
  /\ todo[w] = {}
  /\ broadcast' = IF Remaining = {} THEN "COMPLETED" ELSE broadcast
  /\ Leave(w)
  /\ UNCHANGED <<recipientVars, messageVars, providerVars, contactVars, boundVars>>

-----------------------------------------------------------------------------
(* Everything around process_batch                                         *)

\* The process dies between two transactions, or during the provider call.
Crash(w) ==
  /\ step[w] # "idle"
  /\ crashes < MaxCrashes
  /\ crashes' = crashes + 1
  /\ Leave(w)
  /\ UNCHANGED <<broadcast, recipientVars, messageVars, providerVars, contactVars, slow, changes>>

\* Some worker still has the claimed recipient before it.
Owned(r) == claim[r] # NoOne /\ r \in todo[claim[r]]

\* claimed_at falls behind now - claim_timeout: always in the end for a claim
\* nobody works on, up to MaxSlow times for one whose worker is only slow.
ClaimExpires(r) ==
  /\ claim[r] # NoOne /\ r \notin expired
  /\ expired' = expired \cup {r}
  /\ IF Owned(r)
     THEN slow < MaxSlow /\ slow' = slow + 1
     ELSE UNCHANGED slow
  /\ UNCHANGED <<broadcast, status, claim, messageVars, providerVars, contactVars, workerVars,
                 crashes, changes>>

\* Mutant: a message of unknown fate may be retried.
RetryableUnknown(r) ==
  /\ status[r] \in {"FAILED", "UNKNOWN"}
  /\ reachable[r] /\ optedIn[r]
  /\ attempts[r] < MaxAttempts

\* _message_failed of the latest message, with the recipient still eligible.
Retryable(r) ==
  /\ status[r] = "FAILED"
  /\ reachable[r] /\ optedIn[r]
  /\ LatestDispatch(r) = "DEFINITIVE_FAILED" \/ LatestProvider(r) = "FAILED"
  /\ attempts[r] < MaxAttempts

\* retry_failed: a new PENDING message by the retrying user for every failed
\* recipient of the command; the others are reported as rejected.  It raises,
\* and changes nothing, when the template is not sendable any more.
RetryFailed(u, S) ==
  /\ \E sendable \in TemplateAnswers : sendable
  /\ S # {} /\ \A r \in S : Retryable(r)
  /\ attempts' = [r \in Recipients |-> IF r \in S THEN attempts[r] + 1 ELSE attempts[r]]
  /\ dispatchState' =
       [r \in Recipients |->
         [i \in Attempts |->
           IF r \in S /\ i = attempts[r] + 1 THEN "PENDING" ELSE dispatchState[r][i]]]
  /\ author' =
       [r \in Recipients |->
         [i \in Attempts |-> IF r \in S /\ i = attempts[r] + 1 THEN u ELSE author[r][i]]]
  /\ status' = [r \in Recipients |->
                  IF r \in S THEN Recomputed(status[r], "PENDING", "NONE", FALSE) ELSE status[r]]
  /\ claim' = [r \in Recipients |-> IF r \in S THEN NoOne ELSE claim[r]]
  /\ expired' = expired \ S
  /\ broadcast' = "PROCESSING"
  /\ UNCHANGED <<providerState, matched, providerVars, contactVars, workerVars, boundVars>>

\* WhatsAppStatusService.record of a status webhook for a message the provider
\* accepted, first delivery or a redelivery.  Until the external id is known
\* the event is only stored.
ProviderReports(r, i, s, newer) ==
  /\ wire[r][i] = "accepted"
  /\ events' = [events EXCEPT ![r][i] = @ \cup {s}]
  /\ IF matched[r][i]
     THEN LET p == IF MayReplace(providerState[r][i], s, newer) THEN s ELSE providerState[r][i]
          IN /\ providerState' = [providerState EXCEPT ![r][i] = p]
             /\ status' = [status EXCEPT ![r] =
                  Recomputed(@, LatestDispatch(r), LatestAfter(r, i, p), claim[r] # NoOne)]
     ELSE UNCHANGED <<providerState, status>>
  /\ UNCHANGED <<broadcast, claim, expired, attempts, dispatchState, matched, author,
                 wire, calls, contactVars, workerVars, boundVars>>

\* WhatsAppConsentService.append, a phone change or a deletion of the customer,
\* a conversation hidden, restored or resolved to another customer, a starter
\* deactivated or reactivated.  Each is one transaction of another service.
ContactChanges ==
  /\ changes < MaxChanges
  /\ changes' = changes + 1
  /\ \/ /\ \E r \in Recipients : optedIn' = [optedIn EXCEPT ![r] = ~@]
        /\ UNCHANGED <<reachable, conversation, starterActive>>
     \/ /\ \E r \in Recipients : reachable' = [reachable EXCEPT ![r] = ~@]
        /\ UNCHANGED <<optedIn, conversation, starterActive>>
     \/ /\ \E r \in Recipients, k \in ConversationKinds :
             conversation' = [conversation EXCEPT ![r] = k]
        /\ UNCHANGED <<optedIn, reachable, starterActive>>
     \/ /\ starterActive' = ~starterActive
        /\ UNCHANGED <<optedIn, reachable, conversation>>
  /\ UNCHANGED <<broadcast, recipientVars, messageVars, providerVars, workerVars, slow, crashes>>

-----------------------------------------------------------------------------
\* One call of process_batch takes its next step.
ProcessStep(w) ==
  \/ RecoverStaleClaims(w)
  \/ ReadCandidates(w)
  \/ \E S \in SUBSET Recipients : ClaimRecipients(w, S)
  \/ ClaimRaises(w)
  \/ ClaimReplays(w)
  \/ \E r \in Recipients : PrepareBlocks(w, r) \/ PreparePlans(w, r)
  \/ PrepareRaises(w)
  \/ PrepareSend(w)
  \/ StartBlocks(w)
  \/ StartDispatch(w)
  \/ CallProvider(w)
  \/ Reconcile(w)
  \/ FinishBatch(w)

Next ==
  \/ \E w \in Workers : ProcessStep(w) \/ Crash(w)
  \/ \E r \in Recipients : ClaimExpires(r)
  \/ \E u \in Users, S \in SUBSET Recipients : RetryFailed(u, S)
  \/ \E r \in Recipients, i \in Attempts, s \in Reports, newer \in BOOLEAN :
       ProviderReports(r, i, s, newer)
  \/ ContactChanges

Spec == Init /\ [][Next]_vars
-----------------------------------------------------------------------------
(* Properties                                                              *)

\* Every variable has its type.
TypeOK ==
  /\ broadcast \in {"PROCESSING", "COMPLETED"}
  /\ status \in [Recipients -> RecipientStatuses]
  /\ claim \in [Recipients -> Workers \cup {NoOne}]
  /\ expired \subseteq Recipients
  /\ attempts \in [Recipients -> 0..MaxAttempts]
  /\ dispatchState \in [Recipients -> [Attempts -> DispatchStates]]
  /\ providerState \in [Recipients -> [Attempts -> DeliveryStates \cup {"NONE"}]]
  /\ matched \in [Recipients -> [Attempts -> BOOLEAN]]
  /\ author \in [Recipients -> [Attempts -> Users]]
  /\ events \in [Recipients -> [Attempts -> SUBSET DeliveryStates]]
  /\ wire \in [Recipients -> [Attempts -> {"none", "accepted", "rejected"}]]
  /\ calls \in [Recipients -> [Attempts -> Nat]]
  /\ optedIn \in [Recipients -> BOOLEAN]
  /\ reachable \in [Recipients -> BOOLEAN]
  /\ conversation \in [Recipients -> Conversations]
  /\ starterActive \in BOOLEAN
  /\ step \in [Workers -> Steps]
  /\ todo \in [Workers -> SUBSET Recipients]
  /\ current \in [Workers -> Recipients \cup {NoOne}]
  /\ attempt \in [Workers -> 0..MaxAttempts]
  /\ held \in [Workers -> [Recipients -> 0..MaxAttempts]]
  /\ template \in [Workers -> BOOLEAN]
  /\ consentSeen \in [Workers -> SUBSET Recipients]
  /\ answer \in [Workers -> {"none", "success", "failure", "unknown"}]
  /\ slow \in 0..MaxSlow /\ crashes \in 0..MaxCrashes /\ changes \in 0..MaxChanges

\* No attempt is ever handed to the provider twice, however many workers,
\* reclaims and retries there are (CRM-013 AC-08, AC-10).
AtMostOneCall == \A r \in Recipients, i \in Attempts : calls[r][i] <= 1

\* Whatever recovery, retry, webhooks and slow workers do, a recipient offered
\* to the next claim has no message or one the provider has not seen.
ReadyMeansUnsent ==
  \A r \in Recipients : status[r] = "READY" => LatestDispatch(r) \in {"NONE", "PENDING"}

\* A customer gets a second message only when the provider refused the first
\* or reported it FAILED: an attempt of unknown fate is never resent
\* (CRM-011 "UNKNOWN is never retried").
NoDoubleDelivery ==
  \A r \in Recipients, i, j \in Attempts :
    i < j /\ wire[r][i] = "accepted" /\ wire[r][j] # "none" => "FAILED" \in events[r][i]

\* Two workers are never both inside a provider call, or between it and its
\* reconciliation, for the same recipient.
OneDispatcher ==
  \A v, w \in Workers :
    /\ step[v] \in {"call", "reconcile"} /\ step[w] \in {"call", "reconcile"}
    /\ current[v] = current[w]
    => v = w

\* The outcome of an attempt in the terms of the abstract ledger.
LedgerOutcome(d) ==
  CASE d \in {"NONE", "PENDING"} -> "open"
    [] d = "IN_PROGRESS" -> "started"
    [] d = "ACCEPTED" -> "sent"
    [] d = "DEFINITIVE_FAILED" -> "refused"
    [] OTHER -> "uncertain"

Ledger == INSTANCE AttemptLedger WITH
  authorized <- attempts,
  outcome <- [r \in Recipients |-> [i \in Attempts |-> LedgerOutcome(dispatchState[r][i])]],
  failedLater <- [r \in Recipients |-> [i \in Attempts |-> "FAILED" \in events[r][i]]]

\* The messages of every recipient follow the abstract ledger: authorized one
\* at a time, started once, concluded once, retried only after a failure.
ImplementsLedger == Ledger!Spec

-----------------------------------------------------------------------------
(* Properties while no claim has expired under a slow worker               *)

\* CRM-013: one recompute function derives the recipient's status from its
\* latest message; a block is the only other writer, and only before a send.
ProjectionFollowsLatest ==
  slow = 0 => \A r \in Recipients :
    attempts[r] > 0 =>
      \/ status[r] = RecipientStatus(LatestDispatch(r), LatestProvider(r), claim[r] # NoOne)
      \/ status[r] = "BLOCKED" /\ LatestDispatch(r) = "PENDING"

\* CRM-011: "A changed condition blocks the affected send": a recipient is not
\* blocked while nothing about it or the template has changed.
OnlyChangedConditionsBlock ==
  [][\A r \in Recipients :
       slow' = 0 /\ status[r] # "BLOCKED" /\ status'[r] = "BLOCKED"
       => \/ ~optedIn[r] \/ ~reachable[r] \/ conversation[r] = "foreign"
          \/ \E w \in Workers :
               step[w] = "next" /\ r \in todo[w] /\ (~template[w] \/ r \notin consentSeen[w])]_vars

-----------------------------------------------------------------------------
(* Fairness: the scheduler keeps calling process_batch, a running call goes *)
(* on unless its process crashes, and time passes for abandoned claims.     *)
(* SKIP LOCKED does not skip for ever, since row locks are short: then the  *)
(* rows a claim locks are the first of its candidates.  The scheduler makes *)
(* a new command_id for every call, so that calls are not replays for ever. *)
FairProcessing ==
  /\ \A w \in Workers :
       /\ WF_vars(ProcessStep(w))
       /\ SF_vars(Claimable(w) # {} /\ ClaimRecipients(w, First(BatchSize, Claimable(w))))
       /\ SF_vars(Claimable(w) = {} /\ ClaimRecipients(w, {}))
       /\ SF_vars(RecoverStaleClaims(w) /\ Stale' = {})
  /\ \A r \in Recipients : WF_vars(ClaimExpires(r) /\ ~Owned(r))

FairSpec == Spec /\ FairProcessing

\* The batches finish: whatever crashes, is withdrawn or is called again under a
\* known command_id, the broadcast completes, and after a retry it completes
\* again; unless its starter is deactivated, in whose name nothing is sent.
EventuallyCompletes ==
  []starterActive => (broadcast = "PROCESSING" ~> broadcast = "COMPLETED")

\* CRM-011: "A changed condition blocks the affected send".  A recipient who has
\* opted out, or whose customer is gone or has another phone, before its message
\* was started ends BLOCKED and is sent nothing, at whichever point between
\* claim, plan and start the change came, and whatever crashes and is recovered.
ChangedConditionBlocks ==
  []starterActive =>
    \A r \in Recipients :
      /\ ~optedIn[r] \/ ~reachable[r]
      /\ status[r] \in {"READY", "IN_PROGRESS"} /\ Unsent(r)
      ~> (optedIn[r] /\ reachable[r]) \/ status[r] = "BLOCKED"

\* CRM-011: an explicit retry "makes that recipient processable": no created
\* message waits for ever, it is sent or its recipient is blocked.
PendingIsHandled ==
  \A r \in Recipients, i \in Attempts :
    dispatchState[r][i] = "PENDING" ~> dispatchState[r][i] # "PENDING" \/ status[r] = "BLOCKED"

\* CRM-011: "A changed condition blocks the affected send and records why": it is
\* the affected one, and a recipient whose own conversation is in order does not
\* stay READY for ever behind another's.
OthersGoOn ==
  \A r \in Recipients :
    [](conversation[r] # "foreign") => (status[r] = "READY" ~> status[r] # "READY")

\* CRM-013 AC-10: a message left IN_PROGRESS by a dead worker becomes UNKNOWN.
InProgressSettles ==
  \A r \in Recipients, i \in Attempts :
    dispatchState[r][i] = "IN_PROGRESS" ~> dispatchState[r][i] # "IN_PROGRESS"
=============================================================================
