--------------------------- MODULE BroadcastDraft ---------------------------
(***************************************************************************)
(* A Broadcast from its creation to its start: WhatsAppBroadcastService    *)
(* lets several users edit, validate, confirm and start it, while consent  *)
(* events, customers and the provider's templates change.                  *)
(*                                                                         *)
(* Every command is one transaction under the broadcast's row lock.  The   *)
(* commands that need the provider's templates list them before it, and    *)
(* take their time stamp before that: a request is what was listed and     *)
(* what the clock said then.  Consent events and customers are not locked; *)
(* a change that commits after such a command has read it comes after it.  *)
(***************************************************************************)
EXTENDS Integers, FiniteSets, Sequences

CONSTANTS
  Customers,
  Phones,
  Contents,     \* label, parameters, header media and template of a draft
  Signatures,   \* component signatures of the sendable template
  Clients,      \* users' browsers
  Commands,     \* command_id values
  Nobody,       \* no phone, template, request or reading
  MaxVersion,   \* bound: versions of the draft
  MaxTokens,    \* bound: validations that issue a token
  MaxConsents,  \* bound: consent events
  MaxChanges    \* bound: changes of phones and templates

ASSUME DraftAssumption ==
  /\ Nobody \notin Phones /\ Nobody \notin Signatures
  /\ MaxVersion \in Nat \ {0} /\ MaxTokens \in Nat
  /\ MaxConsents \in Nat /\ MaxChanges \in Nat

Statuses == {"none", "DRAFT", "CONFIRMED", "PROCESSING"}
Recipients == [customer : Customers, phone : Phones]
Consents == [customer : Customers, event : Nat]
ConsentEvents == [customer : Customers, phone : Phones, granted : BOOLEAN]
AuditTypes == {"RECIPIENTS_REPLACED", "CONFIRMED", "STARTED"}

VARIABLES
  status,      \* status of the broadcast, "none" before creation
  version,     \* version
  content,     \* label, parameters, template identity and header media
  signature,   \* template_component_signature
  creator,     \* created_by_user_id
  recipients,  \* its recipients: customer and normalized phone
  token,       \* validation_token, 0 for none
  digest,      \* validation_digest, the hashed values themselves
  ready,       \* consent_event_id of the confirmed recipients
  audit,       \* audit events with a command_id
  issued,      \* tokens issued
  lapsed,      \* tokens whose validation_expires_at has passed
  phone,       \* phone of a customer, Nobody without one or when deleted
  events,      \* consent events, in the order of effective_at and id
  template,    \* signature of the provider's template, Nobody if not sendable
  request,     \* per client: templates and clock of its request in progress
  seen,        \* per client: what it was last shown
  changes      \* consumed bound

draftVars == <<status, version, content, signature, creator, recipients, ready, audit>>
tokenVars == <<token, digest, issued, lapsed>>
worldVars == <<phone, events, template, changes>>
vars == <<draftVars, tokenVars, worldVars, request, seen>>

-----------------------------------------------------------------------------
\* The rows a replacement by the customers S may leave: the first customer of
\* every phone in the order of the request.
Selections(S) ==
  LET found == {[customer |-> c, phone |-> phone[c]] : c \in {d \in S : phone[d] # Nobody}} IN
  {R \in SUBSET found : \A f \in found : Cardinality({r \in R : r.phone = f.phone}) = 1}

EventsOf(c, p, n) == {i \in 1..n : events[i].customer = c /\ events[i].phone = p}

\* The current consent events among the first n: current_many takes the
\* latest of every customer and phone.
CurrentConsents(R, n) ==
  {e \in [customer : Customers, event : 1..n] :
     \E r \in R : /\ r.customer = e.customer
                  /\ e.event \in EventsOf(r.customer, r.phone, n)
                  /\ \A j \in EventsOf(r.customer, r.phone, n) : j <= e.event}

\* The recipient's customer still has its phone and has opted in.
Eligible(r, n) ==
  /\ phone[r.customer] = r.phone
  /\ \E e \in CurrentConsents({r}, n) : events[e.event].granted

\* _validation_snapshot without issues
Valid(listed, n) ==
  /\ recipients # {}
  /\ listed = signature
  /\ \A r \in recipients : Eligible(r, n)

DigestOfDraft(n) ==  \* Mutant: the consent events are not part of it
  [version |-> version, content |-> content, signature |-> signature,
   recipients |-> recipients, consents |-> {}]
\* _validation_digest
Digest(n) ==
  [version |-> version, content |-> content, signature |-> signature,
   recipients |-> recipients, consents |-> CurrentConsents(recipients, n)]

\* _require_draft_version with the version the client was shown
DraftAt(k) == status = "DRAFT" /\ seen[k] # Nobody /\ seen[k].version = version

AnyCommand(m) == m \in Commands  \* Mutant: no lookup of the command
\* ~_command_exists, whatever the command was
Unused(m) == \A i \in 1..Len(audit) : audit[i].command # m

\* broadcast.version += 1
NextVersion == version + 1

\* An edit clears the token and with it the digest and expiry.
ClearedToken == 0

\* The consent events a request that began at event number n may see: those
\* effective by then, or appended just then and committed before it reads.
Horizons(k) == request[k].horizon..Len(events)

\* What a client is shown of the broadcast.
Shown(v, c, R) ==
  [version |-> v, content |-> c, recipients |-> R, token |-> 0, consents |-> {}]

-----------------------------------------------------------------------------
Init ==
  /\ status = "none" /\ version = 0 /\ content = Nobody /\ signature = Nobody
  /\ creator = Nobody /\ recipients = {} /\ ready = {} /\ audit = <<>>
  /\ token = 0 /\ digest = Nobody /\ issued = 0 /\ lapsed = {}
  /\ phone \in [Customers -> Phones] /\ events = <<>> /\ template \in Signatures
  /\ changes = 0
  /\ request = [k \in Clients |-> Nobody]
  /\ seen = [k \in Clients |-> Nobody]

\* A client reads the broadcast.
Open(k) ==
  /\ status # "none"
  /\ seen' = [seen EXCEPT ![k] = Shown(version, content, recipients)]
  /\ UNCHANGED <<draftVars, tokenVars, worldVars, request>>

\* A command takes the time and lists the templates.
BeginRequest(k) ==
  /\ request[k] = Nobody
  /\ request' = [request EXCEPT ![k] =
       [listed |-> template, horizon |-> Len(events), lapsed |-> lapsed]]
  /\ UNCHANGED <<draftVars, tokenVars, worldVars, seen>>

\* It is refused, or lost.
EndRequest(k) ==
  /\ request[k] # Nobody
  /\ request' = [request EXCEPT ![k] = Nobody]
  /\ UNCHANGED <<draftVars, tokenVars, worldVars, seen>>

\* create, under the advisory lock of its client_generated_id
Create(k, c) ==
  /\ status = "none"
  /\ request[k] # Nobody /\ request[k].listed # Nobody
  /\ status' = "DRAFT" /\ version' = 1
  /\ content' = c /\ signature' = request[k].listed /\ creator' = k
  /\ seen' = [seen EXCEPT ![k] = Shown(1, c, recipients)]
  /\ request' = [request EXCEPT ![k] = Nobody]
  /\ UNCHANGED <<recipients, ready, audit, tokenVars, worldVars>>

\* _assert_create_replay: an equal request of the same user gets the broadcast
\* as it is now.
ReplayCreate(k) ==
  /\ status # "none" /\ creator = k
  /\ request[k] # Nobody /\ request[k].listed # Nobody
  /\ seen' = [seen EXCEPT ![k] = Shown(version, content, recipients)]
  /\ request' = [request EXCEPT ![k] = Nobody]
  /\ UNCHANGED <<draftVars, tokenVars, worldVars>>

\* replace_recipients; a replay of its command changes nothing.
ReplaceRecipients(k, S, m) ==
  /\ DraftAt(k) /\ Unused(m) /\ S # {}
  /\ version < MaxVersion
  /\ recipients' \in Selections(S)
  /\ version' = NextVersion
  /\ token' = ClearedToken
  /\ audit' = Append(audit, [type |-> "RECIPIENTS_REPLACED", command |-> m])
  /\ seen' = [seen EXCEPT ![k] = Shown(version', content, recipients')]
  /\ UNCHANGED <<status, content, signature, creator, ready, digest, issued, lapsed,
                 worldVars, request>>

\* update_draft
UpdateDraft(k, c) ==
  /\ request[k] # Nobody /\ request[k].listed # Nobody
  /\ DraftAt(k)
  /\ version < MaxVersion
  /\ content' = c /\ signature' = request[k].listed
  /\ version' = NextVersion
  /\ token' = ClearedToken
  /\ seen' = [seen EXCEPT ![k] = Shown(version', c, recipients)]
  /\ request' = [request EXCEPT ![k] = Nobody]
  /\ UNCHANGED <<status, creator, recipients, ready, audit, digest, issued, lapsed, worldVars>>

\* validate: a token if there are no issues, none otherwise.
Validate(k) ==
  /\ request[k] # Nobody /\ DraftAt(k)
  /\ \E n \in Horizons(k) :
       IF Valid(request[k].listed, n)
       THEN /\ issued < MaxTokens
            /\ issued' = issued + 1 /\ token' = issued'
            /\ digest' = Digest(n)
            /\ seen' = [seen EXCEPT ![k].token = issued',
                                    ![k].consents = CurrentConsents(recipients, n)]
       ELSE /\ token' = 0
            /\ seen' = [seen EXCEPT ![k].token = 0, ![k].consents = {}]
            /\ UNCHANGED <<issued, digest>>
  /\ request' = [request EXCEPT ![k] = Nobody]
  /\ UNCHANGED <<draftVars, lapsed, worldVars>>

\* confirm with the token the client was given
Confirm(k, m) ==
  /\ request[k] # Nobody /\ DraftAt(k) /\ Unused(m)
  /\ token # 0 /\ seen[k].token = token
  /\ token \notin request[k].lapsed
  /\ \E n \in Horizons(k) :
       /\ Valid(request[k].listed, n)
       /\ Digest(n) = digest
       /\ ready' = CurrentConsents(recipients, n)
  /\ status' = "CONFIRMED"
  /\ token' = 0
  /\ audit' = Append(audit, [type |-> "CONFIRMED", command |-> m])
  /\ request' = [request EXCEPT ![k] = Nobody]
  /\ UNCHANGED <<version, content, signature, creator, recipients, digest, issued, lapsed,
                 worldVars, seen>>

\* start
Start(m) ==
  /\ status = "CONFIRMED" /\ Unused(m)
  /\ status' = "PROCESSING"
  /\ audit' = Append(audit, [type |-> "STARTED", command |-> m])
  /\ UNCHANGED <<version, content, signature, creator, recipients, ready, tokenVars, worldVars,
                 request, seen>>

-----------------------------------------------------------------------------
\* VALIDATION_TTL passes.
TokenLapses ==
  /\ token \notin lapsed \cup {0}
  /\ lapsed' = lapsed \cup {token}
  /\ UNCHANGED <<draftVars, token, digest, issued, worldVars, request, seen>>

\* WhatsAppConsentService.append of a direct event for the customer's phone
AppendConsent(c, granted) ==
  /\ phone[c] # Nobody /\ Len(events) < MaxConsents
  /\ events' = Append(events, [customer |-> c, phone |-> phone[c], granted |-> granted])
  /\ UNCHANGED <<draftVars, tokenVars, phone, template, changes, request, seen>>

\* A customer gets another phone, loses it or is deleted.
ChangePhone(c, p) ==
  /\ phone[c] # p /\ changes < MaxChanges
  /\ phone' = [phone EXCEPT ![c] = p]
  /\ changes' = changes + 1
  /\ UNCHANGED <<draftVars, tokenVars, events, template, request, seen>>

\* The provider changes or withdraws the template.
ChangeTemplate(t) ==
  /\ template # t /\ changes < MaxChanges
  /\ template' = t
  /\ changes' = changes + 1
  /\ UNCHANGED <<draftVars, tokenVars, events, phone, request, seen>>

Next ==
  \/ \E k \in Clients :
       \/ Open(k) \/ BeginRequest(k) \/ EndRequest(k) \/ ReplayCreate(k) \/ Validate(k)
       \/ \E c \in Contents : Create(k, c) \/ UpdateDraft(k, c)
       \/ \E m \in Commands :
            Confirm(k, m) \/ \E S \in SUBSET Customers : ReplaceRecipients(k, S, m)
  \/ \E m \in Commands : Start(m)
  \/ TokenLapses
  \/ \E c \in Customers :
       \/ \E g \in BOOLEAN : AppendConsent(c, g)
       \/ \E p \in Phones \cup {Nobody} : ChangePhone(c, p)
  \/ \E t \in Signatures \cup {Nobody} : ChangeTemplate(t)

Spec == Init /\ [][Next]_vars
-----------------------------------------------------------------------------
(* Properties                                                              *)

Readings == [version : Nat, content : Contents, recipients : SUBSET Recipients, token : Nat,
             consents : SUBSET Consents]
Requested == [listed : Signatures \cup {Nobody}, horizon : Nat, lapsed : SUBSET Nat]
Digests == [version : Nat, content : Contents, signature : Signatures,
            recipients : SUBSET Recipients, consents : SUBSET Consents]

\* Every variable has its type; in particular every recipient has a phone.
TypeOK ==
  /\ status \in Statuses /\ version \in Nat /\ content \in Contents \cup {Nobody}
  /\ signature \in Signatures \cup {Nobody} /\ creator \in Clients \cup {Nobody}
  /\ recipients \subseteq Recipients /\ ready \subseteq Consents
  /\ audit \in Seq([type : AuditTypes, command : Commands])
  /\ token \in Nat /\ digest \in Digests \cup {Nobody}
  /\ issued \in Nat /\ lapsed \subseteq Nat
  /\ phone \in [Customers -> Phones \cup {Nobody}]
  /\ events \in Seq(ConsentEvents)
  /\ template \in Signatures \cup {Nobody}
  /\ request \in [Clients -> Requested \cup {Nobody}]
  /\ seen \in [Clients -> Readings \cup {Nobody}]
  /\ changes \in 0..MaxChanges

\* The version guards against lost updates: a client whose expected version is
\* accepted has been shown the very content and recipients it edits, validates
\* or confirms.
SeenIsCurrent ==
  \A k \in Clients :
    seen[k] # Nobody /\ seen[k].version = version =>
      seen[k].content = content /\ seen[k].recipients = recipients

\* CRM-011: the token is "bound to the Draft version and immutable candidate
\* inputs": while one is on the draft, its digest is of the draft as it is.
TokenVouches ==
  token # 0 =>
    /\ status = "DRAFT"
    /\ digest.version = version /\ digest.content = content
    /\ digest.signature = signature /\ digest.recipients = recipients

Confirms == status = "DRAFT" /\ status' = "CONFIRMED"

\* CRM-011: confirmation freezes the broadcast "only when the token/input
\* digest still matches": what is frozen, down to the consent events, is what
\* the confirming user was shown as valid.
ConfirmedAsShown ==
  [][Confirms =>
       \E k \in Clients :
         /\ request[k] # Nobody /\ request'[k] = Nobody
         /\ seen[k].content = content' /\ seen[k].recipients = recipients'
         /\ seen[k].consents = ready']_vars

\* CRM-011: content and recipients are frozen by the confirmation, whatever
\* commands are still under way.
FrozenAfterConfirm ==
  [][(status \in {"CONFIRMED", "PROCESSING"}) =>
       /\ UNCHANGED <<version, content, signature, recipients, ready, token>>
       /\ status' \in {status, "PROCESSING"}]_vars

\* CRM-011: commands append "at most one matching audit event/effect per
\* command key", whoever repeats them.
OneEffectPerCommand ==
  \A i, j \in 1..Len(audit) : audit[i].command = audit[j].command => i = j
=============================================================================
