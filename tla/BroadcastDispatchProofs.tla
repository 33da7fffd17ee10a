----------------------- MODULE BroadcastDispatchProofs -----------------------
(***************************************************************************)
(* Theorems of BroadcastDispatch for every set of recipients, workers and  *)
(* users, every batch size and every bound.                                *)
(***************************************************************************)
EXTENDS BroadcastDispatch, TLAPS

Sending == {"call", "reconcile"}
Busy == {"prepare", "start", "call", "reconcile"}

\* What the locals of a running process_batch call refer to.
WorkerOK(w) ==
  /\ step[w] \in Busy \cup {"next"} => \A r \in todo[w] : attempts[r] \in Attempts
  /\ step[w] \in Busy => /\ current[w] \in todo[w]
                         /\ attempt[w] \in Attempts
                         /\ attempt[w] <= attempts[current[w]]
WorkersOK == \A w \in Workers : WorkerOK(w)

\* A worker inside the provider call, or back from it, holds the latest
\* message, which nobody else concludes except as UNKNOWN.
SenderOK(w) ==
  /\ attempt[w] = attempts[current[w]]
  /\ dispatchState[current[w]][attempt[w]] \in {"IN_PROGRESS", "UNKNOWN"}
  /\ step[w] = "call" => calls[current[w]][attempt[w]] = 0
  /\ step[w] = "reconcile" =>
       /\ answer[w] = "success" => wire[current[w]][attempt[w]] = "accepted"
       /\ answer[w] = "failure" => wire[current[w]][attempt[w]] = "rejected"
       /\ answer[w] # "none"
SendersOK == \A w \in Workers : step[w] \in Sending => SenderOK(w)

\* One message: what its dispatch state says of the provider.
MessageOK(r, i) ==
  /\ dispatchState[r][i] = "NONE" <=> attempts[r] < i
  /\ dispatchState[r][i] \in {"NONE", "PENDING"} => calls[r][i] = 0
  /\ calls[r][i] \in {0, 1}
  /\ calls[r][i] = 0 => wire[r][i] = "none" /\ events[r][i] = {}
  /\ matched[r][i] <=> dispatchState[r][i] = "ACCEPTED"
  /\ ~matched[r][i] => providerState[r][i] = "NONE"
  /\ providerState[r][i] = "FAILED" => "FAILED" \in events[r][i]
  /\ dispatchState[r][i] = "ACCEPTED" => wire[r][i] = "accepted"
  /\ dispatchState[r][i] = "DEFINITIVE_FAILED" => wire[r][i] = "rejected"
  \* a later attempt exists only after a failure
  /\ i < attempts[r] => \/ dispatchState[r][i] = "DEFINITIVE_FAILED"
                        \/ dispatchState[r][i] = "ACCEPTED" /\ "FAILED" \in events[r][i]

MessagesOK == \A r \in Recipients, i \in Attempts : MessageOK(r, i)

TypeInv == TypeOK /\ WorkersOK
IInv == TypeInv /\ MessagesOK /\ SendersOK /\ OneDispatcher /\ ReadyMeansUnsent

-----------------------------------------------------------------------------
(* Types, and the locals of running calls.                                 *)

USE DEF vars, recipientVars, messageVars, providerVars, contactVars, workerVars, boundVars,
        DispatchStates, DeliveryStates, RecipientStatuses, Conversations, Steps, Attempts

LEMMA TypeInvInit == Init => TypeInv
BY BroadcastAssumption DEF Init, TypeInv, TypeOK, WorkersOK, WorkerOK, Busy

\* The type invariant by the variables that actions change together.
RowTypes ==
  /\ status \in [Recipients -> RecipientStatuses]
  /\ claim \in [Recipients -> Workers \cup {NoOne}]
  /\ expired \subseteq Recipients
MessageTypes ==
  /\ attempts \in [Recipients -> 0..MaxAttempts]
  /\ dispatchState \in [Recipients -> [Attempts -> DispatchStates]]
  /\ providerState \in [Recipients -> [Attempts -> DeliveryStates \cup {"NONE"}]]
  /\ matched \in [Recipients -> [Attempts -> BOOLEAN]]
  /\ author \in [Recipients -> [Attempts -> Users]]
ProviderTypes ==
  /\ events \in [Recipients -> [Attempts -> SUBSET DeliveryStates]]
  /\ wire \in [Recipients -> [Attempts -> {"none", "accepted", "rejected"}]]
  /\ calls \in [Recipients -> [Attempts -> Nat]]
ContactTypes ==
  /\ optedIn \in [Recipients -> BOOLEAN]
  /\ reachable \in [Recipients -> BOOLEAN]
  /\ conversation \in [Recipients -> Conversations]
  /\ starterActive \in BOOLEAN
WorkerTypes ==
  /\ step \in [Workers -> Steps]
  /\ todo \in [Workers -> SUBSET Recipients]
  /\ current \in [Workers -> Recipients \cup {NoOne}]
  /\ attempt \in [Workers -> 0..MaxAttempts]
  /\ held \in [Workers -> [Recipients -> 0..MaxAttempts]]
  /\ template \in [Workers -> BOOLEAN]
  /\ consentSeen \in [Workers -> SUBSET Recipients]
  /\ answer \in [Workers -> {"none", "success", "failure", "unknown"}]
OtherTypes ==
  /\ broadcast \in {"PROCESSING", "COMPLETED"}
  /\ slow \in 0..MaxSlow /\ crashes \in 0..MaxCrashes /\ changes \in 0..MaxChanges

LEMMA TypeGroups ==
  TypeOK <=> /\ RowTypes /\ MessageTypes /\ ProviderTypes
             /\ ContactTypes /\ WorkerTypes /\ OtherTypes
BY DEF TypeOK, RowTypes, MessageTypes, ProviderTypes, ContactTypes, WorkerTypes, OtherTypes

LEMMA LeaveTypes ==
  ASSUME WorkerTypes, NEW w \in Workers, Leave(w) PROVE WorkerTypes'
<1>1. [r \in Recipients |-> 0] \in [Recipients -> 0..MaxAttempts]
  BY BroadcastAssumption
<1>2. held' \in [Workers -> [Recipients -> 0..MaxAttempts]]
  BY <1>1 DEF Leave, WorkerTypes
<1> QED
  BY <1>2, BroadcastAssumption DEF Leave, WorkerTypes

LEMMA GotoTypes ==
  ASSUME WorkerTypes, NEW w \in Workers, NEW next \in Steps, Goto(w, next) PROVE WorkerTypes'
BY DEF Goto, WorkerTypes

LEMMA NextRecipientTypes ==
  ASSUME WorkerTypes, NEW w \in Workers, NextRecipient(w) PROVE WorkerTypes'
BY BroadcastAssumption DEF NextRecipient, WorkerTypes

LEMMA BlockTypes ==
  ASSUME RowTypes, NEW r \in Recipients, Block(r) PROVE RowTypes'
BY DEF Block, RowTypes

LEMMA RecipientStatusType ==
  ASSUME NEW d \in DispatchStates, NEW p \in DeliveryStates \cup {"NONE"}, NEW c \in BOOLEAN
  PROVE  RecipientStatus(d, p, c) \in RecipientStatuses
BY DEF RecipientStatus

LEMMA RecomputedType ==
  ASSUME NEW d \in DispatchStates, NEW p \in DeliveryStates \cup {"NONE"}, NEW c \in BOOLEAN,
         NEW old
  PROVE  Recomputed(old, d, p, c) \in RecipientStatuses
BY RecipientStatusType DEF Recomputed

LEMMA LatestTypes ==
  ASSUME MessageTypes, NEW r \in Recipients
  PROVE  /\ LatestDispatch(r) \in DispatchStates
         /\ LatestProvider(r) \in DeliveryStates \cup {"NONE"}
BY BroadcastAssumption DEF MessageTypes, LatestDispatch, LatestProvider

LEMMA UpdateType ==
  ASSUME NEW A, NEW B, NEW C, NEW f \in [A -> [B -> C]], NEW a \in A, NEW b \in B, NEW c \in C
  PROVE  [f EXCEPT ![a][b] = c] \in [A -> [B -> C]]
OBVIOUS

LEMMA UpdateAt ==
  ASSUME NEW A, NEW B, NEW C, NEW f \in [A -> [B -> C]], NEW a \in A, NEW b \in B, NEW c
  PROVE  [f EXCEPT ![a][b] = c][a][b] = c
OBVIOUS

LEMMA UpdateOther ==
  ASSUME NEW A, NEW B, NEW C, NEW f \in [A -> [B -> C]], NEW a \in A, NEW b \in B, NEW c,
         NEW q \in A, NEW j \in B, ~(q = a /\ j = b)
  PROVE  [f EXCEPT ![a][b] = c][q][j] = f[q][j]
<1>1. CASE q = a
  BY <1>1
<1>2. CASE q # a
  BY <1>2
<1> QED BY <1>1, <1>2

LEMMA ProviderTypesAt ==
  ASSUME ProviderTypes, NEW r \in Recipients, NEW i \in Attempts
  PROVE  events[r][i] \in SUBSET DeliveryStates /\ calls[r][i] \in Nat
<1>1. /\ events[r] \in [Attempts -> SUBSET DeliveryStates]
      /\ calls[r] \in [Attempts -> Nat]
  BY DEF ProviderTypes
<1> QED BY <1>1

LEMMA AnswerStateType == \A told : AnswerState(told) \in DispatchStates
BY DEF AnswerState

LEMMA AttachedType ==
  ASSUME NEW recorded \in SUBSET DeliveryStates
  PROVE  Attached(recorded) \subseteq DeliveryStates \cup {"NONE"}
BY DEF Attached

LEMMA RecoverStaleClaimsTypes ==
  ASSUME TypeInv, NEW w \in Workers, RecoverStaleClaims(w)
  PROVE  TypeOK'
<1> USE TypeGroups DEF TypeInv
<1>1. RowTypes'
  <2>1. \A r \in Recipients : RecoveredStatus(r) \in RecipientStatuses
    BY LatestTypes, RecipientStatusType, \A d \in DispatchStates : RecoveredDispatch(d) \in DispatchStates
       DEF RecoveredStatus, RecoveredDispatch
  <2>2. PICK R \in SUBSET Stale :
          /\ status' = [r \in Recipients |-> IF r \in R THEN RecoveredStatus(r) ELSE status[r]]
          /\ claim' = [r \in Recipients |-> IF r \in R /\ Cleared(r) THEN NoOne ELSE claim[r]]
          /\ expired' = expired \ {r \in R : Cleared(r)}
    BY DEF RecoverStaleClaims
  <2> QED
    BY <2>1, <2>2 DEF RowTypes
<1>2. MessageTypes'
  <2>1. \A d \in DispatchStates : RecoveredDispatch(d) \in DispatchStates
    BY DEF RecoveredDispatch
  <2>2. PICK R \in SUBSET Stale :
          dispatchState' =
            [r \in Recipients |->
              [i \in Attempts |->
                IF r \in R /\ i = attempts[r]
                THEN RecoveredDispatch(dispatchState[r][i]) ELSE dispatchState[r][i]]]
    BY DEF RecoverStaleClaims
  <2>3. \A r \in Recipients, i \in Attempts : dispatchState[r][i] \in DispatchStates
    BY DEF MessageTypes
  <2>4. dispatchState' \in [Recipients -> [Attempts -> DispatchStates]]
    BY Zenon, <2>1, <2>2, <2>3
  <2> QED BY <2>4 DEF RecoverStaleClaims, MessageTypes
<1>3. ProviderTypes'
  BY DEF RecoverStaleClaims, ProviderTypes
<1>4. ContactTypes'
  BY DEF RecoverStaleClaims, ContactTypes
<1>5. WorkerTypes'
  BY BroadcastAssumption DEF RecoverStaleClaims, WorkerTypes
<1>6. OtherTypes'
  BY DEF RecoverStaleClaims, OtherTypes
<1> QED
  BY <1>1, <1>2, <1>3, <1>4, <1>5, <1>6
     DEF TypeOK, RowTypes, MessageTypes, ProviderTypes, ContactTypes, WorkerTypes, OtherTypes

LEMMA ReadCandidatesTypes ==
  ASSUME TypeInv, NEW w \in Workers, ReadCandidates(w)
  PROVE  TypeOK'
<1> USE TypeGroups DEF TypeInv
<1>1. RowTypes'
  BY DEF ReadCandidates, RowTypes
<1>2. MessageTypes'
  BY DEF ReadCandidates, MessageTypes
<1>3. ProviderTypes'
  BY DEF ReadCandidates, ProviderTypes
<1>4. ContactTypes'
  BY DEF ReadCandidates, ContactTypes
<1>5. WorkerTypes'
  BY DEF ReadCandidates, WorkerTypes, First
<1>6. OtherTypes'
  BY DEF ReadCandidates, OtherTypes
<1> QED
  BY <1>1, <1>2, <1>3, <1>4, <1>5, <1>6
     DEF TypeOK, RowTypes, MessageTypes, ProviderTypes, ContactTypes, WorkerTypes, OtherTypes

LEMMA ClaimRecipientsTypes ==
  ASSUME TypeInv, NEW w \in Workers, NEW S \in SUBSET Recipients, ClaimRecipients(w, S)
  PROVE  TypeOK'
<1> USE TypeGroups DEF TypeInv
<1>1. RowTypes'
  BY DEF ClaimRecipients, RowTypes
<1>2. MessageTypes'
  BY BroadcastAssumption DEF ClaimRecipients, MessageTypes
<1>3. ProviderTypes'
  BY DEF ClaimRecipients, ProviderTypes
<1>4. ContactTypes'
  BY DEF ClaimRecipients, ContactTypes
<1>5. WorkerTypes'
  <2> DEFINE owned == {r \in S : Unsent(r)}
             loaded == [r \in Recipients |-> IF r \in owned THEN attempts[r] ELSE 0]
  <2>1. loaded \in [Recipients -> 0..MaxAttempts]
    BY BroadcastAssumption DEF MessageTypes
  <2>2. todo' = [todo EXCEPT ![w] = owned] /\ held' = [held EXCEPT ![w] = loaded]
    BY DEF ClaimRecipients
  <2>3. held' \in [Workers -> [Recipients -> 0..MaxAttempts]]
    BY <2>1, <2>2 DEF WorkerTypes
  <2> QED BY <2>2, <2>3 DEF ClaimRecipients, WorkerTypes
<1>6. OtherTypes'
  BY DEF ClaimRecipients, OtherTypes
<1> QED
  BY <1>1, <1>2, <1>3, <1>4, <1>5, <1>6
     DEF TypeOK, RowTypes, MessageTypes, ProviderTypes, ContactTypes, WorkerTypes, OtherTypes

LEMMA ClaimRaisesTypes ==
  ASSUME TypeInv, NEW w \in Workers, ClaimRaises(w) \/ ClaimReplays(w)
  PROVE  TypeOK'
<1> USE TypeGroups DEF TypeInv
<1>1. RowTypes'
  BY DEF ClaimRaises, ClaimReplays, Abort, RowTypes
<1>2. MessageTypes'
  BY DEF ClaimRaises, ClaimReplays, Abort, MessageTypes
<1>3. ProviderTypes'
  BY DEF ClaimRaises, ClaimReplays, Abort, ProviderTypes
<1>4. ContactTypes'
  BY DEF ClaimRaises, ClaimReplays, Abort, ContactTypes
<1>5. WorkerTypes'
  BY LeaveTypes DEF ClaimRaises, ClaimReplays, Abort
<1>6. OtherTypes'
  BY DEF ClaimRaises, ClaimReplays, Abort, OtherTypes
<1> QED
  BY <1>1, <1>2, <1>3, <1>4, <1>5, <1>6
     DEF TypeOK, RowTypes, MessageTypes, ProviderTypes, ContactTypes, WorkerTypes, OtherTypes

LEMMA PrepareBlocksTypes ==
  ASSUME TypeInv, NEW w \in Workers, NEW r \in Recipients, PrepareBlocks(w, r)
  PROVE  TypeOK'
<1> USE TypeGroups DEF TypeInv
<1>1. RowTypes'
  BY BlockTypes DEF PrepareBlocks
<1>2. MessageTypes'
  BY DEF PrepareBlocks, MessageTypes
<1>3. ProviderTypes'
  BY DEF PrepareBlocks, ProviderTypes
<1>4. ContactTypes'
  BY DEF PrepareBlocks, ContactTypes
<1>5. WorkerTypes'
  BY DEF PrepareBlocks, WorkerTypes
<1>6. OtherTypes'
  BY DEF PrepareBlocks, OtherTypes
<1> QED
  BY <1>1, <1>2, <1>3, <1>4, <1>5, <1>6
     DEF TypeOK, RowTypes, MessageTypes, ProviderTypes, ContactTypes, WorkerTypes, OtherTypes

LEMMA PreparePlansTypes ==
  ASSUME TypeInv, NEW w \in Workers, NEW r \in Recipients, PreparePlans(w, r)
  PROVE  TypeOK'
<1> USE TypeGroups DEF TypeInv
<1>1. RowTypes'
  BY DEF PreparePlans, RowTypes
<1>2. MessageTypes'
  BY DEF PreparePlans, MessageTypes
<1>3. ProviderTypes'
  BY DEF PreparePlans, ProviderTypes
<1>4. ContactTypes'
  BY DEF PreparePlans, ContactTypes
<1>5. WorkerTypes'
  BY DEF PreparePlans, WorkerTypes, MessageTypes
<1>6. OtherTypes'
  BY DEF PreparePlans, OtherTypes
<1> QED
  BY <1>1, <1>2, <1>3, <1>4, <1>5, <1>6
     DEF TypeOK, RowTypes, MessageTypes, ProviderTypes, ContactTypes, WorkerTypes, OtherTypes

LEMMA PrepareRaisesTypes ==
  ASSUME TypeInv, NEW w \in Workers, PrepareRaises(w)
  PROVE  TypeOK'
<1> USE TypeGroups DEF TypeInv
<1>1. RowTypes'
  BY DEF PrepareRaises, Abort, RowTypes
<1>2. MessageTypes'
  BY DEF PrepareRaises, Abort, MessageTypes
<1>3. ProviderTypes'
  BY DEF PrepareRaises, Abort, ProviderTypes
<1>4. ContactTypes'
  BY DEF PrepareRaises, Abort, ContactTypes
<1>5. WorkerTypes'
  BY LeaveTypes DEF PrepareRaises, Abort
<1>6. OtherTypes'
  BY DEF PrepareRaises, Abort, OtherTypes
<1> QED
  BY <1>1, <1>2, <1>3, <1>4, <1>5, <1>6
     DEF TypeOK, RowTypes, MessageTypes, ProviderTypes, ContactTypes, WorkerTypes, OtherTypes

LEMMA PrepareSendTypes ==
  ASSUME TypeInv, NEW w \in Workers, PrepareSend(w)
  PROVE  TypeOK'
<1> USE TypeGroups DEF TypeInv
<1>1. RowTypes'
  BY DEF PrepareSend, RowTypes
<1>2. MessageTypes'
  BY DEF PrepareSend, MessageTypes
<1>3. ProviderTypes'
  BY DEF PrepareSend, ProviderTypes
<1>4. ContactTypes'
  BY DEF PrepareSend, ContactTypes
<1>5. WorkerTypes'
  BY GotoTypes, NextRecipientTypes DEF PrepareSend
<1>6. OtherTypes'
  BY DEF PrepareSend, OtherTypes
<1> QED
  BY <1>1, <1>2, <1>3, <1>4, <1>5, <1>6
     DEF TypeOK, RowTypes, MessageTypes, ProviderTypes, ContactTypes, WorkerTypes, OtherTypes

LEMMA StartBlocksTypes ==
  ASSUME TypeInv, NEW w \in Workers, StartBlocks(w)
  PROVE  TypeOK'
<1> USE TypeGroups DEF TypeInv
<1>1. RowTypes'
  <2>1. current[w] \in Recipients /\ attempt[w] \in Attempts
    BY DEF StartBlocks, WorkersOK, WorkerOK, WorkerTypes, Busy
  <2> QED BY <2>1, BlockTypes DEF StartBlocks
<1>2. MessageTypes'
  BY DEF StartBlocks, MessageTypes
<1>3. ProviderTypes'
  BY DEF StartBlocks, ProviderTypes
<1>4. ContactTypes'
  BY DEF StartBlocks, ContactTypes
<1>5. WorkerTypes'
  BY NextRecipientTypes DEF StartBlocks
<1>6. OtherTypes'
  BY DEF StartBlocks, OtherTypes
<1> QED
  BY <1>1, <1>2, <1>3, <1>4, <1>5, <1>6
     DEF TypeOK, RowTypes, MessageTypes, ProviderTypes, ContactTypes, WorkerTypes, OtherTypes

LEMMA StartDispatchTypes ==
  ASSUME TypeInv, NEW w \in Workers, StartDispatch(w)
  PROVE  TypeOK'
<1> USE TypeGroups DEF TypeInv
<1>1. RowTypes'
  <2>1. current[w] \in Recipients /\ attempt[w] \in Attempts
    BY DEF StartDispatch, WorkersOK, WorkerOK, WorkerTypes, Busy
  <2>2. RecipientStatus("IN_PROGRESS", providerState[current[w]][attempt[w]],
                        claim[current[w]] # NoOne) \in RecipientStatuses
    BY <2>1, RecipientStatusType DEF MessageTypes
  <2> QED BY <2>1, <2>2 DEF StartDispatch, RowTypes
<1>2. MessageTypes'
  <2>1. current[w] \in Recipients /\ attempt[w] \in Attempts
    BY DEF StartDispatch, WorkersOK, WorkerOK, WorkerTypes, Busy
  <2>2. \/ dispatchState' = [dispatchState EXCEPT ![current[w]][attempt[w]] = "IN_PROGRESS"]
        \/ dispatchState' = dispatchState
    BY DEF StartDispatch
  <2>3. dispatchState' \in [Recipients -> [Attempts -> DispatchStates]]
    <3>1. [dispatchState EXCEPT ![current[w]][attempt[w]] = "IN_PROGRESS"]
            \in [Recipients -> [Attempts -> DispatchStates]]
      BY <2>1, UpdateType DEF MessageTypes
    <3> QED BY <2>2, <3>1 DEF MessageTypes
  <2> QED BY <2>3 DEF StartDispatch, MessageTypes
<1>3. ProviderTypes'
  BY DEF StartDispatch, ProviderTypes
<1>4. ContactTypes'
  BY DEF StartDispatch, ContactTypes
<1>5. WorkerTypes'
  BY GotoTypes, NextRecipientTypes DEF StartDispatch
<1>6. OtherTypes'
  BY DEF StartDispatch, OtherTypes
<1> QED
  BY <1>1, <1>2, <1>3, <1>4, <1>5, <1>6
     DEF TypeOK, RowTypes, MessageTypes, ProviderTypes, ContactTypes, WorkerTypes, OtherTypes

LEMMA CallProviderTypes ==
  ASSUME TypeInv, NEW w \in Workers, CallProvider(w)
  PROVE  TypeOK'
<1> USE TypeGroups DEF TypeInv
<1>1. RowTypes'
  BY DEF CallProvider, RowTypes
<1>2. MessageTypes'
  BY DEF CallProvider, MessageTypes
<1>3. ProviderTypes'
  <2>1. current[w] \in Recipients /\ attempt[w] \in Attempts
    BY DEF CallProvider, WorkersOK, WorkerOK, WorkerTypes, Busy
  <2>2. calls' \in [Recipients -> [Attempts -> Nat]]
    <3>1. calls' = [calls EXCEPT ![current[w]][attempt[w]] = calls[current[w]][attempt[w]] + 1]
      BY DEF CallProvider
    <3>2. calls[current[w]][attempt[w]] + 1 \in Nat
      BY <2>1, ProviderTypesAt
    <3> QED BY <2>1, <3>1, <3>2, UpdateType DEF ProviderTypes
  <2>3. wire' \in [Recipients -> [Attempts -> {"none", "accepted", "rejected"}]]
    <3>1. PICK truth \in {"accepted", "rejected"} :
            wire' = [wire EXCEPT ![current[w]][attempt[w]] = truth]
      BY DEF CallProvider
    <3> QED BY <2>1, <3>1, UpdateType DEF ProviderTypes
  <2> QED BY <2>2, <2>3 DEF CallProvider, ProviderTypes
<1>4. ContactTypes'
  BY DEF CallProvider, ContactTypes
<1>5. WorkerTypes'
  BY DEF CallProvider, WorkerTypes
<1>6. OtherTypes'
  BY DEF CallProvider, OtherTypes
<1> QED
  BY <1>1, <1>2, <1>3, <1>4, <1>5, <1>6
     DEF TypeOK, RowTypes, MessageTypes, ProviderTypes, ContactTypes, WorkerTypes, OtherTypes

LEMMA ReconcileTypes ==
  ASSUME TypeInv, NEW w \in Workers, Reconcile(w)
  PROVE  TypeOK'
<1> USE TypeGroups DEF TypeInv
<1>1. RowTypes'
  <2>1. current[w] \in Recipients /\ attempt[w] \in Attempts
    BY DEF Reconcile, WorkersOK, WorkerOK, WorkerTypes, Busy
  <2> DEFINE r == current[w]
             i == attempt[w]
             reached == AnswerState(answer[w])
  <2>2. reached \in DispatchStates /\ Attached(events[r][i]) \subseteq DeliveryStates \cup {"NONE"}
    <3>1. events[r][i] \in SUBSET DeliveryStates
      BY <2>1, ProviderTypesAt
    <3>2. reached \in DispatchStates
      BY AnswerStateType
    <3> QED BY <3>1, <3>2, AttachedType
  <2>3. \A d \in DispatchStates, s \in DeliveryStates \cup {"NONE"} :
          Recomputed(status[r], d, LatestAfter(r, i, s), claim[r] # NoOne) \in RecipientStatuses
    BY <2>1, LatestTypes, RecomputedType DEF LatestAfter
  <2>4. LatestDispatch(r) \in DispatchStates
    BY <2>1, LatestTypes
  <2>5. CASE dispatchState[r][i] = "IN_PROGRESS"
    <3>1. PICK s \in (IF reached = "ACCEPTED" THEN Attached(events[r][i]) ELSE {"NONE"}) :
            status' = [status EXCEPT ![r] =
              Recomputed(@, IF i = attempts[r] THEN reached ELSE LatestDispatch(r),
                         LatestAfter(r, i, s), claim[r] # NoOne)]
      BY <2>5 DEF Reconcile
    <3>2. s \in DeliveryStates \cup {"NONE"}
      BY <2>2
    <3>3. (IF i = attempts[r] THEN reached ELSE LatestDispatch(r)) \in DispatchStates
      BY <2>2, <2>4
    <3>4. Recomputed(status[r], IF i = attempts[r] THEN reached ELSE LatestDispatch(r),
                     LatestAfter(r, i, s), claim[r] # NoOne) \in RecipientStatuses
      BY <2>3, <3>2, <3>3
    <3>5. claim' = claim /\ expired' = expired
      BY DEF Reconcile
    <3> QED BY <2>1, <3>1, <3>4, <3>5 DEF RowTypes
  <2>6. CASE dispatchState[r][i] # "IN_PROGRESS"
    BY <2>6 DEF Reconcile, RowTypes
  <2> QED BY <2>5, <2>6
<1>2. MessageTypes'
  <2>1. current[w] \in Recipients /\ attempt[w] \in Attempts
    BY DEF Reconcile, WorkersOK, WorkerOK, WorkerTypes, Busy
  <2> DEFINE r == current[w]
             i == attempt[w]
             reached == AnswerState(answer[w])
  <2>2. reached \in DispatchStates /\ Attached(events[r][i]) \subseteq DeliveryStates \cup {"NONE"}
    <3>1. events[r][i] \in SUBSET DeliveryStates
      BY <2>1, ProviderTypesAt
    <3>2. reached \in DispatchStates
      BY AnswerStateType
    <3> QED BY <3>1, <3>2, AttachedType
  <2>3. CASE dispatchState[r][i] = "IN_PROGRESS"
    <3>1. PICK s \in (IF reached = "ACCEPTED" THEN Attached(events[r][i]) ELSE {"NONE"}) :
            providerState' = [providerState EXCEPT ![r][i] = s]
      BY <2>3 DEF Reconcile
    <3>2. s \in DeliveryStates \cup {"NONE"}
      BY <2>2
    <3>3. providerState' \in [Recipients -> [Attempts -> DeliveryStates \cup {"NONE"}]]
      BY <2>1, <3>1, <3>2, UpdateType DEF MessageTypes
    <3>4. dispatchState' = [dispatchState EXCEPT ![r][i] = reached]
      BY <2>3 DEF Reconcile
    <3>7. dispatchState' \in [Recipients -> [Attempts -> DispatchStates]]
      BY <2>1, <2>2, <3>4, UpdateType DEF MessageTypes
    <3>5. /\ (reached = "ACCEPTED") \in BOOLEAN
          /\ matched' = [matched EXCEPT ![r][i] = (reached = "ACCEPTED")]
      BY <2>3 DEF Reconcile
    <3>6. matched' \in [Recipients -> [Attempts -> BOOLEAN]]
      BY <2>1, <3>5, UpdateType DEF MessageTypes
    <3> QED BY <3>3, <3>6, <3>7 DEF Reconcile, MessageTypes
  <2>4. CASE dispatchState[r][i] # "IN_PROGRESS"
    BY <2>4 DEF Reconcile, MessageTypes
  <2> QED BY <2>3, <2>4
<1>3. ProviderTypes'
  BY DEF Reconcile, ProviderTypes
<1>4. ContactTypes'
  BY DEF Reconcile, ContactTypes
<1>5. WorkerTypes'
  BY NextRecipientTypes DEF Reconcile
<1>6. OtherTypes'
  BY DEF Reconcile, OtherTypes
<1> QED
  BY <1>1, <1>2, <1>3, <1>4, <1>5, <1>6
     DEF TypeOK, RowTypes, MessageTypes, ProviderTypes, ContactTypes, WorkerTypes, OtherTypes

LEMMA FinishBatchTypes ==
  ASSUME TypeInv, NEW w \in Workers, FinishBatch(w)
  PROVE  TypeOK'
<1> USE TypeGroups DEF TypeInv
<1>1. RowTypes'
  BY DEF FinishBatch, RowTypes
<1>2. MessageTypes'
  BY DEF FinishBatch, MessageTypes
<1>3. ProviderTypes'
  BY DEF FinishBatch, ProviderTypes
<1>4. ContactTypes'
  BY DEF FinishBatch, ContactTypes
<1>5. WorkerTypes'
  BY LeaveTypes DEF FinishBatch
<1>6. OtherTypes'
  BY DEF FinishBatch, OtherTypes
<1> QED
  BY <1>1, <1>2, <1>3, <1>4, <1>5, <1>6
     DEF TypeOK, RowTypes, MessageTypes, ProviderTypes, ContactTypes, WorkerTypes, OtherTypes

LEMMA CrashTypes ==
  ASSUME TypeInv, NEW w \in Workers, Crash(w)
  PROVE  TypeOK'
<1> USE TypeGroups DEF TypeInv
<1>1. RowTypes'
  BY DEF Crash, RowTypes
<1>2. MessageTypes'
  BY DEF Crash, MessageTypes
<1>3. ProviderTypes'
  BY DEF Crash, ProviderTypes
<1>4. ContactTypes'
  BY DEF Crash, ContactTypes
<1>5. WorkerTypes'
  BY LeaveTypes DEF Crash
<1>6. OtherTypes'
  BY BroadcastAssumption DEF Crash, OtherTypes
<1> QED
  BY <1>1, <1>2, <1>3, <1>4, <1>5, <1>6
     DEF TypeOK, RowTypes, MessageTypes, ProviderTypes, ContactTypes, WorkerTypes, OtherTypes

LEMMA ClaimExpiresTypes ==
  ASSUME TypeInv, NEW r \in Recipients, ClaimExpires(r)
  PROVE  TypeOK'
<1> USE TypeGroups DEF TypeInv
<1>1. RowTypes'
  BY DEF ClaimExpires, RowTypes
<1>2. MessageTypes'
  BY DEF ClaimExpires, MessageTypes
<1>3. ProviderTypes'
  BY DEF ClaimExpires, ProviderTypes
<1>4. ContactTypes'
  BY DEF ClaimExpires, ContactTypes
<1>5. WorkerTypes'
  BY DEF ClaimExpires, WorkerTypes
<1>6. OtherTypes'
  BY BroadcastAssumption DEF ClaimExpires, OtherTypes
<1> QED
  BY <1>1, <1>2, <1>3, <1>4, <1>5, <1>6
     DEF TypeOK, RowTypes, MessageTypes, ProviderTypes, ContactTypes, WorkerTypes, OtherTypes

LEMMA RetryFailedTypes ==
  ASSUME TypeInv, NEW u \in Users, NEW S \in SUBSET Recipients, RetryFailed(u, S)
  PROVE  TypeOK'
<1> USE TypeGroups DEF TypeInv
<1>1. RowTypes'
  <2>1. \A r \in Recipients : Recomputed(status[r], "PENDING", "NONE", FALSE) \in RecipientStatuses
    BY RecomputedType
  <2> QED BY <2>1 DEF RetryFailed, RowTypes
<1>2. MessageTypes'
  BY BroadcastAssumption DEF RetryFailed, MessageTypes, Retryable
<1>3. ProviderTypes'
  BY DEF RetryFailed, ProviderTypes
<1>4. ContactTypes'
  BY DEF RetryFailed, ContactTypes
<1>5. WorkerTypes'
  BY DEF RetryFailed, WorkerTypes
<1>6. OtherTypes'
  BY DEF RetryFailed, OtherTypes
<1> QED
  BY <1>1, <1>2, <1>3, <1>4, <1>5, <1>6
     DEF TypeOK, RowTypes, MessageTypes, ProviderTypes, ContactTypes, WorkerTypes, OtherTypes

LEMMA ProviderReportsTypes ==
  ASSUME TypeInv, NEW r \in Recipients, NEW i \in Attempts, NEW s \in Reports,
         NEW newer \in BOOLEAN, ProviderReports(r, i, s, newer)
  PROVE  TypeOK'
<1> USE TypeGroups DEF TypeInv
<1>1. RowTypes'
  <2> DEFINE p == IF MayReplace(providerState[r][i], s, newer) THEN s ELSE providerState[r][i]
  <2>1. p \in DeliveryStates \cup {"NONE"}
    BY BroadcastAssumption DEF MessageTypes
  <2>2. Recomputed(status[r], LatestDispatch(r), LatestAfter(r, i, p), claim[r] # NoOne)
          \in RecipientStatuses
    BY <2>1, LatestTypes, RecomputedType DEF LatestAfter
  <2> QED BY <2>2 DEF ProviderReports, RowTypes
<1>2. MessageTypes'
  <2> DEFINE p == IF MayReplace(providerState[r][i], s, newer) THEN s ELSE providerState[r][i]
  <2>1. p \in DeliveryStates \cup {"NONE"}
    BY BroadcastAssumption DEF MessageTypes
  <2>2. CASE matched[r][i]
    <3>1. providerState' = [providerState EXCEPT ![r][i] = p]
      BY <2>2 DEF ProviderReports
    <3>2. providerState' \in [Recipients -> [Attempts -> DeliveryStates \cup {"NONE"}]]
      BY <2>1, <3>1, UpdateType DEF MessageTypes
    <3> QED BY <3>2 DEF ProviderReports, MessageTypes
  <2>3. CASE ~matched[r][i]
    BY <2>3 DEF ProviderReports, MessageTypes
  <2> QED BY <2>2, <2>3
<1>3. ProviderTypes'
  BY BroadcastAssumption DEF ProviderReports, ProviderTypes
<1>4. ContactTypes'
  BY DEF ProviderReports, ContactTypes
<1>5. WorkerTypes'
  BY DEF ProviderReports, WorkerTypes
<1>6. OtherTypes'
  BY DEF ProviderReports, OtherTypes
<1> QED
  BY <1>1, <1>2, <1>3, <1>4, <1>5, <1>6
     DEF TypeOK, RowTypes, MessageTypes, ProviderTypes, ContactTypes, WorkerTypes, OtherTypes

LEMMA ContactChangesTypes ==
  ASSUME TypeInv, ContactChanges
  PROVE  TypeOK'
<1> USE TypeGroups DEF TypeInv
<1>1. RowTypes'
  BY DEF ContactChanges, RowTypes
<1>2. MessageTypes'
  BY DEF ContactChanges, MessageTypes
<1>3. ProviderTypes'
  BY DEF ContactChanges, ProviderTypes
<1>4. ContactTypes'
  BY BroadcastAssumption DEF ContactChanges, ContactTypes
<1>5. WorkerTypes'
  BY DEF ContactChanges, WorkerTypes
<1>6. OtherTypes'
  BY BroadcastAssumption DEF ContactChanges, OtherTypes
<1> QED
  BY <1>1, <1>2, <1>3, <1>4, <1>5, <1>6
     DEF TypeOK, RowTypes, MessageTypes, ProviderTypes, ContactTypes, WorkerTypes, OtherTypes

\* Every step keeps the types.
LEMMA TypeOKStep ==
  ASSUME TypeInv, [Next]_vars PROVE TypeOK'
<1>1. ASSUME NEW w \in Workers, RecoverStaleClaims(w)
      PROVE  TypeOK'
  BY <1>1, RecoverStaleClaimsTypes
<1>2. ASSUME NEW w \in Workers, ReadCandidates(w)
      PROVE  TypeOK'
  BY <1>2, ReadCandidatesTypes
<1>3. ASSUME NEW w \in Workers, NEW S \in SUBSET Recipients, ClaimRecipients(w, S)
      PROVE  TypeOK'
  BY <1>3, ClaimRecipientsTypes
<1>4. ASSUME NEW w \in Workers, ClaimRaises(w) \/ ClaimReplays(w)
      PROVE  TypeOK'
  BY <1>4, ClaimRaisesTypes
<1>5. ASSUME NEW w \in Workers, NEW r \in Recipients, PrepareBlocks(w, r)
      PROVE  TypeOK'
  BY <1>5, PrepareBlocksTypes
<1>6. ASSUME NEW w \in Workers, NEW r \in Recipients, PreparePlans(w, r)
      PROVE  TypeOK'
  BY <1>6, PreparePlansTypes
<1>7. ASSUME NEW w \in Workers, PrepareRaises(w)
      PROVE  TypeOK'
  BY <1>7, PrepareRaisesTypes
<1>8. ASSUME NEW w \in Workers, PrepareSend(w)
      PROVE  TypeOK'
  BY <1>8, PrepareSendTypes
<1>9. ASSUME NEW w \in Workers, StartBlocks(w)
      PROVE  TypeOK'
  BY <1>9, StartBlocksTypes
<1>10. ASSUME NEW w \in Workers, StartDispatch(w)
      PROVE  TypeOK'
  BY <1>10, StartDispatchTypes
<1>11. ASSUME NEW w \in Workers, CallProvider(w)
      PROVE  TypeOK'
  BY <1>11, CallProviderTypes
<1>12. ASSUME NEW w \in Workers, Reconcile(w)
      PROVE  TypeOK'
  BY <1>12, ReconcileTypes
<1>13. ASSUME NEW w \in Workers, FinishBatch(w)
      PROVE  TypeOK'
  BY <1>13, FinishBatchTypes
<1>14. ASSUME NEW w \in Workers, Crash(w)
      PROVE  TypeOK'
  BY <1>14, CrashTypes
<1>15. ASSUME NEW r \in Recipients, ClaimExpires(r)
      PROVE  TypeOK'
  BY <1>15, ClaimExpiresTypes
<1>16. ASSUME NEW u \in Users, NEW S \in SUBSET Recipients, RetryFailed(u, S)
      PROVE  TypeOK'
  BY <1>16, RetryFailedTypes
<1>17. ASSUME NEW r \in Recipients, NEW i \in Attempts, NEW s \in Reports,
                NEW newer \in BOOLEAN, ProviderReports(r, i, s, newer)
      PROVE  TypeOK'
  BY <1>17, ProviderReportsTypes
<1>18. ASSUME ContactChanges PROVE TypeOK'
  BY <1>18, ContactChangesTypes
<1>19. CASE UNCHANGED vars
  BY <1>19 DEF TypeInv, TypeOK
<1> QED
  BY <1>1, <1>2, <1>3, <1>4, <1>5, <1>6, <1>7, <1>8, <1>9, <1>10, <1>11, <1>12, <1>13,
     <1>14, <1>15, <1>16, <1>17, <1>18, <1>19
     DEF Next, ProcessStep

\* No step takes back an attempt.
LEMMA AttemptsGrow ==
  ASSUME TypeOK, [Next]_vars
  PROVE  \A q \in Recipients : attempts[q] <= attempts'[q]
<1> USE BroadcastAssumption DEF TypeOK
<1> DEFINE Grow == \A q \in Recipients : attempts[q] <= attempts'[q]
<1>1. ASSUME NEW w \in Workers, RecoverStaleClaims(w)
      PROVE  Grow
  BY <1>1 DEF RecoverStaleClaims
<1>2. ASSUME NEW w \in Workers, ReadCandidates(w)
      PROVE  Grow
  BY <1>2 DEF ReadCandidates
<1>3. ASSUME NEW w \in Workers, NEW S \in SUBSET Recipients, ClaimRecipients(w, S)
      PROVE  Grow
  BY <1>3 DEF ClaimRecipients
<1>4. ASSUME NEW w \in Workers, ClaimRaises(w) \/ ClaimReplays(w)
      PROVE  Grow
  BY <1>4 DEF ClaimRaises, ClaimReplays, Abort
<1>5. ASSUME NEW w \in Workers, NEW r \in Recipients, PrepareBlocks(w, r)
      PROVE  Grow
  BY <1>5 DEF PrepareBlocks
<1>6. ASSUME NEW w \in Workers, NEW r \in Recipients, PreparePlans(w, r)
      PROVE  Grow
  BY <1>6 DEF PreparePlans
<1>7. ASSUME NEW w \in Workers, PrepareRaises(w)
      PROVE  Grow
  BY <1>7 DEF PrepareRaises, Abort
<1>8. ASSUME NEW w \in Workers, PrepareSend(w)
      PROVE  Grow
  BY <1>8 DEF PrepareSend
<1>9. ASSUME NEW w \in Workers, StartBlocks(w)
      PROVE  Grow
  BY <1>9 DEF StartBlocks
<1>10. ASSUME NEW w \in Workers, StartDispatch(w)
      PROVE  Grow
  BY <1>10 DEF StartDispatch
<1>11. ASSUME NEW w \in Workers, CallProvider(w)
      PROVE  Grow
  BY <1>11 DEF CallProvider
<1>12. ASSUME NEW w \in Workers, Reconcile(w)
      PROVE  Grow
  BY <1>12 DEF Reconcile
<1>13. ASSUME NEW w \in Workers, FinishBatch(w)
      PROVE  Grow
  BY <1>13 DEF FinishBatch
<1>14. ASSUME NEW w \in Workers, Crash(w)
      PROVE  Grow
  BY <1>14 DEF Crash
<1>15. ASSUME NEW r \in Recipients, ClaimExpires(r)
      PROVE  Grow
  BY <1>15 DEF ClaimExpires
<1>16. ASSUME NEW u \in Users, NEW S \in SUBSET Recipients, RetryFailed(u, S)
      PROVE  Grow
  BY <1>16 DEF RetryFailed
<1>17. ASSUME NEW r \in Recipients, NEW i \in Attempts, NEW s \in Reports,
                NEW newer \in BOOLEAN, ProviderReports(r, i, s, newer)
      PROVE  Grow
  BY <1>17 DEF ProviderReports
<1>18. ASSUME ContactChanges PROVE Grow
  BY <1>18 DEF ContactChanges
<1>19. CASE UNCHANGED vars
  BY <1>19
<1> QED
  BY <1>1, <1>2, <1>3, <1>4, <1>5, <1>6, <1>7, <1>8, <1>9, <1>10, <1>11, <1>12, <1>13,
     <1>14, <1>15, <1>16, <1>17, <1>18, <1>19
     DEF Next, ProcessStep

\* A call does not touch the locals of another.
LocalsKept(v) ==
  /\ step'[v] = step[v] /\ todo'[v] = todo[v] /\ current'[v] = current[v]
  /\ attempt'[v] = attempt[v] /\ answer'[v] = answer[v]

LEMMA OtherLocals ==
  ASSUME TypeOK, NEW w \in Workers, ProcessStep(w) \/ Crash(w), NEW v \in Workers \ {w}
  PROVE  LocalsKept(v)
<1> USE DEF LocalsKept, Leave, NextRecipient, Goto
<1>1. ASSUME RecoverStaleClaims(w) PROVE LocalsKept(v)
  BY <1>1 DEF TypeOK, RecoverStaleClaims
<1>2. ASSUME ReadCandidates(w) PROVE LocalsKept(v)
  BY <1>2 DEF TypeOK, ReadCandidates
<1>3. ASSUME NEW S \in SUBSET Recipients, ClaimRecipients(w, S) PROVE LocalsKept(v)
  BY <1>3 DEF TypeOK, ClaimRecipients
<1>4. ASSUME ClaimRaises(w) \/ ClaimReplays(w) PROVE LocalsKept(v)
  BY <1>4 DEF TypeOK, ClaimRaises, ClaimReplays, Abort
<1>5. ASSUME NEW r \in Recipients, PrepareBlocks(w, r) PROVE LocalsKept(v)
  BY <1>5 DEF TypeOK, PrepareBlocks
<1>6. ASSUME NEW r \in Recipients, PreparePlans(w, r) PROVE LocalsKept(v)
  BY <1>6 DEF TypeOK, PreparePlans
<1>7. ASSUME PrepareRaises(w) PROVE LocalsKept(v)
  BY <1>7 DEF TypeOK, PrepareRaises, Abort
<1>8. ASSUME PrepareSend(w) PROVE LocalsKept(v)
  BY <1>8 DEF TypeOK, PrepareSend
<1>9. ASSUME StartBlocks(w) PROVE LocalsKept(v)
  BY <1>9 DEF TypeOK, StartBlocks
<1>10. ASSUME StartDispatch(w) PROVE LocalsKept(v)
  BY <1>10 DEF TypeOK, StartDispatch
<1>11. ASSUME CallProvider(w) PROVE LocalsKept(v)
  BY <1>11 DEF TypeOK, CallProvider
<1>12. ASSUME Reconcile(w) PROVE LocalsKept(v)
  BY <1>12 DEF TypeOK, Reconcile
<1>13. ASSUME FinishBatch(w) PROVE LocalsKept(v)
  BY <1>13 DEF TypeOK, FinishBatch
<1>14. ASSUME Crash(w) PROVE LocalsKept(v)
  BY <1>14 DEF TypeOK, Crash
<1> QED
  BY <1>1, <1>2, <1>3, <1>4, <1>5, <1>6, <1>7, <1>8, <1>9, <1>10, <1>11, <1>12, <1>13,
     <1>14
     DEF ProcessStep

LEMMA WorkerOKKept ==
  ASSUME TypeOK, TypeOK', NEW v \in Workers, WorkerOK(v), LocalsKept(v),
         \A q \in Recipients : attempts[q] <= attempts'[q]
  PROVE  WorkerOK(v)'
<1>1. ASSUME NEW q \in todo[v]
      PROVE  /\ attempts[q] \in Int /\ attempts'[q] \in 0..MaxAttempts
             /\ attempts[q] <= attempts'[q]
  BY DEF TypeOK
<1>2. ASSUME NEW q \in todo[v], attempts[q] \in Attempts
      PROVE  attempts'[q] \in Attempts
  BY <1>1, <1>2, BroadcastAssumption
<1>3. ASSUME NEW q \in todo[v], NEW n \in Attempts, n <= attempts[q]
      PROVE  n <= attempts'[q]
  BY <1>1, <1>3, BroadcastAssumption
<1> QED BY <1>1, <1>2, <1>3 DEF WorkerOK, LocalsKept

LEMMA OwnWorkerOK ==
  ASSUME TypeInv, TypeOK', NEW w \in Workers, ProcessStep(w) \/ Crash(w)
  PROVE  WorkerOK(w)'
<1> USE BroadcastAssumption DEF TypeInv, TypeOK, WorkersOK, WorkerOK, Busy
<1>1. ASSUME RecoverStaleClaims(w) PROVE WorkerOK(w)'
  BY <1>1 DEF RecoverStaleClaims
<1>2. ASSUME ReadCandidates(w) PROVE WorkerOK(w)'
  BY <1>2 DEF ReadCandidates
<1>3. ASSUME NEW S \in SUBSET Recipients, ClaimRecipients(w, S) PROVE WorkerOK(w)'
  BY <1>3 DEF ClaimRecipients, Unsent, LatestDispatch, Claimable
<1>4. ASSUME ClaimRaises(w) \/ ClaimReplays(w) PROVE WorkerOK(w)'
  BY <1>4 DEF ClaimRaises, ClaimReplays, Abort, Leave
<1>5. ASSUME NEW r \in Recipients, PrepareBlocks(w, r) PROVE WorkerOK(w)'
  BY <1>5 DEF PrepareBlocks
<1>6. ASSUME NEW r \in Recipients, PreparePlans(w, r) PROVE WorkerOK(w)'
  BY <1>6 DEF PreparePlans
<1>7. ASSUME PrepareRaises(w) PROVE WorkerOK(w)'
  BY <1>7 DEF PrepareRaises, Abort, Leave
<1>8. ASSUME PrepareSend(w) PROVE WorkerOK(w)'
  BY <1>8 DEF PrepareSend, Goto, NextRecipient
<1>9. ASSUME StartBlocks(w) PROVE WorkerOK(w)'
  BY <1>9 DEF StartBlocks, NextRecipient
<1>10. ASSUME StartDispatch(w) PROVE WorkerOK(w)'
  BY <1>10 DEF StartDispatch, Goto, NextRecipient
<1>11. ASSUME CallProvider(w) PROVE WorkerOK(w)'
  BY <1>11 DEF CallProvider
<1>12. ASSUME Reconcile(w) PROVE WorkerOK(w)'
  BY <1>12 DEF Reconcile, NextRecipient
<1>13. ASSUME FinishBatch(w) PROVE WorkerOK(w)'
  BY <1>13 DEF FinishBatch, Leave
<1>14. ASSUME Crash(w) PROVE WorkerOK(w)'
  BY <1>14 DEF Crash, Leave
<1> QED
  BY <1>1, <1>2, <1>3, <1>4, <1>5, <1>6, <1>7, <1>8, <1>9, <1>10, <1>11, <1>12, <1>13,
     <1>14
     DEF ProcessStep

\* Only a call moves its own locals, and attempts only grow.
LEMMA TypeInvStep ==
  ASSUME TypeInv, [Next]_vars PROVE TypeInv'
<1>1. TypeOK'
  BY TypeOKStep
<1>2. \A q \in Recipients : attempts[q] <= attempts'[q]
  BY AttemptsGrow DEF TypeInv
<1>3. ASSUME NEW w \in Workers, ProcessStep(w) \/ Crash(w), NEW v \in Workers
      PROVE  WorkerOK(v)'
  <2>1. CASE v = w
    BY <1>1, <1>3, <2>1, OwnWorkerOK
  <2>2. CASE v # w
    BY <1>1, <1>2, <1>3, <2>2, OtherLocals, WorkerOKKept DEF TypeInv, WorkersOK
  <2> QED BY <2>1, <2>2
<1>4. ASSUME UNCHANGED workerVars, NEW v \in Workers
      PROVE  WorkerOK(v)'
  BY <1>1, <1>2, <1>4, WorkerOKKept DEF TypeInv, WorkersOK, LocalsKept
<1>5. WorkersOK'
  <2>1. CASE \E w \in Workers : ProcessStep(w) \/ Crash(w)
    BY <2>1, <1>3 DEF WorkersOK
  <2>2. CASE UNCHANGED workerVars
    BY <2>2, <1>4 DEF WorkersOK
  <2>3. CASE \E r \in Recipients : ClaimExpires(r)
    BY <2>2, <2>3 DEF ClaimExpires
  <2>4. CASE \E u \in Users, S \in SUBSET Recipients : RetryFailed(u, S)
    BY <2>2, <2>4 DEF RetryFailed
  <2>5. CASE \E r \in Recipients, i \in Attempts, s \in Reports, newer \in BOOLEAN :
               ProviderReports(r, i, s, newer)
    BY <2>2, <2>5 DEF ProviderReports
  <2>6. CASE ContactChanges
    BY <2>2, <2>6 DEF ContactChanges
  <2>7. CASE UNCHANGED vars
    BY <2>2, <2>7 DEF vars
  <2> QED
    BY <2>1, <2>3, <2>4, <2>5, <2>6, <2>7 DEF Next
<1> QED BY <1>1, <1>5 DEF TypeInv

\* Every variable keeps its type in every reachable state.
THEOREM TypeCorrect == Spec => []TypeOK
<1>1. TypeInv => TypeOK
  BY DEF TypeInv
<1>2. TypeInv /\ [Next]_vars => TypeInv'
  BY TypeInvStep
<1> QED
  BY <1>1, <1>2, TypeInvInit, PTL DEF Spec

-----------------------------------------------------------------------------
(* Messages, the provider and the workers inside its call.                 *)

MessagesKept ==
  UNCHANGED <<attempts, dispatchState, providerState, matched, events, wire, calls>>

LEMMA SenderFacts ==
  ASSUME TypeInv, NEW w \in Workers, step[w] \in Busy
  PROVE  /\ current[w] \in Recipients /\ attempt[w] \in Attempts
         /\ attempts[current[w]] \in Nat
BY DEF TypeInv, TypeOK, WorkersOK, WorkerOK

\* A message whose own variables a step leaves alone, up to further reports.
LEMMA MessageKept ==
  ASSUME NEW r \in Recipients, NEW i \in Attempts, MessageOK(r, i),
         attempts'[r] = attempts[r], dispatchState'[r][i] = dispatchState[r][i],
         providerState'[r][i] = providerState[r][i], matched'[r][i] = matched[r][i],
         events'[r][i] = events[r][i], wire'[r][i] = wire[r][i], calls'[r][i] = calls[r][i]
  PROVE  MessageOK(r, i)'
BY DEF MessageOK

\* A worker inside the provider call that a step does not reach.
LEMMA SenderKept ==
  ASSUME NEW v \in Workers, SenderOK(v), LocalsKept(v),
         attempts'[current[v]] = attempts[current[v]],
         dispatchState'[current[v]][attempt[v]] = dispatchState[current[v]][attempt[v]],
         calls'[current[v]][attempt[v]] = calls[current[v]][attempt[v]],
         wire'[current[v]][attempt[v]] = wire[current[v]][attempt[v]]
  PROVE  SenderOK(v)'
BY DEF SenderOK, LocalsKept

\* Nobody else is inside the provider call for the recipient of w.
LEMMA OnlySender ==
  ASSUME OneDispatcher, NEW w \in Workers, NEW v \in Workers \ {w},
         step[w] \in Sending, step[v] \in Sending
  PROVE  current[v] # current[w]
BY DEF OneDispatcher, Sending

\* The latest message of a recipient is the one with its attempt's index.
LEMMA LatestIsAttempt ==
  ASSUME TypeInv, NEW w \in Workers, step[w] \in Busy, attempts[current[w]] = attempt[w]
  PROVE  LatestDispatch(current[w]) = dispatchState[current[w]][attempt[w]]
BY SenderFacts DEF LatestDispatch

LEMMA RecoverStaleClaimsMessages ==
  ASSUME IInv, NEW w \in Workers, RecoverStaleClaims(w)
  PROVE  MessagesOK' /\ SendersOK' /\ OneDispatcher' /\ ReadyMeansUnsent'
<1> USE DEF IInv, TypeInv
<1>1. PICK R \in SUBSET Stale :
        /\ dispatchState' =
             [r \in Recipients |->
               [i \in Attempts |->
                 IF r \in R /\ i = attempts[r]
                 THEN RecoveredDispatch(dispatchState[r][i]) ELSE dispatchState[r][i]]]
        /\ status' = [r \in Recipients |-> IF r \in R THEN RecoveredStatus(r) ELSE status[r]]
  BY DEF RecoverStaleClaims
<1>2. ASSUME NEW r \in Recipients, NEW i \in Attempts
      PROVE  \/ dispatchState'[r][i] = dispatchState[r][i]
             \/ dispatchState[r][i] = "IN_PROGRESS" /\ dispatchState'[r][i] = "UNKNOWN"
  BY <1>1 DEF RecoveredDispatch
<1>3. UNCHANGED <<attempts, providerState, matched, events, wire, calls, current, attempt, answer>>
  BY DEF RecoverStaleClaims
<1>4. MessagesOK'
  <2> SUFFICES ASSUME NEW r \in Recipients, NEW i \in Attempts PROVE MessageOK(r, i)'
    BY DEF MessagesOK
  <2>1. MessageOK(r, i)
    BY DEF MessagesOK
  <2>2. i < attempts[r] => dispatchState'[r][i] = dispatchState[r][i]
    BY <1>1 DEF TypeOK
  <2> QED BY <1>2, <1>3, <2>1, <2>2 DEF MessageOK
<1>5. \A v \in Workers : step'[v] \in Sending => step'[v] = step[v]
  BY DEF RecoverStaleClaims, Sending, TypeOK
<1>6. SendersOK'
  <2> SUFFICES ASSUME NEW v \in Workers, step'[v] \in Sending PROVE SenderOK(v)'
    BY DEF SendersOK
  <2>1. current[v] \in Recipients /\ attempt[v] \in Attempts
    BY <1>5, SenderFacts DEF Sending, Busy
  <2> QED BY <1>2, <1>3, <1>5, <2>1 DEF SendersOK, SenderOK
<1>7. OneDispatcher'
  BY <1>3, <1>5 DEF OneDispatcher, Sending
<1>8. ReadyMeansUnsent'
  <2> SUFFICES ASSUME NEW r \in Recipients, status'[r] = "READY"
               PROVE  LatestDispatch(r)' \in {"NONE", "PENDING"}
    BY DEF ReadyMeansUnsent
  <2>1. CASE r \in R
    <3>1. RecoveredStatus(r) = "READY"
      BY <1>1, <2>1
    <3>2. LatestProvider(r) \in DeliveryStates \cup {"NONE"}
      BY LatestTypes, TypeGroups
    <3>3. LatestDispatch(r) \in {"NONE", "PENDING"}
      BY <3>1, <3>2 DEF RecoveredStatus, RecipientStatus, RecoveredDispatch, Unsent, Cleared
    <3>4. LatestDispatch(r)' = LatestDispatch(r)
      BY <1>1, <1>3, <3>3 DEF LatestDispatch, RecoveredDispatch, TypeOK
    <3> QED BY <3>3, <3>4
  <2>2. CASE r \notin R
    <3>1. status[r] = "READY" /\ LatestDispatch(r)' = LatestDispatch(r)
      BY <1>1, <1>3, <2>2 DEF LatestDispatch, TypeOK
    <3> QED BY <3>1 DEF ReadyMeansUnsent
  <2> QED BY <2>1, <2>2
<1> QED BY <1>4, <1>6, <1>7, <1>8

LEMMA ClaimRecipientsMessages ==
  ASSUME IInv, TypeInv', NEW w \in Workers, NEW S \in SUBSET Recipients, ClaimRecipients(w, S)
  PROVE  MessagesOK' /\ SendersOK' /\ OneDispatcher' /\ ReadyMeansUnsent'
<1> USE BroadcastAssumption DEF IInv, TypeInv
<1>1. /\ UNCHANGED <<providerState, matched, events, wire, calls, current, attempt, answer>>
      /\ attempts' = [r \in Recipients |-> IF r \in S /\ attempts[r] = 0 THEN 1 ELSE attempts[r]]
      /\ dispatchState' =
           [r \in Recipients |->
             [i \in Attempts |->
               IF r \in S /\ attempts[r] = 0 /\ i = 1 THEN "PENDING" ELSE dispatchState[r][i]]]
  BY DEF ClaimRecipients
<1>2. MessagesOK'
  <2> SUFFICES ASSUME NEW r \in Recipients, NEW i \in Attempts PROVE MessageOK(r, i)'
    BY DEF MessagesOK
  <2>1. MessageOK(r, i) /\ attempts[r] \in Nat /\ i \in Nat
    BY DEF MessagesOK, TypeOK
  <2>2. CASE r \in S /\ attempts[r] = 0
    <3>1. attempts'[r] = 1
      BY <1>1, <2>2
    <3>2. dispatchState'[r][i] = IF i = 1 THEN "PENDING" ELSE "NONE"
      BY <1>1, <2>1, <2>2 DEF MessageOK
    <3> QED BY <1>1, <2>1, <2>2, <3>1, <3>2 DEF MessageOK
  <2>3. CASE ~(r \in S /\ attempts[r] = 0)
    <3>1. attempts'[r] = attempts[r] /\ dispatchState'[r][i] = dispatchState[r][i]
      BY <1>1, <2>3
    <3> QED BY <1>1, <2>1, <3>1, MessageKept
  <2> QED BY <2>2, <2>3
<1>3. \A v \in Workers : step'[v] \in Sending => v # w /\ LocalsKept(v) /\ step[v] \in Sending
  <2> SUFFICES ASSUME NEW v \in Workers, step'[v] \in Sending
               PROVE  v # w /\ LocalsKept(v) /\ step[v] \in Sending
    OBVIOUS
  <2>1. v # w
    BY DEF ClaimRecipients, Sending, TypeOK
  <2>2. LocalsKept(v)
    BY <2>1, OtherLocals DEF ProcessStep
  <2> QED BY <2>1, <2>2 DEF LocalsKept
<1>4. SendersOK'
  <2> SUFFICES ASSUME NEW v \in Workers, step'[v] \in Sending PROVE SenderOK(v)'
    BY DEF SendersOK
  <2>1. /\ current[v] \in Recipients /\ attempt[v] \in Attempts
        /\ SenderOK(v)
    BY <1>3, SenderFacts DEF Sending, Busy, SendersOK
  <2>2. attempts[current[v]] # 0
    BY <2>1 DEF SenderOK
  <2>3. /\ attempts'[current[v]] = attempts[current[v]]
        /\ dispatchState'[current[v]][attempt[v]] = dispatchState[current[v]][attempt[v]]
    BY <1>1, <2>1, <2>2
  <2> QED BY <1>1, <1>3, <2>1, <2>3, SenderKept
<1>5. OneDispatcher'
  BY <1>1, <1>3 DEF OneDispatcher, Sending, LocalsKept
<1>6. ReadyMeansUnsent'
  <2> SUFFICES ASSUME NEW r \in Recipients, status'[r] = "READY"
               PROVE  LatestDispatch(r)' \in {"NONE", "PENDING"}
    BY DEF ReadyMeansUnsent
  <2>1. r \notin S /\ status[r] = "READY"
    BY DEF ClaimRecipients
  <2>2. attempts[r] \in 0..MaxAttempts
    BY DEF TypeOK
  <2>3. LatestDispatch(r)' = LatestDispatch(r)
    BY <1>1, <2>1, <2>2 DEF LatestDispatch
  <2> QED BY <2>1, <2>3 DEF ReadyMeansUnsent
<1> QED BY <1>2, <1>4, <1>5, <1>6

\* A step that touches no message, starts no send and makes nobody READY.
LEMMA QuietMessages ==
  ASSUME IInv, MessagesKept,
         \A v \in Workers : step'[v] \in Sending => LocalsKept(v) /\ step[v] \in Sending,
         \A r \in Recipients : status'[r] = "READY" => status[r] = "READY"
  PROVE  MessagesOK' /\ SendersOK' /\ OneDispatcher' /\ ReadyMeansUnsent'
<1> USE DEF IInv, MessagesKept
<1>1. MessagesOK'
  BY DEF MessagesOK, MessageOK
<1>2. SendersOK'
  BY SenderKept DEF SendersOK
<1>3. OneDispatcher'
  BY DEF OneDispatcher, LocalsKept, Sending
<1>4. ReadyMeansUnsent'
  BY DEF ReadyMeansUnsent, LatestDispatch
<1> QED BY <1>1, <1>2, <1>3, <1>4

LEMMA StartDispatchMessages ==
  ASSUME IInv, TypeInv', NEW w \in Workers, StartDispatch(w)
  PROVE  MessagesOK' /\ SendersOK' /\ OneDispatcher' /\ ReadyMeansUnsent'
<1> USE DEF IInv, TypeInv
<1> DEFINE r == current[w]
           i == attempt[w]
<1>1. r \in Recipients /\ i \in Attempts
  BY SenderFacts DEF StartDispatch, Busy
<1>2. attempts[r] = i /\ MessageOK(r, i) /\ LatestDispatch(r) = dispatchState[r][i]
  BY <1>1, LatestIsAttempt DEF StartDispatch, MayStart, MessagesOK, Busy
<1>3. \A v \in Workers \ {w} : LocalsKept(v)
  BY OtherLocals DEF ProcessStep
<1>4. CASE dispatchState[r][i] = "PENDING"
  <2>1. /\ UNCHANGED <<attempts, providerState, matched, events, wire, calls>>
        /\ dispatchState' = [dispatchState EXCEPT ![r][i] = "IN_PROGRESS"]
        /\ status' = [status EXCEPT ![r] =
             RecipientStatus("IN_PROGRESS", providerState[r][i], claim[r] # NoOne)]
        /\ step' = [step EXCEPT ![w] = "call"]
        /\ current'[w] = r /\ attempt'[w] = i
    BY <1>4 DEF StartDispatch, Goto
  <2>2. calls[r][i] = 0 /\ providerState[r][i] = "NONE"
    BY <1>2, <1>4 DEF MessageOK
  <2>3. dispatchState'[r][i] = "IN_PROGRESS" /\ step'[w] = "call"
    BY <1>1, <2>1 DEF TypeOK
  <2>4. MessagesOK'
    <3> SUFFICES ASSUME NEW q \in Recipients, NEW j \in Attempts PROVE MessageOK(q, j)'
      BY DEF MessagesOK
    <3>1. CASE q = r /\ j = i
      BY <1>2, <1>4, <2>1, <2>3, <3>1 DEF MessageOK
    <3>2. CASE ~(q = r /\ j = i)
      <4>1. dispatchState'[q][j] = dispatchState[q][j]
        BY <1>1, <2>1, <3>2, UpdateOther, TypeGroups DEF MessageTypes
      <4> QED BY <2>1, <4>1, MessageKept DEF MessagesOK
    <3> QED BY <3>1, <3>2
  <2>5. \A v \in Workers \ {w} : step'[v] \in Sending => current[v] # r
    <3> SUFFICES ASSUME NEW v \in Workers \ {w}, step'[v] \in Sending, current[v] = r
                 PROVE  FALSE
      OBVIOUS
    <3>1. SenderOK(v)
      BY <1>3 DEF SendersOK, LocalsKept
    <3> QED BY <1>2, <1>4, <3>1 DEF SenderOK
  <2>6. SendersOK'
    <3> SUFFICES ASSUME NEW v \in Workers, step'[v] \in Sending PROVE SenderOK(v)'
      BY DEF SendersOK
    <3>1. CASE v = w
      BY <1>2, <2>1, <2>2, <2>3, <3>1 DEF SenderOK
    <3>2. CASE v # w
      <4>1. LocalsKept(v) /\ SenderOK(v) /\ current[v] # r
        BY <1>3, <2>5, <3>2 DEF SendersOK, LocalsKept
      <4>2. current[v] \in Recipients
        BY <1>3, <3>2, SenderFacts DEF LocalsKept, Sending, Busy
      <4>3. dispatchState'[current[v]] = dispatchState[current[v]]
        BY <2>1, <4>1, <4>2 DEF TypeOK
      <4> QED BY <2>1, <4>1, <4>3, SenderKept
    <3> QED BY <3>1, <3>2
  <2>7. OneDispatcher'
    BY <1>3, <2>1, <2>5 DEF OneDispatcher, LocalsKept, Sending
  <2>8. ReadyMeansUnsent'
    <3> SUFFICES ASSUME NEW q \in Recipients, status'[q] = "READY"
                 PROVE  LatestDispatch(q)' \in {"NONE", "PENDING"}
      BY DEF ReadyMeansUnsent
    <3>1. status'[r] = "IN_PROGRESS"
      BY <1>1, <2>1, <2>2 DEF RecipientStatus, TypeOK
    <3>2. q # r
      BY <3>1
    <3>3. status[q] = "READY" /\ dispatchState'[q] = dispatchState[q]
      BY <1>1, <2>1, <3>2 DEF TypeOK
    <3> QED BY <2>1, <3>3 DEF ReadyMeansUnsent, LatestDispatch
  <2> QED BY <2>4, <2>6, <2>7, <2>8
<1>5. CASE dispatchState[r][i] # "PENDING"
  <2>1. MessagesKept /\ UNCHANGED status /\ NextRecipient(w)
    BY <1>5 DEF StartDispatch, MessagesKept
  <2>2. step'[w] = "next"
    BY <2>1 DEF NextRecipient, TypeOK
  <2>3. \A v \in Workers : step'[v] \in Sending => LocalsKept(v) /\ step[v] \in Sending
    BY <1>3, <2>2 DEF LocalsKept, Sending
  <2> QED BY <2>1, <2>3, QuietMessages
<1> QED BY <1>4, <1>5

LEMMA CallProviderMessages ==
  ASSUME IInv, TypeInv', NEW w \in Workers, CallProvider(w)
  PROVE  MessagesOK' /\ SendersOK' /\ OneDispatcher' /\ ReadyMeansUnsent'
<1> USE DEF IInv, TypeInv
<1> DEFINE r == current[w]
           i == attempt[w]
<1>1. r \in Recipients /\ i \in Attempts
  BY SenderFacts DEF CallProvider, Busy
<1>2. SenderOK(w) /\ calls[r][i] = 0 /\ MessageOK(r, i)
  BY <1>1 DEF CallProvider, SendersOK, SenderOK, MessagesOK, Sending
<1>3. \A v \in Workers \ {w} : LocalsKept(v)
  BY OtherLocals DEF ProcessStep
<1>4. PICK truth \in {"accepted", "rejected"}, told \in {"success", "failure", "unknown"} :
        /\ told = "success" => truth = "accepted"
        /\ told = "failure" => truth = "rejected"
        /\ wire' = [wire EXCEPT ![r][i] = truth]
        /\ answer' = [answer EXCEPT ![w] = told]
  BY DEF CallProvider
<1>5. /\ UNCHANGED <<status, attempts, dispatchState, providerState, matched, events, current, attempt>>
      /\ calls' = [calls EXCEPT ![r][i] = calls[r][i] + 1]
      /\ step' = [step EXCEPT ![w] = "reconcile"]
  BY DEF CallProvider
<1>6. /\ wire'[r][i] = truth /\ calls'[r][i] = 1
      /\ answer'[w] = told /\ step'[w] = "reconcile"
  BY <1>1, <1>2, <1>4, <1>5 DEF TypeOK
<1>7. MessagesOK'
  <2> SUFFICES ASSUME NEW q \in Recipients, NEW j \in Attempts PROVE MessageOK(q, j)'
    BY DEF MessagesOK
  <2>1. CASE q = r /\ j = i
    BY <1>2, <1>5, <1>6, <2>1 DEF MessageOK, SenderOK
  <2>2. CASE ~(q = r /\ j = i)
    <3>1. wire'[q][j] = wire[q][j] /\ calls'[q][j] = calls[q][j]
      BY <1>1, <1>4, <1>5, <2>2, UpdateOther, TypeGroups DEF ProviderTypes
    <3> QED BY <1>5, <3>1, MessageKept DEF MessagesOK
  <2> QED BY <2>1, <2>2
<1>8. SendersOK'
  <2> SUFFICES ASSUME NEW v \in Workers, step'[v] \in Sending PROVE SenderOK(v)'
    BY DEF SendersOK
  <2>1. CASE v = w
    BY <1>2, <1>4, <1>5, <1>6, <2>1 DEF SenderOK
  <2>2. CASE v # w
    <3>1. LocalsKept(v) /\ SenderOK(v) /\ step[v] \in Sending
      BY <1>3, <2>2 DEF SendersOK, LocalsKept
    <3>2. current[v] # r /\ current[v] \in Recipients
      BY <2>2, <3>1, OnlySender, SenderFacts DEF CallProvider, Sending, Busy
    <3>3. calls'[current[v]] = calls[current[v]] /\ wire'[current[v]] = wire[current[v]]
      BY <1>4, <1>5, <3>2 DEF TypeOK
    <3> QED BY <1>5, <3>1, <3>3, SenderKept
  <2> QED BY <2>1, <2>2
<1>9. OneDispatcher'
  BY <1>5, <1>3 DEF OneDispatcher, LocalsKept, CallProvider, TypeOK
<1>10. ReadyMeansUnsent'
  BY <1>5 DEF ReadyMeansUnsent, LatestDispatch
<1> QED BY <1>7, <1>8, <1>9, <1>10

LEMMA AttachedRecorded ==
  \A recorded, s : s \in Attached(recorded) => s \in recorded \/ s = "NONE"
BY DEF Attached

LEMMA ReconcileMessages ==
  ASSUME IInv, TypeInv', NEW w \in Workers, Reconcile(w)
  PROVE  MessagesOK' /\ SendersOK' /\ OneDispatcher' /\ ReadyMeansUnsent'
<1> USE DEF IInv, TypeInv
<1> DEFINE r == current[w]
           i == attempt[w]
           reached == AnswerState(answer[w])
<1>1. r \in Recipients /\ i \in Attempts
  BY SenderFacts DEF Reconcile, Busy
<1>2. SenderOK(w) /\ MessageOK(r, i)
  BY <1>1 DEF Reconcile, SendersOK, MessagesOK, Sending
<1>3. \A v \in Workers \ {w} : LocalsKept(v)
  BY OtherLocals DEF ProcessStep
<1>4. step'[w] = "next" /\ step[w] \in Sending
  BY DEF Reconcile, NextRecipient, TypeOK, Sending
<1>5. CASE dispatchState[r][i] = "IN_PROGRESS"
  <2>1. PICK s \in (IF reached = "ACCEPTED" THEN Attached(events[r][i]) ELSE {"NONE"}) :
          /\ providerState' = [providerState EXCEPT ![r][i] = s]
          /\ status' = [status EXCEPT ![r] =
               Recomputed(@, IF i = attempts[r] THEN reached ELSE LatestDispatch(r),
                          LatestAfter(r, i, s), claim[r] # NoOne)]
    BY <1>5 DEF Reconcile
  <2>2. /\ dispatchState' = [dispatchState EXCEPT ![r][i] = reached]
        /\ matched' = [matched EXCEPT ![r][i] = (reached = "ACCEPTED")]
        /\ UNCHANGED <<attempts, events, wire, calls>>
    BY <1>5 DEF Reconcile
  <2>3. /\ dispatchState'[r][i] = reached /\ providerState'[r][i] = s
        /\ matched'[r][i] <=> reached = "ACCEPTED"
    <3>1. dispatchState'[r][i] = reached
      BY <1>1, <2>2 DEF TypeOK
    <3>2. providerState'[r][i] = s
      BY <1>1, <2>1 DEF TypeOK
    <3>3. matched'[r][i] = (reached = "ACCEPTED")
      <4>1. matched \in [Recipients -> [Attempts -> BOOLEAN]]
        BY TypeGroups DEF MessageTypes
      <4>2. \A b : [matched EXCEPT ![r][i] = b][r][i] = b
        BY <1>1, <4>1
      <4> QED BY Zenon, <2>2, <4>2
    <3> QED BY <3>1, <3>2, <3>3
  <2>4. /\ reached \in {"ACCEPTED", "DEFINITIVE_FAILED", "UNKNOWN"}
        /\ reached = "ACCEPTED" => wire[r][i] = "accepted"
        /\ reached = "DEFINITIVE_FAILED" => wire[r][i] = "rejected"
        /\ reached # "ACCEPTED" => s = "NONE"
        /\ s \in events[r][i] \/ s = "NONE"
    <3>1. /\ answer[w] = "success" => wire[r][i] = "accepted"
          /\ answer[w] = "failure" => wire[r][i] = "rejected"
      BY <1>2 DEF SenderOK, Reconcile
    <3>2. s \in events[r][i] \/ s = "NONE"
      BY <2>1, AttachedRecorded
    <3> QED BY <2>1, <3>1, <3>2 DEF AnswerState
  <2>5. MessagesOK'
    <3> SUFFICES ASSUME NEW q \in Recipients, NEW j \in Attempts PROVE MessageOK(q, j)'
      BY DEF MessagesOK
    <3>1. CASE q = r /\ j = i
      <4>1. ~(i < attempts[r]) /\ calls[r][i] \in {0, 1} /\ ~(attempts[r] < i)
        BY <1>1, <1>2, <1>5 DEF MessageOK, SenderOK, TypeOK
      <4> QED BY <1>2, <1>5, <2>2, <2>3, <2>4, <3>1, <4>1 DEF MessageOK
    <3>2. CASE ~(q = r /\ j = i)
      <4>1. /\ dispatchState'[q][j] = dispatchState[q][j]
            /\ providerState'[q][j] = providerState[q][j]
            /\ matched'[q][j] = matched[q][j]
        BY <1>1, <2>1, <2>2, <3>2, UpdateOther, TypeGroups DEF MessageTypes
      <4> QED BY <2>2, <4>1, MessageKept DEF MessagesOK
    <3> QED BY <3>1, <3>2
  <2>6. SendersOK'
    <3> SUFFICES ASSUME NEW v \in Workers, step'[v] \in Sending PROVE SenderOK(v)'
      BY DEF SendersOK
    <3>1. v # w
      BY <1>4 DEF Sending
    <3>2. LocalsKept(v) /\ SenderOK(v) /\ step[v] \in Sending
      BY <1>3, <3>1 DEF SendersOK, LocalsKept
    <3>3. current[v] # r /\ current[v] \in Recipients
      BY <1>4, <3>1, <3>2, OnlySender, SenderFacts DEF Sending, Busy
    <3>4. dispatchState'[current[v]] = dispatchState[current[v]]
      BY <2>2, <3>3 DEF TypeOK
    <3> QED BY <2>2, <3>2, <3>4, SenderKept
  <2>7. OneDispatcher'
    BY <1>3, <1>4 DEF OneDispatcher, LocalsKept, Sending
  <2>8. ReadyMeansUnsent'
    <3> SUFFICES ASSUME NEW q \in Recipients, status'[q] = "READY"
                 PROVE  LatestDispatch(q)' \in {"NONE", "PENDING"}
      BY DEF ReadyMeansUnsent
    <3>1. status'[r] # "READY"
      <4>1. status'[r] = Recomputed(status[r], reached, s, claim[r] # NoOne)
        BY <1>1, <1>2, <2>1 DEF TypeOK, SenderOK, LatestAfter
      <4>2. s \in DeliveryStates \cup {"NONE"}
        BY <1>1, <2>4, ProviderTypesAt, TypeGroups
      <4> QED BY <2>4, <4>1, <4>2 DEF Recomputed, RecipientStatus
    <3>2. q # r
      BY <3>1
    <3>3. status[q] = "READY" /\ dispatchState'[q] = dispatchState[q]
      BY <1>1, <2>1, <2>2, <3>2 DEF TypeOK
    <3> QED BY <2>2, <3>3 DEF ReadyMeansUnsent, LatestDispatch
  <2> QED BY <2>5, <2>6, <2>7, <2>8
<1>6. CASE dispatchState[r][i] # "IN_PROGRESS"
  <2>1. MessagesKept /\ UNCHANGED status
    BY <1>6 DEF Reconcile, MessagesKept
  <2>2. \A v \in Workers : step'[v] \in Sending => LocalsKept(v) /\ step[v] \in Sending
    BY <1>3, <1>4 DEF LocalsKept, Sending
  <2> QED BY <2>1, <2>2, QuietMessages
<1> QED BY <1>5, <1>6

LEMMA RetryFailedMessages ==
  ASSUME IInv, TypeInv', NEW u \in Users, NEW S \in SUBSET Recipients, RetryFailed(u, S)
  PROVE  MessagesOK' /\ SendersOK' /\ OneDispatcher' /\ ReadyMeansUnsent'
<1> USE BroadcastAssumption DEF IInv, TypeInv
<1>1. /\ UNCHANGED <<providerState, matched, events, wire, calls, step, todo, current, attempt, answer>>
      /\ attempts' = [r \in Recipients |-> IF r \in S THEN attempts[r] + 1 ELSE attempts[r]]
      /\ dispatchState' =
           [r \in Recipients |->
             [i \in Attempts |->
               IF r \in S /\ i = attempts[r] + 1 THEN "PENDING" ELSE dispatchState[r][i]]]
  BY DEF RetryFailed
<1>2. \A v \in Workers : LocalsKept(v)
  BY <1>1 DEF LocalsKept
<1>3. ASSUME NEW r \in S
      PROVE  /\ attempts[r] \in Attempts /\ attempts[r] + 1 \in Attempts
             /\ \/ dispatchState[r][attempts[r]] = "DEFINITIVE_FAILED"
                \/ /\ dispatchState[r][attempts[r]] = "ACCEPTED"
                   /\ "FAILED" \in events[r][attempts[r]]
  <2>1. Retryable(r) /\ attempts[r] \in 0..MaxAttempts /\ attempts[r] < MaxAttempts
    BY DEF RetryFailed, Retryable, TypeOK
  <2>2. attempts[r] # 0
    BY <2>1 DEF Retryable, LatestDispatch, LatestProvider
  <2>3. attempts[r] \in Attempts /\ attempts[r] + 1 \in Attempts
    BY <2>1, <2>2
  <2>4. MessageOK(r, attempts[r])
    BY <2>3 DEF MessagesOK
  <2>5. \/ dispatchState[r][attempts[r]] = "DEFINITIVE_FAILED"
        \/ providerState[r][attempts[r]] = "FAILED"
    BY <2>1, <2>2 DEF Retryable, LatestDispatch, LatestProvider
  <2> QED BY <2>3, <2>4, <2>5 DEF MessageOK
<1>4. MessagesOK'
  <2> SUFFICES ASSUME NEW r \in Recipients, NEW i \in Attempts PROVE MessageOK(r, i)'
    BY DEF MessagesOK
  <2>1. MessageOK(r, i) /\ attempts[r] \in Nat /\ i \in Nat
    BY DEF MessagesOK, TypeOK
  <2>2. CASE r \in S
    <3>1. attempts'[r] = attempts[r] + 1
      BY <1>1, <2>2
    <3>2. CASE i = attempts[r] + 1
      <4>1. dispatchState[r][i] = "NONE" /\ dispatchState'[r][i] = "PENDING"
        BY <1>1, <2>1, <2>2, <3>2 DEF MessageOK
      <4> QED BY <1>1, <2>1, <3>1, <3>2, <4>1 DEF MessageOK
    <3>3. CASE i # attempts[r] + 1
      <4>1. dispatchState'[r][i] = dispatchState[r][i]
        BY <1>1, <2>2, <3>3
      <4>2. attempts'[r] < i <=> attempts[r] < i
        BY <2>1, <3>1, <3>3
      <4>3. i < attempts'[r] => i < attempts[r] \/ i = attempts[r]
        BY <2>1, <3>1
      <4> QED BY <1>1, <1>3, <2>1, <2>2, <4>1, <4>2, <4>3 DEF MessageOK
    <3> QED BY <3>2, <3>3
  <2>3. CASE r \notin S
    <3>1. attempts'[r] = attempts[r] /\ dispatchState'[r][i] = dispatchState[r][i]
      BY <1>1, <2>3
    <3> QED BY <1>1, <2>1, <3>1, MessageKept
  <2> QED BY <2>2, <2>3
<1>5. SendersOK'
  <2> SUFFICES ASSUME NEW v \in Workers, step'[v] \in Sending PROVE SenderOK(v)'
    BY DEF SendersOK
  <2>1. /\ current[v] \in Recipients /\ attempt[v] \in Attempts
        /\ SenderOK(v) /\ LocalsKept(v)
    BY <1>1, <1>2, SenderFacts DEF Sending, Busy, SendersOK
  <2>2. current[v] \notin S
    BY <1>3, <2>1 DEF SenderOK
  <2>3. /\ attempts'[current[v]] = attempts[current[v]]
        /\ dispatchState'[current[v]][attempt[v]] = dispatchState[current[v]][attempt[v]]
    BY <1>1, <2>1, <2>2
  <2> QED BY <1>1, <2>1, <2>3, SenderKept
<1>6. OneDispatcher'
  BY <1>1 DEF OneDispatcher
<1>7. ReadyMeansUnsent'
  <2> SUFFICES ASSUME NEW r \in Recipients, status'[r] = "READY"
               PROVE  LatestDispatch(r)' \in {"NONE", "PENDING"}
    BY DEF ReadyMeansUnsent
  <2>1. CASE r \in S
    <3>1. dispatchState'[r][attempts'[r]] = "PENDING"
      BY <1>1, <1>3, <2>1
    <3> QED BY <3>1 DEF LatestDispatch
  <2>2. CASE r \notin S
    <3>1. status[r] = "READY" /\ attempts[r] \in 0..MaxAttempts
      BY <2>2 DEF RetryFailed, TypeOK
    <3>2. LatestDispatch(r)' = LatestDispatch(r)
      BY <1>1, <2>2, <3>1 DEF LatestDispatch
    <3> QED BY <3>1, <3>2 DEF ReadyMeansUnsent
  <2> QED BY <2>1, <2>2
<1> QED BY <1>4, <1>5, <1>6, <1>7

LEMMA ProviderReportsMessages ==
  ASSUME IInv, TypeInv', NEW r \in Recipients, NEW i \in Attempts, NEW s \in Reports,
         NEW newer \in BOOLEAN, ProviderReports(r, i, s, newer)
  PROVE  MessagesOK' /\ SendersOK' /\ OneDispatcher' /\ ReadyMeansUnsent'
<1> USE BroadcastAssumption DEF IInv, TypeInv
<1> DEFINE p == IF MayReplace(providerState[r][i], s, newer) THEN s ELSE providerState[r][i]
<1>1. /\ UNCHANGED <<attempts, dispatchState, matched, wire, calls, step, todo, current, attempt, answer>>
      /\ events' = [events EXCEPT ![r][i] = events[r][i] \cup {s}]
      /\ wire[r][i] = "accepted"
      /\ \/ matched[r][i] /\ providerState' = [providerState EXCEPT ![r][i] = p]
         \/ ~matched[r][i] /\ providerState' = providerState
  BY DEF ProviderReports
<1>2. MessageOK(r, i)
  BY DEF MessagesOK
<1>3. events'[r][i] = events[r][i] \cup {s} /\ providerState'[r][i] \in {providerState[r][i], s}
  BY <1>1 DEF TypeOK
<1>4. MessagesOK'
  <2> SUFFICES ASSUME NEW q \in Recipients, NEW j \in Attempts PROVE MessageOK(q, j)'
    BY DEF MessagesOK
  <2>1. CASE q = r /\ j = i
    <3>1. ~matched[r][i] => providerState'[r][i] = providerState[r][i]
      BY <1>1
    <3>2. providerState'[r][i] = "FAILED" => "FAILED" \in events'[r][i]
      BY <1>2, <1>3 DEF MessageOK
    <3>3. "FAILED" \in events[r][i] => "FAILED" \in events'[r][i]
      BY <1>3
    <3> QED BY <1>1, <1>2, <2>1, <3>1, <3>2, <3>3 DEF MessageOK
  <2>2. CASE ~(q = r /\ j = i)
    <3>1. events'[q][j] = events[q][j]
      BY <1>1, <2>2, UpdateOther, TypeGroups DEF ProviderTypes
    <3>2. providerState'[q][j] = providerState[q][j]
      BY <1>1, <2>2, UpdateOther, TypeGroups DEF MessageTypes
    <3> QED BY <1>1, <3>1, <3>2, MessageKept DEF MessagesOK
  <2> QED BY <2>1, <2>2
<1>5. SendersOK'
  BY <1>1, SenderKept DEF SendersOK, LocalsKept
<1>6. OneDispatcher'
  BY <1>1 DEF OneDispatcher
<1>7. ReadyMeansUnsent'
  <2> SUFFICES ASSUME NEW q \in Recipients, status'[q] = "READY"
               PROVE  LatestDispatch(q)' \in {"NONE", "PENDING"}
    BY DEF ReadyMeansUnsent
  <2>1. LatestDispatch(q)' = LatestDispatch(q)
    BY <1>1 DEF LatestDispatch
  <2>2. CASE q = r /\ matched[r][i]
    <3>1. status'[r] = Recomputed(status[r], LatestDispatch(r), LatestAfter(r, i, p), claim[r] # NoOne)
      BY <2>2 DEF ProviderReports, TypeOK
    <3>2. LatestAfter(r, i, p) \in DeliveryStates \cup {"NONE"}
      BY LatestTypes, TypeGroups DEF LatestAfter, MessageTypes
    <3> QED BY <2>1, <2>2, <3>1, <3>2 DEF Recomputed, RecipientStatus
  <2>3. CASE ~(q = r /\ matched[r][i])
    <3>1. status[q] = "READY"
      BY <2>3 DEF ProviderReports, TypeOK
    <3> QED BY <2>1, <3>1 DEF ReadyMeansUnsent
  <2> QED BY <2>2, <2>3
<1> QED BY <1>4, <1>5, <1>6, <1>7

\* The strengthening of the safety invariants is inductive.
LEMMA IInvStep ==
  ASSUME IInv, [Next]_vars PROVE IInv'
<1> DEFINE Goal == MessagesOK' /\ SendersOK' /\ OneDispatcher' /\ ReadyMeansUnsent'
           Quiet == /\ MessagesKept
                    /\ \A v \in Workers :
                         step'[v] \in Sending => LocalsKept(v) /\ step[v] \in Sending
                    /\ \A r \in Recipients : status'[r] = "READY" => status[r] = "READY"
<1> USE DEF IInv
<1>0. TypeInv'
  BY TypeInvStep
<1>1. ASSUME NEW w \in Workers, RecoverStaleClaims(w)
      PROVE  Goal
  BY <1>1, RecoverStaleClaimsMessages, <1>0 DEF IInv
<1>2. ASSUME NEW w \in Workers, ReadCandidates(w)
      PROVE  Goal
  <2>1. \A v \in Workers \ {w} : LocalsKept(v)
    BY <1>2, OtherLocals DEF IInv, TypeInv, ProcessStep
  <2>2. step'[w] \notin Sending
    BY <1>2 DEF IInv, TypeInv, TypeOK, Sending, ReadCandidates
  <2>3. MessagesKept
    BY <1>2 DEF ReadCandidates, MessagesKept
  <2>4. \A r \in Recipients : status'[r] = "READY" => status[r] = "READY"
    BY <1>2 DEF IInv, TypeInv, TypeOK, ReadCandidates
  <2> QED BY <2>1, <2>2, <2>3, <2>4, QuietMessages DEF LocalsKept
<1>3. ASSUME NEW w \in Workers, NEW S \in SUBSET Recipients, ClaimRecipients(w, S)
      PROVE  Goal
  BY <1>3, ClaimRecipientsMessages, <1>0 DEF IInv
<1>4. ASSUME NEW w \in Workers, ClaimRaises(w) \/ ClaimReplays(w)
      PROVE  Goal
  <2>1. \A v \in Workers \ {w} : LocalsKept(v)
    BY <1>4, OtherLocals DEF IInv, TypeInv, ProcessStep
  <2>2. step'[w] \notin Sending
    BY <1>4 DEF IInv, TypeInv, TypeOK, Sending, ClaimRaises, ClaimReplays, Abort, Leave
  <2>3. MessagesKept
    BY <1>4 DEF ClaimRaises, ClaimReplays, MessagesKept, Abort
  <2>4. \A r \in Recipients : status'[r] = "READY" => status[r] = "READY"
    BY <1>4 DEF IInv, TypeInv, TypeOK, ClaimRaises, ClaimReplays, Abort, Leave
  <2> QED BY <2>1, <2>2, <2>3, <2>4, QuietMessages DEF LocalsKept
<1>5. ASSUME NEW w \in Workers, NEW r \in Recipients, PrepareBlocks(w, r)
      PROVE  Goal
  <2>1. \A v \in Workers \ {w} : LocalsKept(v)
    BY <1>5, OtherLocals DEF IInv, TypeInv, ProcessStep
  <2>2. step'[w] \notin Sending
    BY <1>5 DEF IInv, TypeInv, TypeOK, Sending, PrepareBlocks, Block
  <2>3. MessagesKept
    BY <1>5 DEF PrepareBlocks, MessagesKept
  <2>4. \A q \in Recipients : status'[q] = "READY" => status[q] = "READY"
    BY <1>5 DEF IInv, TypeInv, TypeOK, PrepareBlocks, Block
  <2> QED BY <2>1, <2>2, <2>3, <2>4, QuietMessages DEF LocalsKept
<1>6. ASSUME NEW w \in Workers, NEW r \in Recipients, PreparePlans(w, r)
      PROVE  Goal
  <2>1. \A v \in Workers \ {w} : LocalsKept(v)
    BY <1>6, OtherLocals DEF IInv, TypeInv, ProcessStep
  <2>2. step'[w] \notin Sending
    BY <1>6 DEF IInv, TypeInv, TypeOK, Sending, PreparePlans
  <2>3. MessagesKept
    BY <1>6 DEF PreparePlans, MessagesKept
  <2>4. \A q \in Recipients : status'[q] = "READY" => status[q] = "READY"
    BY <1>6 DEF IInv, TypeInv, TypeOK, PreparePlans
  <2> QED BY <2>1, <2>2, <2>3, <2>4, QuietMessages DEF LocalsKept
<1>7. ASSUME NEW w \in Workers, PrepareRaises(w)
      PROVE  Goal
  <2>1. \A v \in Workers \ {w} : LocalsKept(v)
    BY <1>7, OtherLocals DEF IInv, TypeInv, ProcessStep
  <2>2. step'[w] \notin Sending
    BY <1>7 DEF IInv, TypeInv, TypeOK, Sending, PrepareRaises, Abort, Leave
  <2>3. MessagesKept
    BY <1>7 DEF PrepareRaises, MessagesKept, Abort
  <2>4. \A r \in Recipients : status'[r] = "READY" => status[r] = "READY"
    BY <1>7 DEF IInv, TypeInv, TypeOK, PrepareRaises, Abort, Leave
  <2> QED BY <2>1, <2>2, <2>3, <2>4, QuietMessages DEF LocalsKept
<1>8. ASSUME NEW w \in Workers, PrepareSend(w)
      PROVE  Goal
  <2>1. \A v \in Workers \ {w} : LocalsKept(v)
    BY <1>8, OtherLocals DEF IInv, TypeInv, ProcessStep
  <2>2. step'[w] \notin Sending
    BY <1>8 DEF IInv, TypeInv, TypeOK, Sending, PrepareSend, Goto, NextRecipient
  <2>3. MessagesKept
    BY <1>8 DEF PrepareSend, MessagesKept
  <2>4. \A r \in Recipients : status'[r] = "READY" => status[r] = "READY"
    BY <1>8 DEF IInv, TypeInv, TypeOK, PrepareSend, Goto, NextRecipient
  <2> QED BY <2>1, <2>2, <2>3, <2>4, QuietMessages DEF LocalsKept
<1>9. ASSUME NEW w \in Workers, StartBlocks(w)
      PROVE  Goal
  <2>1. \A v \in Workers \ {w} : LocalsKept(v)
    BY <1>9, OtherLocals DEF IInv, TypeInv, ProcessStep
  <2>2. step'[w] \notin Sending
    BY <1>9 DEF IInv, TypeInv, TypeOK, Sending, StartBlocks, Block, NextRecipient
  <2>3. MessagesKept
    BY <1>9 DEF StartBlocks, MessagesKept
  <2>4. \A r \in Recipients : status'[r] = "READY" => status[r] = "READY"
    BY <1>9 DEF IInv, TypeInv, TypeOK, StartBlocks, Block, NextRecipient
  <2> QED BY <2>1, <2>2, <2>3, <2>4, QuietMessages DEF LocalsKept
<1>10. ASSUME NEW w \in Workers, StartDispatch(w)
      PROVE  Goal
  BY <1>10, StartDispatchMessages, <1>0 DEF IInv
<1>11. ASSUME NEW w \in Workers, CallProvider(w)
      PROVE  Goal
  BY <1>11, CallProviderMessages, <1>0 DEF IInv
<1>12. ASSUME NEW w \in Workers, Reconcile(w)
      PROVE  Goal
  BY <1>12, ReconcileMessages, <1>0 DEF IInv
<1>13. ASSUME NEW w \in Workers, FinishBatch(w)
      PROVE  Goal
  <2>1. \A v \in Workers \ {w} : LocalsKept(v)
    BY <1>13, OtherLocals DEF IInv, TypeInv, ProcessStep
  <2>2. step'[w] \notin Sending
    BY <1>13 DEF IInv, TypeInv, TypeOK, Sending, FinishBatch, Leave
  <2>3. MessagesKept
    BY <1>13 DEF FinishBatch, MessagesKept
  <2>4. \A r \in Recipients : status'[r] = "READY" => status[r] = "READY"
    BY <1>13 DEF IInv, TypeInv, TypeOK, FinishBatch, Leave
  <2> QED BY <2>1, <2>2, <2>3, <2>4, QuietMessages DEF LocalsKept
<1>14. ASSUME NEW w \in Workers, Crash(w)
      PROVE  Goal
  <2>1. \A v \in Workers \ {w} : LocalsKept(v)
    BY <1>14, OtherLocals DEF IInv, TypeInv, ProcessStep
  <2>2. step'[w] \notin Sending
    BY <1>14 DEF IInv, TypeInv, TypeOK, Sending, Crash, Leave
  <2>3. MessagesKept
    BY <1>14 DEF Crash, MessagesKept
  <2>4. \A r \in Recipients : status'[r] = "READY" => status[r] = "READY"
    BY <1>14 DEF IInv, TypeInv, TypeOK, Crash, Leave
  <2> QED BY <2>1, <2>2, <2>3, <2>4, QuietMessages DEF LocalsKept
<1>15. ASSUME NEW r \in Recipients, ClaimExpires(r)
      PROVE  Goal
  <2>1. Quiet
    BY <1>15 DEF ClaimExpires, MessagesKept, LocalsKept
  <2> QED BY <2>1, QuietMessages
<1>16. ASSUME NEW u \in Users, NEW S \in SUBSET Recipients, RetryFailed(u, S)
      PROVE  Goal
  BY <1>16, RetryFailedMessages, <1>0 DEF IInv
<1>17. ASSUME NEW r \in Recipients, NEW i \in Attempts, NEW s \in Reports,
                NEW newer \in BOOLEAN, ProviderReports(r, i, s, newer)
      PROVE  Goal
  BY <1>17, ProviderReportsMessages, <1>0 DEF IInv
<1>18. ASSUME ContactChanges PROVE Goal
  <2>1. Quiet
    BY <1>18 DEF ContactChanges, MessagesKept, LocalsKept
  <2> QED BY <2>1, QuietMessages
<1>19. ASSUME UNCHANGED vars PROVE Goal
  <2>1. Quiet
    BY <1>19 DEF Quiet, MessagesKept, LocalsKept
  <2> QED BY <2>1, QuietMessages
<1>20. Goal
  BY <1>1, <1>2, <1>3, <1>4, <1>5, <1>6, <1>7, <1>8, <1>9, <1>10, <1>11, <1>12, <1>13,
     <1>14, <1>15, <1>16, <1>17, <1>18, <1>19
     DEF Next, ProcessStep
<1> QED BY <1>0, <1>20

LEMMA IInvInit == Init => IInv
<1> SUFFICES ASSUME Init PROVE IInv
  OBVIOUS
<1> USE BroadcastAssumption
<1>1. TypeInv
  BY TypeInvInit
<1>2. MessagesOK
  BY DEF Init, MessagesOK, MessageOK
<1>3. SendersOK /\ OneDispatcher
  BY DEF Init, SendersOK, OneDispatcher, Sending
<1>4. ReadyMeansUnsent
  BY DEF Init, ReadyMeansUnsent, LatestDispatch
<1> QED BY <1>1, <1>2, <1>3, <1>4 DEF IInv

\* The inductive invariant of one dispatch: claims, attempts, deliveries and
\* the sends under way agree in every step of the processors and webhooks.
THEOREM IInvCorrect == Spec => []IInv
<1>1. IInv /\ [Next]_vars => IInv'
  BY IInvStep
<1> QED BY <1>1, IInvInit, PTL DEF Spec

-----------------------------------------------------------------------------
(* The safety properties.                                                  *)

\* No message is handed to the provider twice.
THEOREM AtMostOneCallCorrect == Spec => []AtMostOneCall
<1>1. IInv => AtMostOneCall
  BY DEF IInv, MessagesOK, MessageOK, AtMostOneCall
<1> QED BY <1>1, IInvCorrect, PTL

\* A recipient offered to a claim has nothing the provider could have seen.
THEOREM ReadyMeansUnsentCorrect == Spec => []ReadyMeansUnsent
<1>1. IInv => ReadyMeansUnsent
  BY DEF IInv
<1> QED BY <1>1, IInvCorrect, PTL

\* One worker at most is inside the provider call for a recipient.
THEOREM OneDispatcherCorrect == Spec => []OneDispatcher
<1>1. IInv => OneDispatcher
  BY DEF IInv
<1> QED BY <1>1, IInvCorrect, PTL

\* A customer gets a second message only after a failure of the first: the
\* second attempt was called, so it was authorized, so the first had failed.
THEOREM NoDoubleDeliveryCorrect == Spec => []NoDoubleDelivery
<1>1. IInv => NoDoubleDelivery
  <2> SUFFICES ASSUME IInv, NEW r \in Recipients, NEW i \in Attempts, NEW j \in Attempts,
                      i < j, wire[r][i] = "accepted", wire[r][j] # "none"
               PROVE  "FAILED" \in events[r][i]
    BY DEF NoDoubleDelivery
  <2>1. MessageOK(r, i) /\ MessageOK(r, j) /\ attempts[r] \in Nat
    BY DEF IInv, MessagesOK, TypeInv, TypeOK
  <2>2. ~(attempts[r] < j)
    BY <2>1 DEF MessageOK
  <2>3. i < attempts[r]
    BY <2>1, <2>2
  <2> QED BY <2>1, <2>3 DEF MessageOK
<1> QED BY <1>1, IInvCorrect, PTL

\* The steps that touch the messages or the recorded reports.
LEMMA Movers ==
  ASSUME [Next]_vars
  PROVE  \/ UNCHANGED <<attempts, dispatchState, events>>
         \/ \E w \in Workers : RecoverStaleClaims(w) \/ StartDispatch(w) \/ Reconcile(w)
         \/ \E w \in Workers, S \in SUBSET Recipients : ClaimRecipients(w, S)
         \/ \E u \in Users, S \in SUBSET Recipients : RetryFailed(u, S)
         \/ \E r \in Recipients, i \in Attempts, s \in Reports, newer \in BOOLEAN :
              ProviderReports(r, i, s, newer)
<1> DEFINE Kept == UNCHANGED <<attempts, dispatchState, events>>
<1>1. \A w \in Workers : ReadCandidates(w) => Kept
  BY DEF ReadCandidates
<1>2. \A w \in Workers : ClaimRaises(w) \/ ClaimReplays(w) => Kept
  BY DEF ClaimRaises, ClaimReplays, Abort
<1>3. \A w \in Workers, r \in Recipients : PrepareBlocks(w, r) \/ PreparePlans(w, r) => Kept
  BY DEF PrepareBlocks, PreparePlans
<1>4. \A w \in Workers : PrepareRaises(w) => Kept
  BY DEF PrepareRaises, Abort
<1>5. \A w \in Workers : PrepareSend(w) => Kept
  BY DEF PrepareSend
<1>6. \A w \in Workers : StartBlocks(w) => Kept
  BY DEF StartBlocks
<1>7. \A w \in Workers : CallProvider(w) => Kept
  BY DEF CallProvider
<1>8. \A w \in Workers : FinishBatch(w) \/ Crash(w) => Kept
  BY DEF FinishBatch, Crash
<1>9. \A r \in Recipients : ClaimExpires(r) => Kept
  BY DEF ClaimExpires
<1>10. ContactChanges => Kept
  BY DEF ContactChanges
<1>11. UNCHANGED vars => Kept
  OBVIOUS
<1> HIDE DEF Kept
<1>12. CASE \E w \in Workers : ProcessStep(w) \/ Crash(w)
  BY <1>1, <1>2, <1>3, <1>4, <1>5, <1>6, <1>7, <1>8, <1>12 DEF ProcessStep, Kept
<1> QED
  BY <1>9, <1>10, <1>11, <1>12 DEF Next, Kept

-----------------------------------------------------------------------------
(* Refinement of AttemptLedger.                                            *)

Outcomes == [r \in Recipients |-> [i \in Attempts |-> LedgerOutcome(dispatchState[r][i])]]
Failures == [r \in Recipients |-> [i \in Attempts |-> "FAILED" \in events[r][i]]]

\* The ledger's actions on the variables they are mapped to.
LEMMA LedgerActions ==
  /\ \A S \in SUBSET Recipients :
       /\ \A r \in S : /\ attempts[r] < MaxAttempts
                       /\ \/ attempts[r] = 0
                          \/ Outcomes[r][attempts[r]] = "refused"
                          \/ /\ Outcomes[r][attempts[r]] = "sent"
                             /\ Failures[r][attempts[r]]
       /\ attempts' = [r \in Recipients |-> IF r \in S THEN attempts[r] + 1 ELSE attempts[r]]
       /\ Outcomes' = Outcomes /\ Failures' = Failures
       => Ledger!Next
  /\ \A S \in SUBSET Recipients :
       /\ \A r \in S : attempts[r] > 0 /\ Outcomes[r][attempts[r]] = "started"
       /\ Outcomes' = [r \in Recipients |->
            [i \in Attempts |->
              IF r \in S /\ i = attempts[r] THEN "uncertain" ELSE Outcomes[r][i]]]
       /\ attempts' = attempts /\ Failures' = Failures
       => Ledger!Next
  /\ \A r \in Recipients :
       /\ attempts[r] > 0 /\ Outcomes[r][attempts[r]] = "open"
       /\ Outcomes' = [Outcomes EXCEPT ![r][attempts[r]] = "started"]
       /\ attempts' = attempts /\ Failures' = Failures
       => Ledger!Next
  /\ \A r \in Recipients, i \in Attempts, o \in {"sent", "refused", "uncertain"} :
       /\ Outcomes[r][i] = "started"
       /\ Outcomes' = [Outcomes EXCEPT ![r][i] = o]
       /\ attempts' = attempts /\ Failures' = Failures
       => Ledger!Next
  /\ \A r \in Recipients, i \in Attempts :
       /\ Outcomes[r][i] \notin {"open", "refused"}
       /\ Failures' = [Failures EXCEPT ![r][i] = TRUE]
       /\ attempts' = attempts /\ Outcomes' = Outcomes
       => Ledger!Next
<1> USE DEF Outcomes, Failures, Ledger!Attempts
<1>1. ASSUME NEW S \in SUBSET Recipients,
             \A r \in S : /\ attempts[r] < MaxAttempts
                          /\ \/ attempts[r] = 0
                             \/ Outcomes[r][attempts[r]] = "refused"
                             \/ /\ Outcomes[r][attempts[r]] = "sent"
                                /\ Failures[r][attempts[r]],
             attempts' = [r \in Recipients |-> IF r \in S THEN attempts[r] + 1 ELSE attempts[r]],
             Outcomes' = Outcomes, Failures' = Failures
      PROVE  Ledger!Next
  <2>1. Ledger!AuthorizeSome(S)
    BY <1>1 DEF Ledger!AuthorizeSome, Ledger!Authorize, Ledger!Failed
  <2> QED BY <2>1 DEF Ledger!Next
<1>2. ASSUME NEW S \in SUBSET Recipients,
             \A r \in S : attempts[r] > 0 /\ Outcomes[r][attempts[r]] = "started",
             Outcomes' = [r \in Recipients |->
               [i \in Attempts |->
                 IF r \in S /\ i = attempts[r] THEN "uncertain" ELSE Outcomes[r][i]]],
             attempts' = attempts, Failures' = Failures
      PROVE  Ledger!Next
  <2>1. Ledger!GiveUp(S)
    BY <1>2 DEF Ledger!GiveUp
  <2> QED BY <2>1 DEF Ledger!Next
<1>3. ASSUME NEW r \in Recipients, attempts[r] > 0, Outcomes[r][attempts[r]] = "open",
             Outcomes' = [Outcomes EXCEPT ![r][attempts[r]] = "started"],
             attempts' = attempts, Failures' = Failures
      PROVE  Ledger!Next
  <2>1. Ledger!StartAttempt(r)
    BY <1>3 DEF Ledger!StartAttempt
  <2> QED BY <2>1 DEF Ledger!Next
<1>4. ASSUME NEW r \in Recipients, NEW i \in Attempts, NEW o \in {"sent", "refused", "uncertain"},
             Outcomes[r][i] = "started",
             Outcomes' = [Outcomes EXCEPT ![r][i] = o],
             attempts' = attempts, Failures' = Failures
      PROVE  Ledger!Next
  <2>1. Ledger!Conclude(r, i)
    BY <1>4 DEF Ledger!Conclude
  <2> QED BY <2>1 DEF Ledger!Next
<1>5. ASSUME NEW r \in Recipients, NEW i \in Attempts,
             Outcomes[r][i] \notin {"open", "refused"},
             Failures' = [Failures EXCEPT ![r][i] = TRUE],
             attempts' = attempts, Outcomes' = Outcomes
      PROVE  Ledger!Next
  <2>1. Ledger!ReportFailure(r, i)
    BY <1>5 DEF Ledger!ReportFailure
  <2> QED BY <2>1 DEF Ledger!Next
<1> HIDE DEF Outcomes, Failures
<1> QED BY <1>1, <1>2, <1>3, <1>4, <1>5

LEMMA OutcomeUpdate ==
  ASSUME TypeOK, NEW r \in Recipients, NEW i \in Attempts, NEW d,
         dispatchState' = [dispatchState EXCEPT ![r][i] = d]
  PROVE  Outcomes' = [Outcomes EXCEPT ![r][i] = LedgerOutcome(d)]
<1>1. \A q \in Recipients, j \in Attempts :
        LedgerOutcome(dispatchState'[q][j]) =
          IF q = r /\ j = i THEN LedgerOutcome(d) ELSE LedgerOutcome(dispatchState[q][j])
  <2> TAKE q \in Recipients, j \in Attempts
  <2>1. dispatchState \in [Recipients -> [Attempts -> DispatchStates]]
    BY DEF TypeOK
  <2>2. CASE q = r /\ j = i
    <3>1. dispatchState'[r][i] = d
      BY <2>1
    <3> QED BY <2>2, <3>1
  <2>3. CASE ~(q = r /\ j = i)
    <3>1. dispatchState'[q][j] = dispatchState[q][j]
      BY <2>1, <2>3, UpdateOther
    <3> QED BY <2>3, <3>1
  <2> QED BY <2>2, <2>3
<1>2. Outcomes' = [q \in Recipients |-> [j \in Attempts |->
         IF q = r /\ j = i THEN LedgerOutcome(d) ELSE LedgerOutcome(dispatchState[q][j])]]
  BY Zenon, <1>1 DEF Outcomes
<1> QED BY <1>2 DEF Outcomes

\* Opening a message that did not exist is invisible to the ledger.
LEMMA OutcomesKept ==
  ASSUME \A r \in Recipients, i \in Attempts :
           \/ dispatchState'[r][i] = dispatchState[r][i]
           \/ dispatchState[r][i] = "NONE" /\ dispatchState'[r][i] = "PENDING"
  PROVE  Outcomes' = Outcomes
<1>1. \A r \in Recipients, i \in Attempts :
        LedgerOutcome(dispatchState'[r][i]) = LedgerOutcome(dispatchState[r][i])
  BY DEF LedgerOutcome
<1> QED BY Zenon, <1>1 DEF Outcomes

LEMMA LedgerRecover ==
  ASSUME IInv, NEW w \in Workers, RecoverStaleClaims(w)
  PROVE  Ledger!Next
<1> USE DEF IInv, TypeInv
<1>1. PICK R \in SUBSET Stale :
        dispatchState' =
          [r \in Recipients |->
            [i \in Attempts |->
              IF r \in R /\ i = attempts[r]
              THEN RecoveredDispatch(dispatchState[r][i]) ELSE dispatchState[r][i]]]
  BY DEF RecoverStaleClaims
<1> DEFINE G == {r \in R : attempts[r] > 0 /\ dispatchState[r][attempts[r]] = "IN_PROGRESS"}
<1>2. G \in SUBSET Recipients
  BY DEF Stale
<1>3. \A r \in G : attempts[r] > 0 /\ Outcomes[r][attempts[r]] = "started"
  BY <1>2 DEF Outcomes, LedgerOutcome, TypeOK
<1>4. \A r \in Recipients, i \in Attempts :
        LedgerOutcome(dispatchState'[r][i]) =
          IF r \in G /\ i = attempts[r] THEN "uncertain" ELSE Outcomes[r][i]
  BY <1>1 DEF Outcomes, LedgerOutcome, RecoveredDispatch, TypeOK
<1>5. Outcomes' = [r \in Recipients |->
        [i \in Attempts |->
          IF r \in G /\ i = attempts[r] THEN "uncertain" ELSE Outcomes[r][i]]]
  BY Zenon, <1>4 DEF Outcomes
<1>6. attempts' = attempts /\ Failures' = Failures
  BY DEF RecoverStaleClaims, Failures
<1> HIDE DEF G
<1> QED BY <1>2, <1>3, <1>5, <1>6, LedgerActions

LEMMA LedgerClaim ==
  ASSUME IInv, NEW w \in Workers, NEW S \in SUBSET Recipients, ClaimRecipients(w, S)
  PROVE  Ledger!Next
<1> USE BroadcastAssumption DEF IInv, TypeInv, TypeOK
<1> DEFINE A == {r \in S : attempts[r] = 0}
<1>1. \A r \in A : attempts[r] < MaxAttempts /\ attempts[r] = 0
  OBVIOUS
<1>2. attempts' = [r \in Recipients |-> IF r \in A THEN attempts[r] + 1 ELSE attempts[r]]
  BY DEF ClaimRecipients
<1>3. \A r \in Recipients, i \in Attempts :
        \/ dispatchState'[r][i] = dispatchState[r][i]
        \/ dispatchState[r][i] = "NONE" /\ dispatchState'[r][i] = "PENDING"
  BY DEF ClaimRecipients, MessagesOK, MessageOK
<1>4. Outcomes' = Outcomes
  BY <1>3, OutcomesKept
<1>5. Failures' = Failures
  BY DEF ClaimRecipients, Failures
<1>6. A \in SUBSET Recipients
  OBVIOUS
<1> HIDE DEF A
<1> QED BY <1>1, <1>2, <1>4, <1>5, <1>6, LedgerActions

LEMMA LedgerStart ==
  ASSUME IInv, NEW w \in Workers, StartDispatch(w)
  PROVE  Ledger!Next \/ UNCHANGED <<attempts, dispatchState, events>>
<1> USE DEF IInv, TypeInv
<1>1. /\ current[w] \in Recipients /\ attempt[w] \in Attempts
      /\ attempts[current[w]] = attempt[w]
  BY SenderFacts DEF StartDispatch, MayStart, Busy
<1>2. attempts' = attempts /\ Failures' = Failures /\ events' = events
  BY DEF StartDispatch, Failures
<1>3. CASE dispatchState[current[w]][attempt[w]] = "PENDING"
  <2>1. dispatchState' = [dispatchState EXCEPT ![current[w]][attempt[w]] = "IN_PROGRESS"]
    BY <1>3 DEF StartDispatch
  <2>2. Outcomes' = [Outcomes EXCEPT ![current[w]][attempts[current[w]]] = "started"]
    BY <1>1, <2>1, OutcomeUpdate, LedgerOutcome("IN_PROGRESS") = "started" DEF LedgerOutcome
  <2>3. attempts[current[w]] > 0 /\ Outcomes[current[w]][attempts[current[w]]] = "open"
    BY <1>1, <1>3 DEF Outcomes, LedgerOutcome
  <2> QED BY <1>1, <1>2, <2>2, <2>3, LedgerActions
<1>4. CASE dispatchState[current[w]][attempt[w]] # "PENDING"
  BY <1>2, <1>4 DEF StartDispatch
<1> QED BY <1>3, <1>4

LEMMA LedgerReconcile ==
  ASSUME IInv, NEW w \in Workers, Reconcile(w)
  PROVE  Ledger!Next \/ UNCHANGED <<attempts, dispatchState, events>>
<1> USE DEF IInv, TypeInv
<1>1. current[w] \in Recipients /\ attempt[w] \in Attempts
  BY SenderFacts DEF Reconcile, Busy
<1>2. attempts' = attempts /\ Failures' = Failures /\ events' = events
  BY DEF Reconcile, Failures
<1>3. CASE dispatchState[current[w]][attempt[w]] = "IN_PROGRESS"
  <2>1. dispatchState' = [dispatchState EXCEPT ![current[w]][attempt[w]] = AnswerState(answer[w])]
    BY <1>3 DEF Reconcile
  <2>2. LedgerOutcome(AnswerState(answer[w])) \in {"sent", "refused", "uncertain"}
    BY DEF LedgerOutcome, AnswerState
  <2>3. Outcomes' = [Outcomes EXCEPT ![current[w]][attempt[w]] =
                       LedgerOutcome(AnswerState(answer[w]))]
    <3> DEFINE d == AnswerState(answer[w])
    <3>1. dispatchState' = [dispatchState EXCEPT ![current[w]][attempt[w]] = d]
      BY <2>1
    <3> HIDE DEF d
    <3>2. Outcomes' = [Outcomes EXCEPT ![current[w]][attempt[w]] = LedgerOutcome(d)]
      BY <1>1, <3>1, OutcomeUpdate
    <3> QED BY <3>2 DEF d
  <2>4. Outcomes[current[w]][attempt[w]] = "started"
    BY <1>1, <1>3 DEF Outcomes, LedgerOutcome
  <2> QED BY <1>1, <1>2, <2>2, <2>3, <2>4, LedgerActions
<1>4. CASE dispatchState[current[w]][attempt[w]] # "IN_PROGRESS"
  BY <1>2, <1>4 DEF Reconcile
<1> QED BY <1>3, <1>4

LEMMA LedgerRetry ==
  ASSUME IInv, NEW u \in Users, NEW S \in SUBSET Recipients, RetryFailed(u, S)
  PROVE  Ledger!Next
<1> USE BroadcastAssumption DEF IInv, TypeInv
<1>1. \A r \in S : attempts[r] \in Attempts /\ attempts[r] < MaxAttempts
  BY DEF RetryFailed, Retryable, LatestDispatch, LatestProvider, TypeOK
<1>2. \A r \in S : \/ Outcomes[r][attempts[r]] = "refused"
                   \/ Outcomes[r][attempts[r]] = "sent" /\ Failures[r][attempts[r]]
  <2> TAKE r \in S
  <2>1. MessageOK(r, attempts[r])
    BY <1>1 DEF MessagesOK
  <2>2. \/ dispatchState[r][attempts[r]] = "DEFINITIVE_FAILED"
        \/ providerState[r][attempts[r]] = "FAILED"
    BY <1>1 DEF RetryFailed, Retryable, LatestDispatch, LatestProvider
  <2>3. \/ dispatchState[r][attempts[r]] = "DEFINITIVE_FAILED"
        \/ /\ dispatchState[r][attempts[r]] = "ACCEPTED"
           /\ "FAILED" \in events[r][attempts[r]]
    BY <2>1, <2>2 DEF MessageOK
  <2> QED BY <1>1, <2>3 DEF Outcomes, Failures, LedgerOutcome
<1>3. attempts' = [r \in Recipients |-> IF r \in S THEN attempts[r] + 1 ELSE attempts[r]]
  BY DEF RetryFailed
<1>4. \A r \in Recipients, i \in Attempts :
        \/ dispatchState'[r][i] = dispatchState[r][i]
        \/ dispatchState[r][i] = "NONE" /\ dispatchState'[r][i] = "PENDING"
  BY <1>1 DEF RetryFailed, MessagesOK, MessageOK, TypeOK
<1>5. Outcomes' = Outcomes
  BY <1>4, OutcomesKept
<1>6. Failures' = Failures
  BY DEF RetryFailed, Failures
<1> QED BY <1>1, <1>2, <1>3, <1>5, <1>6, LedgerActions

LEMMA LedgerReport ==
  ASSUME IInv, NEW r \in Recipients, NEW i \in Attempts, NEW s \in Reports,
         NEW newer \in BOOLEAN, ProviderReports(r, i, s, newer)
  PROVE  Ledger!Next \/ UNCHANGED <<attempts, Outcomes, Failures>>
<1> USE DEF IInv, TypeInv
<1>1. attempts' = attempts /\ Outcomes' = Outcomes
  BY DEF ProviderReports, Outcomes
<1>2. events' = [events EXCEPT ![r][i] = events[r][i] \cup {s}]
  BY DEF ProviderReports, TypeOK
<1>3. \A q \in Recipients, j \in Attempts :
        "FAILED" \in events'[q][j] <=>
          ("FAILED" \in events[q][j]) \/ (q = r /\ j = i /\ s = "FAILED")
  <2> SUFFICES ASSUME NEW q \in Recipients, NEW j \in Attempts
               PROVE  "FAILED" \in events'[q][j] <=>
                        ("FAILED" \in events[q][j]) \/ (q = r /\ j = i /\ s = "FAILED")
    OBVIOUS
  <2>1. events \in [Recipients -> [Attempts -> SUBSET DeliveryStates]]
    BY DEF TypeOK
  <2>2. CASE q = r /\ j = i
    <3>1. events'[r][i] = events[r][i] \cup {s}
      BY <1>2, <2>1
    <3> QED BY <2>2, <3>1
  <2>3. CASE ~(q = r /\ j = i)
    <3>1. events'[q][j] = events[q][j]
      BY <1>2, <2>1, <2>3, UpdateOther
    <3> QED BY <2>3, <3>1
  <2> QED BY <2>2, <2>3
<1>4. CASE s = "FAILED"
  <2>1. Outcomes[r][i] \notin {"open", "refused"}
    <3>1. MessageOK(r, i) /\ wire[r][i] = "accepted"
      BY DEF MessagesOK, ProviderReports
    <3>2. dispatchState[r][i] \notin {"NONE", "PENDING", "DEFINITIVE_FAILED"}
      BY <3>1 DEF MessageOK
    <3> QED BY <3>2 DEF Outcomes, LedgerOutcome
  <2>2. Failures' = [q \in Recipients |-> [j \in Attempts |->
                       IF q = r /\ j = i THEN TRUE ELSE "FAILED" \in events[q][j]]]
    <3>1. \A q \in Recipients, j \in Attempts :
            ("FAILED" \in events'[q][j]) =
              (IF q = r /\ j = i THEN TRUE ELSE "FAILED" \in events[q][j])
      <4> TAKE q \in Recipients, j \in Attempts
      <4>1. CASE q = r /\ j = i
        <5>1. "FAILED" \in events'[q][j]
          BY <1>3, <1>4, <4>1
        <5> QED BY Zenon, <4>1, <5>1
      <4>2. CASE ~(q = r /\ j = i)
        <5>1. ("FAILED" \in events'[q][j]) = ("FAILED" \in events[q][j])
          BY <1>3, <4>2
        <5> QED BY <4>2, <5>1
      <4> QED BY <4>1, <4>2
    <3> QED BY Zenon, <3>1 DEF Failures
  <2>3. Failures' = [Failures EXCEPT ![r][i] = TRUE]
    BY <2>2 DEF Failures
  <2> QED BY <1>1, <2>1, <2>3, LedgerActions
<1>5. CASE s # "FAILED"
  <2>1. \A q \in Recipients, j \in Attempts :
          ("FAILED" \in events'[q][j]) = ("FAILED" \in events[q][j])
    BY <1>3, <1>5
  <2>2. Failures' = Failures
    BY Zenon, <2>1 DEF Failures
  <2> QED BY <1>1, <2>2
<1> QED BY <1>4, <1>5

\* Broadcast processing implements the abstract ledger of attempts: one
\* recipient's messages are authorized, started, concluded and retried as
\* AttemptLedger allows, whatever the workers, crashes and webhooks do.
THEOREM ImplementsLedgerCorrect == Spec => ImplementsLedger
<1>1. Init => Ledger!Init
  <2> SUFFICES ASSUME Init PROVE Ledger!Init
    OBVIOUS
  <2>1. LedgerOutcome("NONE") = "open"
    BY DEF LedgerOutcome
  <2>2. Outcomes = [r \in Recipients |-> [i \in Attempts |-> "open"]]
    BY <2>1 DEF Init, Outcomes
  <2>3. Failures = [r \in Recipients |-> [i \in Attempts |-> FALSE]]
    <3>1. \A r \in Recipients, i \in Attempts : ("FAILED" \in events[r][i]) = FALSE
      BY DEF Init
    <3> QED BY Zenon, <3>1 DEF Failures
  <2> QED BY <2>2, <2>3 DEF Init, Ledger!Init, Ledger!Attempts, Outcomes, Failures
<1>2. IInv /\ [Next]_vars => [Ledger!Next]_(Ledger!vars)
  <2> SUFFICES ASSUME IInv, [Next]_vars
               PROVE  Ledger!Next \/ UNCHANGED <<attempts, Outcomes, Failures>>
    BY DEF Ledger!vars, Outcomes, Failures, Ledger!Attempts
  <2>1. CASE UNCHANGED <<attempts, dispatchState, events>>
    BY <2>1 DEF Outcomes, Failures
  <2>2. CASE \E w \in Workers : RecoverStaleClaims(w) \/ StartDispatch(w) \/ Reconcile(w)
    BY <2>1, <2>2, LedgerRecover, LedgerStart, LedgerReconcile
  <2>3. CASE \E w \in Workers, S \in SUBSET Recipients : ClaimRecipients(w, S)
    BY <2>3, LedgerClaim
  <2>4. CASE \E u \in Users, S \in SUBSET Recipients : RetryFailed(u, S)
    BY <2>4, LedgerRetry
  <2>5. CASE \E r \in Recipients, i \in Attempts, s \in Reports, newer \in BOOLEAN :
               ProviderReports(r, i, s, newer)
    BY <2>5, LedgerReport
  <2> QED BY <2>1, <2>2, <2>3, <2>4, <2>5, Movers
<1> QED
  BY <1>1, <1>2, IInvCorrect, PTL DEF Spec, ImplementsLedger, Ledger!Spec
-----------------------------------------------------------------------------
(* While no claim has expired under a worker that still holds it.          *)

Holding == Busy \cup {"next"}

Projected(r) ==
  attempts[r] > 0 =>
    \/ status[r] = RecipientStatus(LatestDispatch(r), LatestProvider(r), claim[r] # NoOne)
    \/ status[r] = "BLOCKED" /\ LatestDispatch(r) = "PENDING"

\* The claim of w on r is good, and the latest message is as w knows it.
Held(w, r) ==
  /\ claim[r] = w /\ r \notin expired /\ status[r] = "IN_PROGRESS"
  /\ LatestDispatch(r) =
       IF step[w] \in Sending /\ r = current[w] THEN "IN_PROGRESS" ELSE "PENDING"

HoldsOK(w) ==
  /\ step[w] \in Holding => \A r \in todo[w] : Held(w, r)
  /\ step[w] \in Busy => attempt[w] = attempts[current[w]]

Calm == (\A r \in Recipients : Projected(r)) /\ (\A w \in Workers : HoldsOK(w))

\* Every claim is held by the worker that took it, so that nobody else moves the
\* recipient between two transactions of that worker.
CalmInv == IInv /\ (slow = 0 => Calm)

RowKept(r) ==
  /\ attempts'[r] = attempts[r] /\ status'[r] = status[r] /\ claim'[r] = claim[r]
  /\ r \in expired' => r \in expired
  /\ LatestDispatch(r)' = LatestDispatch(r) /\ LatestProvider(r)' = LatestProvider(r)

LEMMA ProjectedKept ==
  ASSUME NEW r \in Recipients, Projected(r), RowKept(r) PROVE Projected(r)'
BY DEF Projected, RowKept

LEMMA NotHolding ==
  ASSUME NEW v \in Workers, step'[v] \in {"idle", "candidates", "claim"} PROVE HoldsOK(v)'
<1>1. step'[v] \notin Holding /\ step'[v] \notin Busy
  BY DEF Holding, Busy
<1> QED BY <1>1 DEF HoldsOK

\* A worker between two recipients holds those it has not handled.
LEMMA NextHolds ==
  ASSUME NEW v \in Workers, step'[v] = "next",
         \A r \in todo'[v] : /\ claim'[r] = v /\ r \notin expired'
                             /\ status'[r] = "IN_PROGRESS" /\ LatestDispatch(r)' = "PENDING"
  PROVE  HoldsOK(v)'
<1>1. step'[v] \notin Sending /\ step'[v] \notin Busy
  BY DEF Sending, Busy
<1>2. \A r \in todo'[v] : Held(v, r)'
  BY <1>1 DEF Held
<1> QED BY <1>1, <1>2 DEF HoldsOK

\* What a worker between two recipients holds.
LEMMA HeldNext ==
  ASSUME Calm, NEW v \in Workers, step[v] \in {"next", "prepare", "start"}, NEW r \in todo[v]
  PROVE  /\ claim[r] = v /\ r \notin expired
         /\ status[r] = "IN_PROGRESS" /\ LatestDispatch(r) = "PENDING"
<1>1. step[v] \in Holding /\ step[v] \notin Sending
  BY DEF Holding, Busy, Sending
<1> QED BY <1>1 DEF Calm, HoldsOK, Held

LEMMA HoldsKept ==
  ASSUME TypeInv, NEW v \in Workers, HoldsOK(v), LocalsKept(v),
         step[v] \in Holding => \A r \in todo[v] : RowKept(r)
  PROVE  HoldsOK(v)'
<1>1. ASSUME step[v] \in Holding, NEW r \in todo[v] PROVE Held(v, r)'
  BY <1>1 DEF HoldsOK, Held, LocalsKept, RowKept, Sending
<1>2. ASSUME step[v] \in Busy PROVE attempt'[v] = attempts'[current'[v]]
  <2>1. current[v] \in todo[v]
    BY <1>2 DEF TypeInv, WorkersOK, WorkerOK
  <2> QED BY <1>2, <2>1 DEF HoldsOK, LocalsKept, RowKept, Holding
<1> QED BY <1>1, <1>2 DEF HoldsOK, LocalsKept

\* A message that was not accepted has no delivery state.
LEMMA NoProvider ==
  ASSUME IInv, NEW r \in Recipients, LatestDispatch(r) # "ACCEPTED"
  PROVE  LatestProvider(r) = "NONE"
<1>1. CASE attempts[r] = 0
  BY <1>1 DEF LatestProvider
<1>2. CASE attempts[r] # 0
  <2>1. attempts[r] \in Attempts
    BY <1>2 DEF IInv, TypeInv, TypeOK
  <2>2. MessageOK(r, attempts[r])
    BY <2>1 DEF IInv, MessagesOK
  <2> QED BY <1>2, <2>2 DEF LatestDispatch, LatestProvider, MessageOK
<1> QED BY <1>1, <1>2

LEMMA HeldElsewhere ==
  ASSUME Calm, NEW w \in Workers, NEW v \in Workers \ {w}, step[w] \in Holding,
         step[v] \in Holding, NEW r \in todo[w]
  PROVE  r \notin todo[v]
BY DEF Calm, HoldsOK, Held

\* A step of w that changes only rows which no other worker holds.
LEMMA CalmStep ==
  ASSUME TypeInv, Calm, NEW M,
         \A r \in Recipients \ M : RowKept(r), \A r \in Recipients \cap M : Projected(r)',
         \A v \in Workers : HoldsOK(v)' \/ (LocalsKept(v) /\ (step[v] \in Holding => todo[v] \cap M = {}))
  PROVE  Calm'
<1>1. ASSUME NEW r \in Recipients PROVE Projected(r)'
  BY ProjectedKept DEF Calm
<1>2. ASSUME NEW v \in Workers PROVE HoldsOK(v)'
  <2>1. todo[v] \subseteq Recipients
    BY DEF TypeInv, TypeOK
  <2>2. CASE LocalsKept(v) /\ (step[v] \in Holding => todo[v] \cap M = {})
    <3>1. step[v] \in Holding => \A r \in todo[v] : RowKept(r)
      BY <2>1, <2>2
    <3> QED BY <2>2, <3>1, HoldsKept DEF Calm
  <2> QED BY <2>2
<1> QED BY <1>1, <1>2 DEF Calm

\* A step of w on the row of one recipient it holds.
LEMMA OwnRow ==
  ASSUME TypeInv, Calm, NEW w \in Workers, step[w] \in Holding, NEW r \in todo[w],
         \A q \in Recipients \ {r} : RowKept(q), Projected(r)',
         HoldsOK(w)', \A v \in Workers \ {w} : LocalsKept(v)
  PROVE  Calm'
<1>1. \A q \in Recipients \cap {r} : Projected(q)'
  OBVIOUS
<1>2. \A v \in Workers :
        HoldsOK(v)' \/ (LocalsKept(v) /\ (step[v] \in Holding => todo[v] \cap {r} = {}))
  BY HeldElsewhere
<1> QED BY <1>1, <1>2, CalmStep

\* The rows of a step that changes none, but may let claims expire nobody holds.
RowsQuiet ==
  UNCHANGED <<attempts, status, claim, expired, dispatchState, providerState>>

LEMMA KeptCalm ==
  ASSUME TypeInv, Calm, \A r \in Recipients : RowKept(r),
         \A v \in Workers : HoldsOK(v)' \/ LocalsKept(v)
  PROVE  Calm'
<1> DEFINE M == {}
<1>1. \A r \in Recipients \ M : RowKept(r)
  OBVIOUS
<1>2. \A r \in Recipients \cap M : Projected(r)'
  OBVIOUS
<1>3. \A v \in Workers :
        HoldsOK(v)' \/ (LocalsKept(v) /\ (step[v] \in Holding => todo[v] \cap M = {}))
  OBVIOUS
<1> HIDE DEF M
<1> QED BY <1>1, <1>2, <1>3, CalmStep

LEMMA QuietCalm ==
  ASSUME TypeInv, Calm, RowsQuiet, \A v \in Workers : HoldsOK(v)' \/ LocalsKept(v)
  PROVE  Calm'
<1>1. \A r \in Recipients : RowKept(r)
  BY DEF RowsQuiet, RowKept, LatestDispatch, LatestProvider
<1> QED BY <1>1, KeptCalm

\* Nobody is newly blocked.
BlockedKept == \A r \in Recipients : status'[r] = "BLOCKED" => status[r] = "BLOCKED"

LEMMA RecoverStaleClaimsCalm ==
  ASSUME IInv, Calm, NEW w \in Workers, RecoverStaleClaims(w) PROVE Calm'
<1> TypeInv /\ TypeOK
  BY DEF IInv, TypeInv
<1>1. PICK R \in SUBSET Stale :
        /\ status' = [r \in Recipients |-> IF r \in R THEN RecoveredStatus(r) ELSE status[r]]
        /\ claim' = [r \in Recipients |-> IF r \in R /\ Cleared(r) THEN NoOne ELSE claim[r]]
        /\ expired' = expired \ {r \in R : Cleared(r)}
        /\ dispatchState' =
             [r \in Recipients |->
               [i \in Attempts |->
                 IF r \in R /\ i = attempts[r]
                 THEN RecoveredDispatch(dispatchState[r][i]) ELSE dispatchState[r][i]]]
  BY DEF RecoverStaleClaims
<1>2. UNCHANGED <<attempts, providerState, todo, current, attempt, answer>>
      /\ step' = [step EXCEPT ![w] = "candidates"]
  BY DEF RecoverStaleClaims
<1>3. ASSUME NEW r \in Recipients, attempts[r] # 0
      PROVE  attempts[r] \in Attempts /\ LatestProvider(r)' = LatestProvider(r)
  BY <1>2, <1>3 DEF TypeOK, LatestProvider
<1>4. \A r \in Recipients \ R : RowKept(r)
  <2> SUFFICES ASSUME NEW r \in Recipients \ R PROVE RowKept(r)
    OBVIOUS
  <2>1. status'[r] = status[r] /\ claim'[r] = claim[r] /\ (r \in expired' => r \in expired)
    BY <1>1
  <2>2. \A i \in Attempts : dispatchState'[r][i] = dispatchState[r][i]
    BY <1>1
  <2> QED BY <1>2, <1>3, <2>1, <2>2 DEF RowKept, LatestDispatch, LatestProvider
<1>5. \A r \in Recipients \cap R : Projected(r)'
  <2> SUFFICES ASSUME NEW r \in Recipients \cap R, attempts[r] # 0 PROVE Projected(r)'
    BY <1>2 DEF Projected
  <2>1. LatestDispatch(r)' = RecoveredDispatch(LatestDispatch(r))
    BY <1>1, <1>2, <1>3 DEF LatestDispatch
  <2>2. /\ status'[r] = RecoveredStatus(r)
        /\ claim'[r] = IF Cleared(r) THEN NoOne ELSE claim[r]
    BY <1>1
  <2>3. CASE Unsent(r)
    <3>1. LatestProvider(r) = "NONE" /\ LatestDispatch(r) = "PENDING"
      <4>1. MessageOK(r, attempts[r]) /\ attempts[r] \in Nat
        BY <1>3 DEF IInv, MessagesOK, TypeOK
      <4> QED BY <2>3, <4>1, NoProvider DEF Unsent, MessageOK, LatestDispatch
    <3> QED BY <1>3, <2>1, <2>2, <2>3, <3>1
            DEF Projected, RecoveredStatus, Cleared, RecoveredDispatch, RecipientStatus
  <2>4. CASE ~Unsent(r)
    <3>1. status'[r] = RecipientStatus(LatestDispatch(r)', LatestProvider(r)', claim'[r] # NoOne)
      BY <1>3, <2>1, <2>2, <2>4 DEF RecoveredStatus, Cleared
    <3> QED BY <3>1 DEF Projected
  <2> QED BY <2>3, <2>4
<1>6. \A v \in Workers : HoldsOK(v)' \/ (LocalsKept(v) /\ (step[v] \in Holding => todo[v] \cap R = {}))
  <2> SUFFICES ASSUME NEW v \in Workers
               PROVE  HoldsOK(v)' \/ (LocalsKept(v) /\ (step[v] \in Holding => todo[v] \cap R = {}))
    OBVIOUS
  <2>1. CASE v = w
    <3>1. step'[v] = "candidates"
      BY <1>2, <2>1 DEF TypeOK
    <3> QED BY <3>1, NotHolding
  <2>2. CASE v # w
    <3>1. LocalsKept(v)
      BY <2>2, OtherLocals DEF ProcessStep
    <3>2. step[v] \in Holding => todo[v] \cap R = {}
      BY DEF Calm, HoldsOK, Held, Stale
    <3> QED BY <3>1, <3>2
  <2> QED BY <2>1, <2>2
<1> QED BY <1>4, <1>5, <1>6, CalmStep

LEMMA ClaimRecipientsCalm ==
  ASSUME IInv, Calm, NEW w \in Workers, NEW S \in SUBSET Recipients, ClaimRecipients(w, S)
  PROVE  Calm' /\ BlockedKept
<1> TypeInv /\ TypeOK
  BY DEF IInv, TypeInv
<1> USE BroadcastAssumption
<1>1. \A r \in S : status[r] = "READY" /\ Unsent(r)
  BY DEF ClaimRecipients, Claimable, IInv, ReadyMeansUnsent, Unsent
<1>2. {r \in S : Unsent(r)} = S
  BY <1>1
<1>3. /\ status' = [r \in Recipients |->
           IF r \in S THEN "IN_PROGRESS" ELSE IF r \in S THEN "BLOCKED" ELSE status[r]]
      /\ claim' = [r \in Recipients |->
           IF r \in S THEN w ELSE IF r \in S THEN NoOne ELSE claim[r]]
      /\ expired' = expired \ S
      /\ attempts' = [r \in Recipients |-> IF r \in S /\ attempts[r] = 0 THEN 1 ELSE attempts[r]]
      /\ dispatchState' =
           [r \in Recipients |->
             [i \in Attempts |->
               IF r \in S /\ attempts[r] = 0 /\ i = 1 THEN "PENDING" ELSE dispatchState[r][i]]]
      /\ todo' = [todo EXCEPT ![w] = S]
      /\ step' = [step EXCEPT ![w] = "next"]
      /\ UNCHANGED <<providerState, current, attempt, answer>>
  BY <1>2 DEF ClaimRecipients
<1>4. \A r \in Recipients \ S : RowKept(r)
  <2> SUFFICES ASSUME NEW r \in Recipients \ S PROVE RowKept(r)
    OBVIOUS
  <2>1. /\ status'[r] = status[r] /\ claim'[r] = claim[r] /\ attempts'[r] = attempts[r]
        /\ r \in expired' => r \in expired
    BY <1>3
  <2>2. \A i \in Attempts : dispatchState'[r][i] = dispatchState[r][i]
    BY <1>3
  <2>3. attempts[r] # 0 => attempts[r] \in Attempts
    BY DEF TypeOK
  <2> QED BY <1>3, <2>1, <2>2, <2>3 DEF RowKept, LatestDispatch, LatestProvider
<1>5. ASSUME NEW r \in S
      PROVE  /\ status'[r] = "IN_PROGRESS" /\ claim'[r] = w /\ r \notin expired'
             /\ attempts'[r] # 0
             /\ LatestDispatch(r)' = "PENDING" /\ LatestProvider(r)' = "NONE"
  <2>1. status'[r] = "IN_PROGRESS" /\ claim'[r] = w /\ r \notin expired'
    BY <1>3
  <2>2. attempts[r] \in 0..MaxAttempts /\ 1 \in Attempts
    BY DEF TypeOK
  <2>3. CASE attempts[r] = 0
    <3>1. attempts'[r] = 1 /\ dispatchState'[r][1] = "PENDING"
      BY <1>3, <2>2, <2>3
    <3>2. dispatchState[r][1] = "NONE" /\ MessageOK(r, 1)
      BY <2>2, <2>3 DEF IInv, MessagesOK, MessageOK
    <3>3. providerState[r][1] = "NONE"
      BY <3>2 DEF MessageOK
    <3> QED BY <1>3, <2>1, <3>1, <3>3 DEF LatestDispatch, LatestProvider
  <2>4. CASE attempts[r] # 0
    <3>1. attempts'[r] = attempts[r] /\ attempts[r] \in Attempts
      BY <1>3, <2>2, <2>4
    <3>2. dispatchState'[r][attempts[r]] = dispatchState[r][attempts[r]]
      BY <1>3, <2>4, <3>1
    <3>3. dispatchState[r][attempts[r]] # "NONE"
      BY <2>2, <3>1 DEF IInv, MessagesOK, MessageOK
    <3>4. dispatchState[r][attempts[r]] = "PENDING" /\ LatestDispatch(r) = "PENDING"
      BY <1>1, <2>4, <3>3 DEF Unsent, LatestDispatch
    <3>5. LatestProvider(r) = "NONE"
      BY <3>4, NoProvider
    <3> QED BY <1>3, <2>1, <2>4, <3>1, <3>2, <3>4, <3>5 DEF LatestDispatch, LatestProvider
  <2> QED BY <2>3, <2>4
<1>6. \A r \in Recipients \cap S : Projected(r)'
  BY <1>5 DEF Projected, RecipientStatus
<1>7. \A v \in Workers : HoldsOK(v)' \/ (LocalsKept(v) /\ (step[v] \in Holding => todo[v] \cap S = {}))
  <2> SUFFICES ASSUME NEW v \in Workers
               PROVE  HoldsOK(v)' \/ (LocalsKept(v) /\ (step[v] \in Holding => todo[v] \cap S = {}))
    OBVIOUS
  <2>1. CASE v = w
    <3>1. step'[v] = "next" /\ todo'[v] = S
      BY <1>3, <2>1 DEF TypeOK
    <3> QED BY <1>5, <2>1, <3>1, NextHolds
  <2>2. CASE v # w
    <3>1. LocalsKept(v)
      BY <2>2, OtherLocals DEF ProcessStep
    <3>2. ASSUME step[v] \in Holding, NEW q \in todo[v] \cap S PROVE FALSE
      <4>1. status[q] = "IN_PROGRESS"
        BY <3>2 DEF Calm, HoldsOK, Held
      <4> QED BY <1>1, <4>1
    <3> QED BY <3>1, <3>2
  <2> QED BY <2>1, <2>2
<1>8. Calm'
  BY <1>4, <1>6, <1>7, CalmStep
<1> QED BY <1>3, <1>8 DEF BlockedKept

\* A worker blocks a recipient it holds, whose message it has not started.
LEMMA BlockCalm ==
  ASSUME IInv, Calm, NEW w \in Workers, step[w] \in Holding, NEW r \in todo[w], Block(r),
         LatestDispatch(r) = "PENDING", UNCHANGED <<attempts, dispatchState, providerState>>,
         \A v \in Workers \ {w} : LocalsKept(v),
         step'[w] = "next", todo'[w] = todo[w] \ {r}, step[w] \in {"next", "start"}
  PROVE  Calm'
<1> TypeInv /\ TypeOK
  BY DEF IInv, TypeInv
<1>1. r \in Recipients
  BY DEF TypeOK
<1>2. \A q \in Recipients \ {r} : RowKept(q)
  BY <1>1 DEF Block, RowKept, TypeOK, LatestDispatch, LatestProvider
<1>3. \A q \in Recipients \cap {r} : Projected(q)'
  <2>1. status'[r] = "BLOCKED" /\ LatestDispatch(r)' = "PENDING"
    BY <1>1 DEF Block, TypeOK, LatestDispatch
  <2> QED BY <2>1 DEF Projected
<1>4. ASSUME NEW v \in Workers
      PROVE  HoldsOK(v)' \/ (LocalsKept(v) /\ (step[v] \in Holding => todo[v] \cap {r} = {}))
  <2>1. CASE v = w
    <3>1. step'[v] = "next" /\ \A q \in todo'[v] : q \in todo[v] /\ RowKept(q)
      BY <1>2, <2>1 DEF TypeOK
    <3>2. ASSUME NEW q \in todo'[v]
          PROVE  /\ claim'[q] = v /\ q \notin expired'
                 /\ status'[q] = "IN_PROGRESS" /\ LatestDispatch(q)' = "PENDING"
      BY <2>1, <3>1, HeldNext DEF RowKept
    <3> QED BY <3>1, <3>2, NextHolds
  <2>2. CASE v # w
    BY <2>2, HeldElsewhere
  <2> QED BY <2>1, <2>2
<1> QED BY <1>2, <1>3, <1>4, CalmStep

LEMMA PrepareBlocksCalm ==
  ASSUME IInv, Calm, NEW w \in Workers, NEW r \in Recipients, PrepareBlocks(w, r)
  PROVE  /\ Calm'
         /\ step[w] = "next" /\ r \in todo[w]
         /\ ~template[w] \/ ~reachable[r] \/ r \notin consentSeen[w]
<1>1. /\ step[w] = "next" /\ r \in todo[w] /\ Block(r) /\ ~Dispatchable(w, r)
      /\ UNCHANGED <<attempts, dispatchState, providerState, step>>
      /\ todo' = [todo EXCEPT ![w] = @ \ {r}]
  BY DEF PrepareBlocks
<1>2. LatestDispatch(r) = "PENDING"
  BY <1>1, HeldNext
<1>3. step'[w] = "next" /\ todo'[w] = todo[w] \ {r}
  BY <1>1 DEF IInv, TypeInv, TypeOK
<1>4. \A v \in Workers \ {w} : LocalsKept(v)
  BY OtherLocals DEF ProcessStep, IInv, TypeInv
<1>5. Calm'
  BY <1>1, <1>2, <1>3, <1>4, BlockCalm DEF Holding
<1> QED BY <1>1, <1>2, <1>5 DEF Dispatchable, ReadsPending

LEMMA StartBlocksCalm ==
  ASSUME IInv, Calm, NEW w \in Workers, StartBlocks(w)
  PROVE  /\ Calm'
         /\ current[w] \in Recipients
         /\ \/ ~reachable[current[w]] \/ ~optedIn[current[w]]
            \/ conversation[current[w]] = "foreign"
<1> DEFINE r == current[w]
<1>1. /\ step[w] = "start" /\ Block(r) /\ ~MayStart(w, r) /\ NextRecipient(w)
      /\ UNCHANGED <<attempts, dispatchState, providerState>>
  BY DEF StartBlocks
<1>2. r \in todo[w] /\ r \in Recipients
  BY <1>1, SenderFacts DEF IInv, TypeInv, WorkersOK, WorkerOK, Busy
<1>3. attempt[w] = attempts[r]
  BY <1>1, <1>2 DEF Calm, HoldsOK, Busy
<1>4. LatestDispatch(r) = "PENDING" /\ status[r] = "IN_PROGRESS"
  BY <1>1, <1>2, HeldNext
<1>5. step'[w] = "next" /\ todo'[w] = todo[w] \ {r}
  BY <1>1 DEF NextRecipient, IInv, TypeInv, TypeOK
<1>6. \A v \in Workers \ {w} : LocalsKept(v)
  BY OtherLocals DEF ProcessStep, IInv, TypeInv
<1> HIDE DEF r
<1>7. Calm'
  BY <1>1, <1>2, <1>4, <1>5, <1>6, BlockCalm DEF Holding, Busy
<1> USE DEF r
<1> QED BY <1>1, <1>2, <1>3, <1>4, <1>7 DEF MayStart

\* A worker handing over a message holds its recipient, whose latest message is
\* that one, already marked as started.
LEMMA SenderHolds ==
  ASSUME IInv, Calm, NEW w \in Workers, step[w] \in Sending
  PROVE  /\ current[w] \in todo[w] /\ current[w] \in Recipients
         /\ attempt[w] = attempts[current[w]] /\ attempt[w] \in Attempts
         /\ claim[current[w]] = w /\ current[w] \notin expired
         /\ status[current[w]] = "IN_PROGRESS"
         /\ dispatchState[current[w]][attempt[w]] = "IN_PROGRESS"
<1>1. step[w] \in Busy /\ step[w] \in Holding
  BY DEF Sending, Busy, Holding
<1>2. current[w] \in todo[w] /\ current[w] \in Recipients /\ attempt[w] \in Attempts
  BY <1>1, SenderFacts DEF IInv, TypeInv, WorkersOK, WorkerOK
<1>3. attempt[w] = attempts[current[w]]
  BY DEF IInv, SendersOK, SenderOK
<1>4. Held(w, current[w])
  BY <1>1, <1>2 DEF Calm, HoldsOK
<1> QED BY <1>1, <1>2, <1>3, <1>4, LatestIsAttempt DEF Held, IInv

\* What a worker handing over a message holds besides.
LEMMA HeldSending ==
  ASSUME Calm, NEW w \in Workers, step[w] \in Sending, NEW q \in todo[w], q # current[w]
  PROVE  /\ claim[q] = w /\ q \notin expired
         /\ status[q] = "IN_PROGRESS" /\ LatestDispatch(q) = "PENDING"
<1>1. step[w] \in Holding
  BY DEF Holding, Busy, Sending
<1> QED BY <1>1 DEF Calm, HoldsOK, Held

LEMMA StartDispatchCalm ==
  ASSUME IInv, Calm, NEW w \in Workers, StartDispatch(w)
  PROVE  Calm' /\ BlockedKept
<1> TypeInv /\ TypeOK
  BY DEF IInv, TypeInv
<1>0. step[w] = "start" /\ step[w] \in Busy /\ step[w] \in Holding
  BY DEF StartDispatch, Busy, Holding
<1> PICK r, i : r = current[w] /\ i = attempt[w]
  OBVIOUS
<1>1. r \in todo[w] /\ r \in Recipients /\ i \in Attempts
  BY <1>0, SenderFacts DEF TypeInv, WorkersOK, WorkerOK
<1>2. attempts[r] = i /\ LatestDispatch(r) = dispatchState[r][i]
  BY <1>0, <1>1, LatestIsAttempt DEF StartDispatch, MayStart
<1>3. /\ claim[r] = w /\ r \notin expired
      /\ status[r] = "IN_PROGRESS" /\ dispatchState[r][i] = "PENDING"
  BY <1>0, <1>1, <1>2, HeldNext
<1>4. providerState[r][i] = "NONE" /\ i # 0
  BY <1>1, <1>3 DEF IInv, MessagesOK, MessageOK
<1>5. /\ UNCHANGED <<attempts, providerState, claim, expired, todo, current, attempt>>
      /\ dispatchState' = [dispatchState EXCEPT ![r][i] = "IN_PROGRESS"]
      /\ status' = [status EXCEPT ![r] =
           RecipientStatus("IN_PROGRESS", providerState[r][i], claim[r] # NoOne)]
      /\ step' = [step EXCEPT ![w] = "call"]
  BY <1>3 DEF StartDispatch, Goto
<1>6. status'[r] = "IN_PROGRESS" /\ dispatchState'[r][i] = "IN_PROGRESS" /\ step'[w] = "call"
  <2>1. RecipientStatus("IN_PROGRESS", providerState[r][i], claim[r] # NoOne) = "IN_PROGRESS"
    BY <1>4 DEF RecipientStatus
  <2> QED BY <1>1, <1>5, <2>1 DEF TypeOK
<1>7. LatestDispatch(r)' = "IN_PROGRESS" /\ LatestProvider(r)' = "NONE"
  BY <1>2, <1>4, <1>5, <1>6 DEF LatestDispatch, LatestProvider
<1>8. \A q \in Recipients \ {r} : RowKept(q) /\ status'[q] = status[q]
  BY <1>1, <1>5 DEF RowKept, TypeOK, LatestDispatch, LatestProvider
<1>9. \A v \in Workers \ {w} : LocalsKept(v)
  BY OtherLocals DEF ProcessStep
<1>10. HoldsOK(w)'
  <2>1. step'[w] \in Sending /\ todo'[w] = todo[w] /\ current'[w] = r
    BY <1>5, <1>6 DEF Sending
  <2>2. ASSUME NEW q \in todo'[w] PROVE Held(w, q)'
    <3>1. CASE q = r
      BY <1>3, <1>5, <1>6, <1>7, <2>1, <3>1 DEF Held
    <3>2. CASE q # r
      <4>1. q \in todo[w] /\ RowKept(q)
        BY <1>8, <2>1, <3>2 DEF TypeOK
      <4> QED BY <1>0, <2>1, <3>2, <4>1, HeldNext DEF Held, RowKept
    <3> QED BY <3>1, <3>2
  <2>3. attempt'[w] = attempts'[current'[w]]
    BY <1>2, <1>5
  <2> QED BY <2>2, <2>3 DEF HoldsOK
<1>11. Projected(r)'
  BY <1>6, <1>7 DEF Projected, RecipientStatus
<1>12. Calm'
  BY <1>0, <1>1, <1>8, <1>9, <1>10, <1>11, OwnRow
<1> QED BY <1>6, <1>8, <1>12 DEF BlockedKept

LEMMA CallProviderCalm ==
  ASSUME IInv, Calm, NEW w \in Workers, CallProvider(w) PROVE Calm'
<1> TypeInv /\ TypeOK
  BY DEF IInv, TypeInv
<1>1. /\ step[w] = "call" /\ step[w] \in Sending /\ step[w] \in Holding /\ step[w] \in Busy
      /\ UNCHANGED <<status, claim, expired, attempts, dispatchState, providerState, todo, current, attempt>>
      /\ step'[w] = "reconcile" /\ step'[w] \in Sending
  BY DEF CallProvider, TypeOK, Sending, Holding, Busy
<1>2. \A v \in Workers \ {w} : LocalsKept(v)
  BY OtherLocals DEF ProcessStep
<1>3. HoldsOK(w)
  BY DEF Calm
<1>4. HoldsOK(w)'
  BY <1>1, <1>3 DEF HoldsOK, Held, LatestDispatch
<1> QED BY <1>1, <1>2, <1>4, QuietCalm DEF RowsQuiet

LEMMA ReconcileCalm ==
  ASSUME IInv, Calm, NEW w \in Workers, Reconcile(w)
  PROVE  Calm' /\ BlockedKept
<1> PICK r, i, reached : r = current[w] /\ i = attempt[w] /\ reached = AnswerState(answer[w])
  OBVIOUS
<1> TypeInv /\ TypeOK
  BY DEF IInv, TypeInv
<1>0. step[w] \in Sending /\ step[w] \in Holding
  BY DEF Reconcile, Sending, Busy, Holding
<1>1. /\ r \in todo[w] /\ r \in Recipients /\ i \in Attempts
      /\ i = attempts[r] /\ status[r] = "IN_PROGRESS" /\ dispatchState[r][i] = "IN_PROGRESS"
  BY <1>0, SenderHolds
<1>2. PICK s \in (IF reached = "ACCEPTED" THEN Attached(events[r][i]) ELSE {"NONE"}) :
        /\ providerState' = [providerState EXCEPT ![r][i] = s]
        /\ status' = [status EXCEPT ![r] =
             Recomputed(status[r], IF i = attempts[r] THEN reached ELSE LatestDispatch(r),
                        LatestAfter(r, i, s), claim[r] # NoOne)]
  <2>1. dispatchState[current[w]][attempt[w]] = "IN_PROGRESS"
    BY <1>1
  <2> QED BY Zenon, <2>1 DEF Reconcile
<1>3. /\ dispatchState' = [dispatchState EXCEPT ![r][i] = reached]
      /\ UNCHANGED <<attempts, claim, expired>> /\ NextRecipient(w)
  BY <1>1 DEF Reconcile
<1>4. /\ dispatchState'[r][i] = reached /\ providerState'[r][i] = s
      /\ status'[r] = RecipientStatus(reached, s, claim'[r] # NoOne)
  <2>1. dispatchState'[r][i] = reached
    <3>1. dispatchState \in [Recipients -> [Attempts -> DispatchStates]]
      BY TypeGroups DEF MessageTypes
    <3>2. [dispatchState EXCEPT ![r][i] = reached][r][i] = reached
      BY <1>1, <3>1
    <3> QED BY <1>3, <3>2
  <2>2. providerState'[r][i] = s
    BY <1>1, <1>2 DEF TypeOK
  <2>3. status'[r] = Recomputed("IN_PROGRESS", reached, s, claim[r] # NoOne)
    BY <1>1, <1>2 DEF TypeOK, LatestAfter
  <2> QED BY <1>3, <2>1, <2>2, <2>3 DEF Recomputed
<1>5. LatestDispatch(r)' = reached /\ LatestProvider(r)' = s
  BY <1>1, <1>3, <1>4 DEF LatestDispatch, LatestProvider
<1>6. \A q \in Recipients \ {r} : RowKept(q) /\ status'[q] = status[q]
  BY <1>1, <1>2, <1>3 DEF RowKept, TypeOK, LatestDispatch, LatestProvider
<1>7. status'[r] # "BLOCKED"
  <2>1. s \in DeliveryStates \cup {"NONE"}
    BY <1>1, <1>2, AttachedRecorded, ProviderTypesAt, TypeGroups
  <2> QED BY <1>4, <2>1 DEF RecipientStatus
<1>8. \A v \in Workers \ {w} : LocalsKept(v)
  BY OtherLocals DEF ProcessStep
<1>9. HoldsOK(w)'
  <2>1. step'[w] = "next" /\ todo'[w] = todo[w] \ {r}
    BY <1>3 DEF NextRecipient, TypeOK
  <2>2. ASSUME NEW q \in todo'[w]
        PROVE  /\ claim'[q] = w /\ q \notin expired'
               /\ status'[q] = "IN_PROGRESS" /\ LatestDispatch(q)' = "PENDING"
    <3>1. q \in todo[w] /\ q # r /\ RowKept(q)
      BY <1>6, <2>1 DEF TypeOK
    <3> QED BY <1>0, <3>1, HeldSending DEF RowKept
  <2> QED BY <2>1, <2>2, NextHolds
<1>10. Projected(r)'
  BY <1>4, <1>5 DEF Projected
<1>11. Calm'
  BY <1>0, <1>1, <1>6, <1>8, <1>9, <1>10, OwnRow
<1> QED BY <1>6, <1>7, <1>11 DEF BlockedKept

LEMMA ClaimExpiresCalm ==
  ASSUME IInv, Calm, NEW r \in Recipients, ClaimExpires(r), slow' = 0 PROVE Calm'
<1> TypeInv /\ TypeOK
  BY DEF IInv, TypeInv
<1>1. ~Owned(r)
  BY BroadcastAssumption DEF ClaimExpires, TypeOK
<1>2. /\ expired' = expired \cup {r}
      /\ UNCHANGED <<status, claim, attempts, dispatchState, providerState>>
      /\ \A v \in Workers : LocalsKept(v)
  BY DEF ClaimExpires, LocalsKept
<1>3. \A q \in Recipients \ {r} : RowKept(q)
  BY <1>2 DEF RowKept, LatestDispatch, LatestProvider
<1>4. \A q \in Recipients \cap {r} : Projected(q)'
  BY <1>2 DEF Calm, Projected, LatestDispatch, LatestProvider
<1>5. ASSUME NEW v \in Workers, step[v] \in Holding, r \in todo[v] PROVE FALSE
  <2>1. claim[r] = v
    BY <1>5 DEF Calm, HoldsOK, Held
  <2> QED BY <1>1, <1>5, <2>1, BroadcastAssumption DEF Owned
<1>6. \A v \in Workers :
        HoldsOK(v)' \/ (LocalsKept(v) /\ (step[v] \in Holding => todo[v] \cap {r} = {}))
  BY <1>2, <1>5
<1> QED BY <1>3, <1>4, <1>6, CalmStep

LEMMA RetryFailedCalm ==
  ASSUME IInv, Calm, NEW u \in Users, NEW S \in SUBSET Recipients, RetryFailed(u, S)
  PROVE  Calm' /\ BlockedKept
<1> TypeInv /\ TypeOK
  BY DEF IInv, TypeInv
<1> USE BroadcastAssumption
<1>1. /\ UNCHANGED providerState
      /\ attempts' = [r \in Recipients |-> IF r \in S THEN attempts[r] + 1 ELSE attempts[r]]
      /\ dispatchState' =
           [r \in Recipients |->
             [i \in Attempts |->
               IF r \in S /\ i = attempts[r] + 1 THEN "PENDING" ELSE dispatchState[r][i]]]
      /\ status' = [r \in Recipients |->
           IF r \in S THEN Recomputed(status[r], "PENDING", "NONE", FALSE) ELSE status[r]]
      /\ claim' = [r \in Recipients |-> IF r \in S THEN NoOne ELSE claim[r]]
      /\ expired' = expired \ S
      /\ \A v \in Workers : LocalsKept(v)
  BY DEF RetryFailed, LocalsKept
<1>2. ASSUME NEW r \in S
      PROVE  status[r] = "FAILED" /\ attempts[r] \in Nat /\ attempts[r] + 1 \in Attempts
  <2>1. Retryable(r) /\ attempts[r] \in 0..MaxAttempts
    BY DEF RetryFailed, TypeOK
  <2> QED BY <2>1 DEF Retryable
<1>3. \A r \in Recipients \ S : RowKept(r) /\ status'[r] = status[r]
  <2> SUFFICES ASSUME NEW r \in Recipients \ S PROVE RowKept(r) /\ status'[r] = status[r]
    OBVIOUS
  <2>1. /\ status'[r] = status[r] /\ claim'[r] = claim[r] /\ attempts'[r] = attempts[r]
        /\ r \in expired' => r \in expired
    BY <1>1
  <2>2. \A i \in Attempts : dispatchState'[r][i] = dispatchState[r][i]
    BY <1>1
  <2>3. attempts[r] # 0 => attempts[r] \in Attempts
    BY DEF TypeOK
  <2> QED BY <1>1, <2>1, <2>2, <2>3 DEF RowKept, LatestDispatch, LatestProvider
<1>4. ASSUME NEW r \in S PROVE Projected(r)' /\ status'[r] = "READY"
  <2>1. MessageOK(r, attempts[r] + 1)
    BY <1>2 DEF IInv, MessagesOK
  <2>2. providerState[r][attempts[r] + 1] = "NONE"
    BY <1>2, <2>1 DEF MessageOK
  <2>3. attempts'[r] = attempts[r] + 1 /\ dispatchState'[r][attempts[r] + 1] = "PENDING"
    BY <1>1, <1>2
  <2>4. LatestDispatch(r)' = "PENDING" /\ LatestProvider(r)' = "NONE"
    BY <1>1, <1>2, <2>2, <2>3 DEF LatestDispatch, LatestProvider
  <2>5. status'[r] = "READY" /\ claim'[r] = NoOne
    BY <1>1, <1>2 DEF Recomputed, RecipientStatus
  <2> QED BY <2>4, <2>5 DEF Projected, RecipientStatus
<1>5. ASSUME NEW v \in Workers, step[v] \in Holding, NEW r \in todo[v] \cap S PROVE FALSE
  <2>1. status[r] = "IN_PROGRESS"
    BY <1>5 DEF Calm, HoldsOK, Held
  <2> QED BY <1>2, <2>1
<1>6. \A v \in Workers :
        HoldsOK(v)' \/ (LocalsKept(v) /\ (step[v] \in Holding => todo[v] \cap S = {}))
  BY <1>1, <1>5
<1>7. Calm'
  BY <1>3, <1>4, <1>6, CalmStep
<1> QED BY <1>3, <1>4, <1>7 DEF BlockedKept

\* A status report reaches a recipient through the latest message only; that of
\* an older one finds the projection as it would compute it.
LEMMA ProviderReportsCalm ==
  ASSUME IInv, Calm, NEW r \in Recipients, NEW i \in Attempts, NEW s \in Reports,
         NEW newer \in BOOLEAN, ProviderReports(r, i, s, newer)
  PROVE  Calm' /\ BlockedKept
<1> TypeInv /\ TypeOK
  BY DEF IInv, TypeInv
<1>1. /\ UNCHANGED <<claim, expired, attempts, dispatchState>>
      /\ \A v \in Workers : LocalsKept(v)
  BY DEF ProviderReports, LocalsKept
<1>2. CASE ~matched[r][i]
  <2>1. UNCHANGED <<providerState, status>>
    BY <1>2 DEF ProviderReports
  <2> QED BY <1>1, <2>1, QuietCalm DEF RowsQuiet, BlockedKept
<1>3. CASE matched[r][i]
  <2>1. PICK p : /\ p = IF MayReplace(providerState[r][i], s, newer) THEN s ELSE providerState[r][i]
                 /\ providerState' = [providerState EXCEPT ![r][i] = p]
                 /\ status' = [status EXCEPT ![r] =
                      Recomputed(status[r], LatestDispatch(r), LatestAfter(r, i, p), claim[r] # NoOne)]
    BY <1>3 DEF ProviderReports
  <2>2. dispatchState[r][i] = "ACCEPTED" /\ ~(attempts[r] < i) /\ attempts[r] \in Nat
    BY <1>3, BroadcastAssumption DEF IInv, MessagesOK, MessageOK, TypeOK
  <2>3. providerState'[r][i] = p /\ p \in DeliveryStates \cup {"NONE"}
    <3>1. providerState \in [Recipients -> [Attempts -> DeliveryStates \cup {"NONE"}]]
      BY DEF TypeOK
    <3>2. providerState[r][i] \in DeliveryStates \cup {"NONE"} /\ s \in DeliveryStates
      BY <3>1, BroadcastAssumption
    <3>3. [providerState EXCEPT ![r][i] = p][r][i] = p
      BY <3>1
    <3> QED BY <2>1, <3>2, <3>3
  <2>4. \A q \in Recipients \ {r} : RowKept(q) /\ status'[q] = status[q]
    BY <1>1, <2>1 DEF RowKept, TypeOK, LatestDispatch, LatestProvider
  <2>5. status'[r] = Recomputed(status[r], LatestDispatch(r), LatestAfter(r, i, p), claim[r] # NoOne)
    BY <2>1 DEF TypeOK
  <2>6. CASE i = attempts[r]
    <3>1. LatestDispatch(r) = "ACCEPTED" /\ LatestDispatch(r)' = "ACCEPTED" /\ LatestProvider(r)' = p
      BY <1>1, <2>2, <2>3, <2>6 DEF LatestDispatch, LatestProvider
    <3>2. status'[r] = RecipientStatus("ACCEPTED", p, claim[r] # NoOne)
      BY <2>5, <2>6, <3>1 DEF Recomputed, LatestAfter
    <3>3. \A q \in Recipients \cap {r} : Projected(q)'
      BY <1>1, <3>1, <3>2 DEF Projected
    <3>4. ASSUME NEW v \in Workers, step[v] \in Holding, r \in todo[v] PROVE FALSE
      BY <3>1, <3>4 DEF Calm, HoldsOK, Held
    <3>5. \A v \in Workers :
            HoldsOK(v)' \/ (LocalsKept(v) /\ (step[v] \in Holding => todo[v] \cap {r} = {}))
      BY <1>1, <3>4
    <3>6. Calm'
      BY <2>4, <3>3, <3>5, CalmStep
    <3>7. status'[r] # "BLOCKED"
      BY <2>3, <3>2 DEF RecipientStatus
    <3> QED BY <2>4, <3>6, <3>7 DEF BlockedKept
  <2>7. CASE i # attempts[r]
    <3>1. LatestDispatch(r)' = LatestDispatch(r)
      BY <1>1 DEF LatestDispatch
    <3>2. LatestProvider(r)' = LatestProvider(r)
      <4>1. attempts[r] # 0 => providerState'[r][attempts[r]] = providerState[r][attempts[r]]
        <5>1. providerState \in [Recipients -> [Attempts -> DeliveryStates \cup {"NONE"}]]
          BY DEF TypeOK
        <5>2. attempts[r] # 0 => attempts[r] \in Attempts
          BY DEF TypeOK
        <5> QED BY <2>1, <2>7, <5>1, <5>2
      <4> QED BY <1>1, <4>1 DEF LatestProvider
    <3>3. status'[r] = Recomputed(status[r], LatestDispatch(r), LatestProvider(r), claim[r] # NoOne)
      BY <2>5, <2>7 DEF LatestAfter
    <3>4. Projected(r) /\ attempts[r] > 0
      BY <2>2 DEF Calm
    <3>5. status'[r] = status[r]
      BY <3>3, <3>4 DEF Projected, Recomputed
    <3>6. \A q \in Recipients : RowKept(q) /\ status'[q] = status[q]
      BY <1>1, <2>4, <3>1, <3>2, <3>5 DEF RowKept
    <3>7. Calm'
      BY <1>1, <3>6, KeptCalm
    <3> QED BY <3>6, <3>7 DEF BlockedKept
  <2> QED BY <2>6, <2>7
<1> QED BY <1>2, <1>3

LEMMA PreparePlansCalm ==
  ASSUME IInv, Calm, NEW w \in Workers, NEW r \in Recipients, PreparePlans(w, r) PROVE Calm'
<1> TypeInv /\ TypeOK
  BY DEF IInv, TypeInv
<1>1. /\ step[w] = "next" /\ UNCHANGED <<status, claim, expired, attempts, dispatchState, providerState>>
      /\ step'[w] = "prepare" /\ todo'[w] = todo[w] /\ current'[w] = r /\ attempt'[w] = attempts[r]
  BY DEF PreparePlans, TypeOK
<1>2. step'[w] \notin Sending
  BY <1>1 DEF Sending
<1>3. \A q \in todo'[w] : Held(w, q)'
  BY <1>1, <1>2, HeldNext DEF Held, LatestDispatch
<1>4. HoldsOK(w)'
  BY <1>1, <1>3 DEF HoldsOK
<1>5. \A v \in Workers \ {w} : LocalsKept(v)
  BY OtherLocals DEF ProcessStep
<1> QED BY <1>1, <1>4, <1>5, QuietCalm DEF RowsQuiet

LEMMA PrepareSendCalm ==
  ASSUME IInv, Calm, NEW w \in Workers, PrepareSend(w) PROVE Calm'
<1> TypeInv /\ TypeOK
  BY DEF IInv, TypeInv
<1>1. /\ step[w] = "prepare" /\ step[w] \in Busy
      /\ UNCHANGED <<status, claim, expired, attempts, dispatchState, providerState>>
      /\ Goto(w, "start") \/ NextRecipient(w)
  BY DEF PrepareSend, Busy
<1>2. ASSUME NEW q \in todo[w]
      PROVE  /\ claim'[q] = w /\ q \notin expired'
             /\ status'[q] = "IN_PROGRESS" /\ LatestDispatch(q)' = "PENDING"
  BY <1>1, HeldNext DEF LatestDispatch
<1>3. HoldsOK(w)'
  <2>1. CASE Goto(w, "start")
    <3>1. /\ step'[w] = "start" /\ todo'[w] = todo[w] /\ attempt'[w] = attempt[w]
          /\ current'[w] = current[w]
      BY <2>1 DEF Goto, TypeOK
    <3>2. step'[w] \notin Sending
      BY <3>1 DEF Sending
    <3>3. \A q \in todo'[w] : Held(w, q)'
      BY <1>2, <3>1, <3>2 DEF Held
    <3>4. attempt[w] = attempts[current[w]]
      BY <1>1 DEF Calm, HoldsOK
    <3> QED BY <1>1, <3>1, <3>3, <3>4 DEF HoldsOK
  <2>2. CASE NextRecipient(w)
    <3>1. step'[w] = "next" /\ todo'[w] \subseteq todo[w]
      BY <2>2 DEF NextRecipient, TypeOK
    <3> QED BY <1>2, <3>1, NextHolds
  <2> QED BY <1>1, <2>1, <2>2
<1>4. \A v \in Workers \ {w} : LocalsKept(v)
  BY OtherLocals DEF ProcessStep
<1> QED BY <1>1, <1>3, <1>4, QuietCalm DEF RowsQuiet

\* A call that returns, raises, dies or only reads candidates holds nothing.
LEMMA LetGoCalm ==
  ASSUME IInv, Calm, NEW w \in Workers, ProcessStep(w) \/ Crash(w), RowsQuiet,
         step'[w] \in {"idle", "candidates", "claim"}
  PROVE  Calm'
<1>1. \A v \in Workers \ {w} : LocalsKept(v)
  BY OtherLocals DEF IInv, TypeInv
<1> QED BY <1>1, NotHolding, QuietCalm DEF IInv

LEMMA RecoveryBlocksNobody ==
  ASSUME TypeInv, NEW w \in Workers, RecoverStaleClaims(w) PROVE BlockedKept
<1>1. PICK R \in SUBSET Stale :
        status' = [r \in Recipients |-> IF r \in R THEN RecoveredStatus(r) ELSE status[r]]
  BY DEF RecoverStaleClaims
<1>2. \A r \in Recipients : RecoveredStatus(r) # "BLOCKED"
  <2> SUFFICES ASSUME NEW r \in Recipients PROVE RecoveredStatus(r) # "BLOCKED"
    OBVIOUS
  <2>1. LatestProvider(r) \in DeliveryStates \cup {"NONE"}
    BY LatestTypes, TypeGroups DEF TypeInv
  <2> QED BY <2>1 DEF RecoveredStatus, RecipientStatus
<1> QED BY <1>1, <1>2 DEF BlockedKept

-----------------------------------------------------------------------------
(* The calm part as an invariant, and what it gives.                       *)

\* Why a recipient may be blocked: something about it or the template changed.
Changed(r) ==
  \/ ~optedIn[r] \/ ~reachable[r] \/ conversation[r] = "foreign"
  \/ \E w \in Workers :
       step[w] = "next" /\ r \in todo[w] /\ (~template[w] \/ r \notin consentSeen[w])

BlocksJustified ==
  \A r \in Recipients : status[r] # "BLOCKED" /\ status'[r] = "BLOCKED" => Changed(r)

LEMMA ProcessStepCalm ==
  ASSUME IInv, Calm, NEW w \in Workers, ProcessStep(w) \/ Crash(w)
  PROVE  Calm' /\ BlocksJustified
<1> DEFINE Goal == Calm' /\ BlocksJustified
<1> TypeInv /\ TypeOK
  BY DEF IInv, TypeInv
<1>0. BlockedKept => BlocksJustified
  BY DEF BlockedKept, BlocksJustified
<1>1. UNCHANGED status => BlocksJustified
  BY DEF BlocksJustified
<1>2. ASSUME RecoverStaleClaims(w) PROVE Goal
  BY <1>0, <1>2, RecoverStaleClaimsCalm, RecoveryBlocksNobody
<1>3. ASSUME ReadCandidates(w) PROVE Goal
  <2>1. RowsQuiet /\ UNCHANGED status /\ step'[w] = "claim"
    BY <1>3 DEF ReadCandidates, RowsQuiet, TypeOK
  <2> QED BY <1>1, <2>1, LetGoCalm
<1>4. ASSUME NEW S \in SUBSET Recipients, ClaimRecipients(w, S) PROVE Goal
  BY <1>0, <1>4, ClaimRecipientsCalm
<1>5. ASSUME ClaimRaises(w) \/ ClaimReplays(w) PROVE Goal
  <2>1. RowsQuiet /\ UNCHANGED status /\ step'[w] = "idle"
    BY <1>5 DEF ClaimRaises, ClaimReplays, Abort, Leave, RowsQuiet, TypeOK
  <2> QED BY <1>1, <2>1, LetGoCalm
<1>6. ASSUME NEW r \in Recipients, PrepareBlocks(w, r) PROVE Goal
  <2>1. \A q \in Recipients \ {r} : status'[q] = status[q]
    BY <1>6 DEF PrepareBlocks, Block, TypeOK
  <2>2. Calm' /\ Changed(r)
    BY <1>6, PrepareBlocksCalm DEF Changed
  <2> QED BY <2>1, <2>2 DEF BlocksJustified
<1>7. ASSUME NEW r \in Recipients, PreparePlans(w, r) PROVE Goal
  BY <1>1, <1>7, PreparePlansCalm DEF PreparePlans
<1>8. ASSUME PrepareRaises(w) PROVE Goal
  <2>1. RowsQuiet /\ UNCHANGED status /\ step'[w] = "idle"
    BY <1>8 DEF PrepareRaises, Abort, Leave, RowsQuiet, TypeOK
  <2> QED BY <1>1, <2>1, LetGoCalm
<1>9. ASSUME PrepareSend(w) PROVE Goal
  BY <1>1, <1>9, PrepareSendCalm DEF PrepareSend
<1>10. ASSUME StartBlocks(w) PROVE Goal
  <2>1. \A q \in Recipients \ {current[w]} : status'[q] = status[q]
    BY <1>10 DEF StartBlocks, Block, TypeOK
  <2>2. Calm' /\ Changed(current[w])
    BY <1>10, StartBlocksCalm DEF Changed
  <2> QED BY <2>1, <2>2 DEF BlocksJustified
<1>11. ASSUME StartDispatch(w) PROVE Goal
  BY <1>0, <1>11, StartDispatchCalm
<1>12. ASSUME CallProvider(w) PROVE Goal
  BY <1>1, <1>12, CallProviderCalm DEF CallProvider
<1>13. ASSUME Reconcile(w) PROVE Goal
  BY <1>0, <1>13, ReconcileCalm
<1>14. ASSUME FinishBatch(w) PROVE Goal
  <2>1. RowsQuiet /\ UNCHANGED status /\ step'[w] = "idle"
    BY <1>14 DEF FinishBatch, Leave, RowsQuiet, TypeOK
  <2> QED BY <1>1, <2>1, LetGoCalm
<1>15. ASSUME Crash(w) PROVE Goal
  <2>1. RowsQuiet /\ UNCHANGED status /\ step'[w] = "idle"
    BY <1>15 DEF Crash, Leave, RowsQuiet, TypeOK
  <2> QED BY <1>1, <2>1, LetGoCalm
<1> QED
  BY <1>2, <1>3, <1>4, <1>5, <1>6, <1>7, <1>8, <1>9, <1>10, <1>11, <1>12, <1>13, <1>14, <1>15
     DEF ProcessStep

LEMMA NextCalm ==
  ASSUME IInv, Calm, [Next]_vars, slow' = 0 PROVE Calm' /\ BlocksJustified
<1> DEFINE Goal == Calm' /\ BlocksJustified
<1>0. BlockedKept => BlocksJustified
  BY DEF BlockedKept, BlocksJustified
<1>1. UNCHANGED status => BlocksJustified
  BY DEF BlocksJustified
<1>2. ASSUME NEW w \in Workers, ProcessStep(w) \/ Crash(w) PROVE Goal
  BY <1>2, ProcessStepCalm
<1>3. ASSUME NEW r \in Recipients, ClaimExpires(r) PROVE Goal
  BY <1>1, <1>3, ClaimExpiresCalm DEF ClaimExpires
<1>4. ASSUME NEW u \in Users, NEW S \in SUBSET Recipients, RetryFailed(u, S) PROVE Goal
  BY <1>0, <1>4, RetryFailedCalm
<1>5. ASSUME NEW r \in Recipients, NEW i \in Attempts, NEW s \in Reports, NEW newer \in BOOLEAN,
             ProviderReports(r, i, s, newer)
      PROVE  Goal
  BY <1>0, <1>5, ProviderReportsCalm
<1>6. ASSUME ContactChanges \/ UNCHANGED vars PROVE Goal
  <2>1. RowsQuiet /\ UNCHANGED status /\ \A v \in Workers : LocalsKept(v)
    BY <1>6 DEF ContactChanges, RowsQuiet, LocalsKept
  <2> QED BY <1>1, <2>1, QuietCalm DEF IInv
<1> QED BY <1>2, <1>3, <1>4, <1>5, <1>6 DEF Next

\* Once a claim has expired under a worker that still holds it, it has.
LEMMA SlowStays ==
  ASSUME TypeOK, [Next]_vars, slow' = 0 PROVE slow = 0
<1> USE BroadcastAssumption
<1>1. ASSUME NEW w \in Workers, ProcessStep(w) \/ Crash(w) PROVE slow' = slow
  BY <1>1
     DEF ProcessStep, Crash, RecoverStaleClaims, ReadCandidates, ClaimRecipients, ClaimRaises,
         ClaimReplays, Abort, PrepareBlocks, PreparePlans, PrepareRaises, PrepareSend, StartBlocks,
         StartDispatch, CallProvider, Reconcile, FinishBatch
<1>2. ASSUME NEW r \in Recipients, ClaimExpires(r) PROVE slow' = slow \/ slow' = slow + 1
  BY <1>2 DEF ClaimExpires
<1>3. slow' = slow \/ slow' = slow + 1
  <2>1. ASSUME ContactChanges \/ UNCHANGED vars PROVE slow' = slow
    BY <2>1 DEF ContactChanges
  <2>2. ASSUME NEW u \in Users, NEW S \in SUBSET Recipients, RetryFailed(u, S) PROVE slow' = slow
    BY <2>2 DEF RetryFailed
  <2>3. ASSUME NEW r \in Recipients, NEW i \in Attempts, NEW s \in Reports, NEW newer \in BOOLEAN,
               ProviderReports(r, i, s, newer)
        PROVE  slow' = slow
    BY <2>3 DEF ProviderReports
  <2> QED BY <1>1, <1>2, <2>1, <2>2, <2>3 DEF Next
<1> QED BY <1>3 DEF TypeOK

LEMMA CalmInvStep ==
  ASSUME CalmInv, [Next]_vars PROVE CalmInv'
<1>1. IInv'
  BY IInvStep DEF CalmInv
<1>2. ASSUME slow' = 0 PROVE Calm'
  <2>1. Calm
    BY <1>2, SlowStays DEF CalmInv, IInv, TypeInv
  <2> QED BY <1>2, <2>1, NextCalm DEF CalmInv
<1> QED BY <1>1, <1>2 DEF CalmInv

LEMMA CalmInvInit == Init => CalmInv
<1> SUFFICES ASSUME Init PROVE CalmInv
  OBVIOUS
<1>1. \A r \in Recipients : Projected(r)
  BY DEF Init, Projected
<1>2. \A w \in Workers : HoldsOK(w)
  BY DEF Init, HoldsOK, Holding, Busy
<1> QED BY <1>1, <1>2, IInvInit DEF CalmInv, Calm

\* The recipient's status is what its latest message says, or BLOCKED before a
\* send, in every state no slow worker has passed through.
THEOREM ProjectionFollowsLatestCorrect == Spec => []ProjectionFollowsLatest
<1>1. CalmInv => ProjectionFollowsLatest
  BY DEF CalmInv, Calm, Projected, ProjectionFollowsLatest
<1>2. CalmInv /\ [Next]_vars => CalmInv'
  BY CalmInvStep
<1> QED BY <1>1, <1>2, CalmInvInit, PTL DEF Spec

\* A recipient is blocked only for a change of its consent, its contact, its
\* conversation or the template, never because of another worker.
THEOREM OnlyChangedConditionsBlockCorrect == Spec => OnlyChangedConditionsBlock
<1> DEFINE Justified ==
      \A r \in Recipients :
        slow' = 0 /\ status[r] # "BLOCKED" /\ status'[r] = "BLOCKED"
        => \/ ~optedIn[r] \/ ~reachable[r] \/ conversation[r] = "foreign"
           \/ \E w \in Workers :
                step[w] = "next" /\ r \in todo[w] /\ (~template[w] \/ r \notin consentSeen[w])
<1>1. CalmInv /\ [Next]_vars => [Justified]_vars
  <2> SUFFICES ASSUME CalmInv, [Next]_vars, slow' = 0 PROVE BlocksJustified
    BY DEF BlocksJustified, Changed
  <2>1. Calm
    BY SlowStays DEF CalmInv, IInv, TypeInv
  <2> QED BY <2>1, NextCalm DEF CalmInv
<1>2. CalmInv /\ [Next]_vars => CalmInv'
  BY CalmInvStep
<1> QED BY <1>1, <1>2, CalmInvInit, PTL DEF Spec, OnlyChangedConditionsBlock
=============================================================================
