---------------------------- MODULE AttemptLedger ----------------------------
(***************************************************************************)
(* What Broadcast processing promises about one recipient's messages,      *)
(* without workers, claims, statuses or transactions: attempts are         *)
(* authorized one at a time, started at most once, concluded at most once, *)
(* and a further attempt is authorized only when the previous one failed.  *)
(* An attempt that is started and never answered, or answered "unknown",   *)
(* stays the last one.                                                     *)
(***************************************************************************)
EXTENDS Integers

CONSTANTS
  Recipients,
  MaxAttempts

VARIABLES
  authorized,  \* number of attempts authorized per recipient
  outcome,     \* per attempt: "open", "started", "sent", "refused" or "uncertain"
  failedLater  \* per attempt: the provider reported FAILED after accepting it

vars == <<authorized, outcome, failedLater>>
Attempts == 1..MaxAttempts
Outcomes == {"open", "started", "sent", "refused", "uncertain"}

Init ==
  /\ authorized = [r \in Recipients |-> 0]
  /\ outcome = [r \in Recipients |-> [i \in Attempts |-> "open"]]
  /\ failedLater = [r \in Recipients |-> [i \in Attempts |-> FALSE]]

\* The latest attempt of r failed, so that another one cannot reach the
\* customer twice.
Failed(r) ==
  LET i == authorized[r] IN
  outcome[r][i] = "refused" \/ (outcome[r][i] = "sent" /\ failedLater[r][i])

Authorize(r) == authorized[r] = 0 \/ Failed(r)

\* One command may authorize an attempt for several recipients.
AuthorizeSome(S) ==
  /\ \A r \in S : authorized[r] < MaxAttempts /\ Authorize(r)
  /\ authorized' = [r \in Recipients |-> IF r \in S THEN authorized[r] + 1 ELSE authorized[r]]
  /\ UNCHANGED <<outcome, failedLater>>

\* Only the latest attempt can be started.
StartAttempt(r) ==
  /\ authorized[r] > 0
  /\ outcome[r][authorized[r]] = "open"
  /\ outcome' = [outcome EXCEPT ![r][authorized[r]] = "started"]
  /\ UNCHANGED <<authorized, failedLater>>

Conclude(r, i) ==
  /\ outcome[r][i] = "started"
  /\ \E o \in {"sent", "refused", "uncertain"} : outcome' = [outcome EXCEPT ![r][i] = o]
  /\ UNCHANGED <<authorized, failedLater>>

\* Recovery gives up on the attempts whose worker is taken for dead.
GiveUp(S) ==
  /\ \A r \in S : authorized[r] > 0 /\ outcome[r][authorized[r]] = "started"
  /\ outcome' = [r \in Recipients |->
       [i \in Attempts |->
         IF r \in S /\ i = authorized[r] THEN "uncertain" ELSE outcome[r][i]]]
  /\ UNCHANGED <<authorized, failedLater>>

ReportFailure(r, i) ==
  /\ outcome[r][i] \notin {"open", "refused"}
  /\ failedLater' = [failedLater EXCEPT ![r][i] = TRUE]
  /\ UNCHANGED <<authorized, outcome>>

Next ==
  \/ \E S \in SUBSET Recipients : AuthorizeSome(S) \/ GiveUp(S)
  \/ \E r \in Recipients : StartAttempt(r)
  \/ \E r \in Recipients, i \in Attempts : Conclude(r, i) \/ ReportFailure(r, i)

Spec == Init /\ [][Next]_vars
=============================================================================
