----------------------------- MODULE MCBroadcast -----------------------------
(* TLC instances of BroadcastDispatch. *)
EXTENDS BroadcastDispatch, TLC

CONSTANTS w1, w2, u1, u2

OneRecipient == {1}
TwoRecipients == {1, 2}
OneWorker == {w1}
TwoWorkers == {w1, w2}
OneUser == {u1}
TwoUsers == {u1, u2}
UsableOnly == {"usable"}
NoConversations == {}
NoReports == {}
AllConversations == {"usable", "hidden", "foreign"}
HiddenOnly == {"usable", "hidden"}
ForeignOnly == {"usable", "foreign"}
AlwaysApproved == {TRUE}
AnyTemplate == BOOLEAN
DeliveredOrFailed == {"DELIVERED", "FAILED"}
FailedOnly == {"FAILED"}
AllReports == {"SENT", "DELIVERED", "READ", "FAILED"}

\* The starter is not deactivated; what changes is the consent of the first
\* recipient or the phone of another.
ConsentOrPhone ==
  starterActive /\ \A r \in Recipients : IF r = 1 THEN reachable[r] ELSE optedIn[r]

WorkerSymmetry == Permutations(TwoWorkers)
=============================================================================
