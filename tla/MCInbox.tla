------------------------------- MODULE MCInbox -------------------------------
(* TLC instances of Inbox. *)
EXTENDS Inbox

CONSTANTS m1, m2, a1, a2, q1, q2, c1, c2

OneInbound == {m1}
TwoInbounds == {m1, m2}
OneReply == {a1}
TwoReplies == {a1, a2}
OneRequest == {q1}
TwoRequests == {q1, q2}
OneCustomer == {c1}
TwoCustomers == {c1, c2}
SentOrFailed == {"SENT", "FAILED"}
AllReports == {"SENT", "DELIVERED", "READ", "FAILED"}

Budget(commands, replies, changes, reports, crashes) ==
  [commands |-> commands, replies |-> replies, changes |-> changes, reports |-> reports,
   crashes |-> crashes]
ManyBudgets == {Budget(2, 0, 1, 0, 0), Budget(1, 1, 0, 2, 0), Budget(0, 2, 0, 1, 1)}
OneFailure == {Budget(0, 1, 0, 2, 0)}
OnlyReplies == {Budget(0, 2, 0, 0, 0)}

InboxSymmetry == Permutations(TwoInbounds) \cup Permutations(TwoReplies)
                   \cup Permutations(TwoRequests) \cup Permutations(TwoCustomers)
=============================================================================
