---------------------------- MODULE MCOpportunity ----------------------------
(* TLC instances of Opportunity. *)
EXTENDS Opportunity, TLC

CONSTANTS c1, c2, p1, p2, k1, k2, q1, q2, command1, command2, u1

None == {}
OneOpportunity == {1}
TwoOpportunities == {1, 2}
OneCustomer == {c1}
TwoCustomers == {c1, c2}
WhatsAppOnly == {"WHATSAPP"}
WebToo == {"WHATSAPP", "WEB"}
OneProduct == {p1}
TwoProducts == {p1, p2}
OneClient == {k1}
TwoClients == {k1, k2}
OneRequest == {q1}
TwoRequests == {q1, q2}
OneCommand == {command1}
OneUser == {u1}

\* What the runs look at together: either clients read and edit one opportunity,
\* whose product may be withdrawn, ...
OnlyEdits ==
  /\ \A o \in Opportunities \ {1} : status[o] = "none"
  /\ \A c \in Customers : pending[c] = Nobody \/ pending[c].opportunity = 1
  /\ \A o \in Opportunities : Len(history[o]) <= 4
  /\ archived = {} /\ overdue = {} /\ overlaps = 0 /\ mature = {} /\ scan = Nobody

\* ... or nobody edits, and the opportunities become overdue and old.
OnlyJobs ==
  /\ \A k \in Clients : seen[k] = Nobody
  /\ offered = Products
  /\ \A o \in Opportunities :
       /\ products[o] \subseteq {p1}
       /\ version[o] <= Len(history[o]) + (IF o \in deleted THEN 1 ELSE 0)

EditsOrJobs == OnlyEdits \/ OnlyJobs
=============================================================================
