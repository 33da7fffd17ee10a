\* Two messages, two replies by two requests, commands, changes, delivery events, a crash.
SPECIFICATION Spec
CONSTANTS
  m1 = m1
  m2 = m2
  a1 = a1
  a2 = a2
  q1 = q1
  q2 = q2
  c1 = c1
  c2 = c2
  NoRow = NoRow
  Idle = Idle
  Inbounds <- TwoInbounds
  Replies <- TwoReplies
  Requests <- TwoRequests
  Customers <- TwoCustomers
  Reports <- AllReports
  Window = 1
  MaxTime = 2
  MaxOpportunities = 2
  Budgets <- ManyBudgets
SYMMETRY InboxSymmetry
CHECK_DEADLOCK FALSE
INVARIANTS UnreadIsSeen UnansweredIsWaiting OneReplyAtATime DeliveryFollowsEvidence LinkFollowsCustomer
