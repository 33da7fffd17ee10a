\* A reply whose delivery fails.
SPECIFICATION Spec
CONSTANTS
  m1 = m1
  m2 = m2
  a1 = a1
  a2 = a2
  q1 = q1
  q2 = q2
  c1 = c1
  c2 = c2
  NoRow = NoRow
  Idle = Idle
  Inbounds <- OneInbound
  Replies <- OneReply
  Requests <- OneRequest
  Customers <- TwoCustomers
  Reports <- SentOrFailed
  Window = 1
  MaxTime = 2
  MaxOpportunities = 2
  Budgets <- OneFailure
CHECK_DEADLOCK FALSE
INVARIANTS FailedDeliveryWaits
