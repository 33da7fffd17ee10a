\* Two replies of unknown acceptance.
SPECIFICATION Spec
CONSTANTS
  m1 = m1
  m2 = m2
  a1 = a1
  a2 = a2
  q1 = q1
  q2 = q2
  c1 = c1
  c2 = c2
  NoRow = NoRow
  Idle = Idle
  Inbounds <- OneInbound
  Replies <- TwoReplies
  Requests <- OneRequest
  Customers <- TwoCustomers
  Reports <- SentOrFailed
  Window = 1
  MaxTime = 2
  MaxOpportunities = 2
  Budgets <- OnlyReplies
CHECK_DEADLOCK FALSE
INVARIANTS ReplyIsPossible
