\* A command commits while the stale scan runs.
SPECIFICATION Spec
CONSTANTS
  c1 = c1
  c2 = c2
  p1 = p1
  p2 = p2
  k1 = k1
  k2 = k2
  q1 = q1
  q2 = q2
  command1 = command1
  command2 = command2
  u1 = u1
  Nobody = Nobody
  Opportunities <- OneOpportunity
  Customers <- OneCustomer
  Sources <- WhatsAppOnly
  Products <- OneProduct
  Withdrawable <- None
  Assignees <- None
  Clients <- None
  Requests <- None
  Commands <- None
  MaxHistory = 4
  MaxEdits = 0
  Aging <- OneOpportunity
  Maturing <- None
  MaxOverlaps = 1
INVARIANTS NoticesAreAlwaysDue
CHECK_DEADLOCK FALSE
