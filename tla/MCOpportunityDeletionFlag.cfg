\* The deletion of a win that has earned the flag.
SPECIFICATION Spec
CONSTANTS
  c1 = c1
  c2 = c2
  p1 = p1
  p2 = p2
  k1 = k1
  k2 = k2
  q1 = q1
  q2 = q2
  command1 = command1
  command2 = command2
  u1 = u1
  Nobody = Nobody
  Opportunities <- TwoOpportunities
  Customers <- OneCustomer
  Sources <- WebToo
  Products <- OneProduct
  Withdrawable <- None
  Assignees <- None
  Clients <- None
  Requests <- None
  Commands <- None
  MaxHistory = 5
  MaxEdits = 0
  Aging <- None
  Maturing <- TwoOpportunities
  MaxOverlaps = 0
PROPERTIES DeletionIsRecomputed
CHECK_DEADLOCK FALSE
