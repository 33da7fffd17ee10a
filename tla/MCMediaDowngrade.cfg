\* Violated: the late failure of one download makes unavailable what another one stored.
SPECIFICATION MCSpec
CONSTANTS
  p1 = p1
  p2 = p2
  t1 = t1
  t2 = t2
  t3 = t3
  r1 = r1
  r2 = r2
  a1 = a1
  b1 = b1
  x = x
  Absent = Absent
  Threads <- TwoThreads
  Templates <- ThreeTemplates
  Recontact <- None
  HelloWorld <- SampleTemplate
  Shapes <- SomeShapes
  Parameters <- SomeParameters
  Answers <- UsualAnswers
  MaxTries = 2
  SnapshotLimit = 2
  Budgets <- ReadsOnly
  Readers <- TwoReaders
  Inbound <- OneInbound
  Outbound <- OneOutbound
  Objects <- ThreeObjects
PROPERTY NeverDowngraded
CHECK_DEADLOCK FALSE
