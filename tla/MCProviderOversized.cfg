\* Violated: a send that Meta took, answered with a body that is too large, is reported as failed.
SPECIFICATION MCSpec
CONSTANTS
  p1 = p1
  p2 = p2
  t1 = t1
  t2 = t2
  t3 = t3
  r1 = r1
  r2 = r2
  a1 = a1
  b1 = b1
  x = x
  Absent = Absent
  Threads <- TwoThreads
  Templates <- ThreeTemplates
  Recontact <- None
  HelloWorld <- SampleTemplate
  Shapes <- SomeShapes
  Parameters <- SomeParameters
  Answers <- AllAnswers
  MaxTries = 2
  SnapshotLimit = 2
  Budgets <- SendsOnly
  Readers <- TwoReaders
  Inbound <- OneInbound
  Outbound <- OneOutbound
  Objects <- ThreeObjects
PROPERTY ImplementsContract
CHECK_DEADLOCK FALSE
