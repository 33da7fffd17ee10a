\* Two requests of any kind, an import, one change by hand.
SPECIFICATION Spec
CONSTANTS
  r1 = r1
  r2 = r2
  r3 = r3
  s1 = s1
  k1 = k1
  k2 = k2
  b1 = b1
  e1 = e1
  e2 = e2
  p1 = p1
  p1b = p1b
  p2 = p2
  short = short
  key1 = key1
  key2 = key2
  co = co
  ca = ca
  x1 = x1
  x2 = x2
  Nothing = Nothing
  Requests <- TwoRequests
  Submissions <- OneSubmission
  Commands <- TwoCommands
  Batches <- OneBatch
  Files <- TwoRowFiles
  Emails <- OneEmail
  Phones <- PhoneForms
  Offered <- Leads
  Companies <- OneCompany
  KeyOf <- Keys
  Rank <- RankInOrder
  Rests <- RestsOfALead
  Kinds <- AllKinds
  Beginnings <- SomeKnown
  MaxByHand = 1
SYMMETRY RequestSymmetry
INVARIANTS DuplicatesOnlyByHand DuplicatesAreAnswered CyclesWaitForRows
PROPERTIES ImportDoesAsShown
CHECK_DEADLOCK FALSE
