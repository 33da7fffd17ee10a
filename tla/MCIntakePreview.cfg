\* Two rows of a file name one customer by different signals.
SPECIFICATION Spec
CONSTANTS
  r1 = r1
  r2 = r2
  r3 = r3
  s1 = s1
  k1 = k1
  k2 = k2
  b1 = b1
  e1 = e1
  e2 = e2
  p1 = p1
  p1b = p1b
  p2 = p2
  short = short
  key1 = key1
  key2 = key2
  co = co
  ca = ca
  x1 = x1
  x2 = x2
  Nothing = Nothing
  Requests <- TwoRequests
  Submissions <- None
  Commands <- OneCommand
  Batches <- OneBatch
  Files <- SameCustomerFile
  Emails <- OneEmail
  Phones <- PhoneForms
  Offered <- Nobody
  Companies <- TwoCompanies
  KeyOf <- Keys
  Rank <- RankInOrder
  Rests <- OneRest
  Kinds <- Imports
  Beginnings <- Complete
  MaxByHand = 0
PROPERTIES PreviewCanCommit
CHECK_DEADLOCK FALSE
