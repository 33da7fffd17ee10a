\* A list is requested again while a poll is under way.
SPECIFICATION MCSpec
CONSTANTS
  t1 = t1
  t2 = t2
  NoRow = NoRow
  NoCursor = NoCursor
  Ids = {1, 2}
  Transactions <- OneTransaction
  ListPlaces <- FewPlaces
  Limit = 1
  MaxTime = 2
  Ahead = 1
  Budgets <- TwoLists
SYMMETRY SyncSymmetry
CHECK_DEADLOCK FALSE
INVARIANTS NewListStartsFresh
