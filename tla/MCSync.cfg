\* Two rows, pages of one, a transaction that may commit late; lists, pages and polls overlap.
SPECIFICATION MCSpec
CONSTANTS
  t1 = t1
  t2 = t2
  NoRow = NoRow
  NoCursor = NoCursor
  Ids = {1, 2}
  Transactions <- OneTransaction
  ListPlaces <- FewPlaces
  Limit = 1
  MaxTime = 2
  Ahead = 1
  Budgets <- BothFeeds
SYMMETRY SyncSymmetry
CHECK_DEADLOCK FALSE
INVARIANTS BrowserCatchesUp
