-------------------------------- MODULE MCSync --------------------------------
(* TLC instances of Sync. *)
EXTENDS Sync, TLC

CONSTANTS t1, t2

TwoTransactions == {t1, t2}
OneTransaction == {t1}
FewPlaces ==
  [f \in Feeds |-> IF f = "conversations" THEN {<<FALSE, 0, 0>>, <<TRUE, 1, 1>>} ELSE {1, 2}]
AllPlaces ==
  [f \in Feeds |-> IF f = "conversations"
                   THEN BOOLEAN \X (0..1) \X (0..1) ELSE {1, 2}]

Budget(conversations, messages, lists, ones) ==
  [conversations |-> conversations, messages |-> messages, lists |-> lists, ones |-> ones]
BothFeeds == {Budget(2, 0, 1, 0), Budget(1, 0, 2, 0), Budget(1, 0, 1, 1), Budget(0, 2, 1, 0),
              Budget(0, 1, 2, 0)}
TwoLists == {Budget(1, 0, 2, 0)}

\* A feed nothing is committed to is empty; ids are given in order.
MCInit ==
  /\ SyncInit
  /\ \A f \in Feeds, i \in Ids : budget[f] = 0 => rows[f][i] = NoRow
  /\ \A f \in Feeds : rows[f][2] # NoRow => rows[f][1] # NoRow
MCSpec == MCInit /\ [][SyncNext]_syncVars

SyncSymmetry == Permutations(TwoTransactions)
===============================================================================
