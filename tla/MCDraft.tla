------------------------------- MODULE MCDraft -------------------------------
(* TLC instances of BroadcastDraft. *)
EXTENDS BroadcastDraft, TLC

CONSTANTS c1, c2, n1, n2, x1, x2, t1, t2, k1, k2, m1, m2, m3

OneCustomer == {c1}
TwoCustomers == {c1, c2}
OnePhone == {n1}
TwoPhones == {n1, n2}
OneContent == {x1}
TwoContents == {x1, x2}
OneSignature == {t1}
TwoSignatures == {t1, t2}
OneClient == {k1}
TwoClients == {k1, k2}
TwoCommands == {m1, m2}
ThreeCommands == {m1, m2, m3}

Symmetric == Permutations(TwoClients) \cup Permutations(ThreeCommands) \cup Permutations(TwoContents)
=============================================================================
