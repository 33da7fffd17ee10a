------------------------------- MODULE MCNotes -------------------------------
(* TLC instances of Notes, and with it of Sessions. *)
EXTENDS Notes, TLC

CONSTANTS u1, u2, e1, e2, q1, q2, k1, k2, k3, o1, b1, b2

TwoUsers == {u1, u2}
TwoEmails == {e1, e2}
TwoPasswords == {"old", "new"}
TwoRequests == {q1, q2}
ThreeCommands == {k1, k2, k3}
OneOpportunity == {o1}
TwoBodies == {b1, b2}

Budget(logins, requests, changes, notes_) ==
  [logins |-> logins, requests |-> requests, changes |-> changes, notes |-> notes_]
SessionBudgets == {Budget(2, 2, 2, 0)}
NoteBudgets == {Budget(1, 3, 0, 3), Budget(1, 2, 1, 2)}
BothBudgets == SessionBudgets \cup NoteBudgets

NotesSymmetry ==
  Permutations(TwoEmails) \cup Permutations(TwoRequests) \cup Permutations(ThreeCommands)
    \cup Permutations(TwoUsers) \cup Permutations(TwoBodies)
=============================================================================
