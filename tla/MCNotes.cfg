\* Two users, two requests: changes of users against logins, or notes against each other.
SPECIFICATION NotesSpec
CONSTANTS
  u1 = u1
  u2 = u2
  e1 = e1
  e2 = e2
  q1 = q1
  q2 = q2
  k1 = k1
  k2 = k2
  k3 = k3
  o1 = o1
  b1 = b1
  b2 = b2
  NoUser = NoUser
  Keep = Keep
  Users <- TwoUsers
  Emails <- TwoEmails
  Passwords <- TwoPasswords
  Requests <- TwoRequests
  CommandIds <- ThreeCommands
  Opportunities <- OneOpportunity
  Bodies <- TwoBodies
  MaxTime = 2
  MaxNotes = 2
  Budgets <- BothBudgets
SYMMETRY NotesSymmetry
CHECK_DEADLOCK FALSE
INVARIANTS NoRevokedSession RevisionsAreChained AnswersAreOwn PagesAreComplete
