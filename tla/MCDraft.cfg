\* Two clients, one customer: edits, validations, confirmations and changes between them.
SPECIFICATION Spec
CONSTANTS
  c1 = c1
  c2 = c2
  n1 = n1
  n2 = n2
  x1 = x1
  x2 = x2
  t1 = t1
  t2 = t2
  k1 = k1
  k2 = k2
  m1 = m1
  m2 = m2
  m3 = m3
  Nobody = Nobody
  Customers <- OneCustomer
  Phones <- OnePhone
  Contents <- TwoContents
  Signatures <- OneSignature
  Clients <- TwoClients
  Commands <- ThreeCommands
  MaxVersion = 3
  MaxTokens = 2
  MaxConsents = 2
  MaxChanges = 1
SYMMETRY Symmetric
INVARIANTS OneEffectPerCommand
PROPERTIES ConfirmedAsShown
CHECK_DEADLOCK FALSE
