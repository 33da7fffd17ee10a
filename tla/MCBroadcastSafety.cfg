\* Two workers on one recipient; one claim may expire under a slow worker.
SPECIFICATION Spec
CONSTANTS
  w1 = w1
  w2 = w2
  u1 = u1
  u2 = u2
  NoOne = NoOne
  Recipients <- OneRecipient
  Workers <- TwoWorkers
  Users <- OneUser
  Starter = u1
  BatchSize = 1
  MaxAttempts = 2
  MaxSlow = 1
  MaxCrashes = 1
  MaxChanges = 1
  ConversationKinds <- AllConversations
  TemplateAnswers <- AlwaysApproved
  Reports <- DeliveredOrFailed
SYMMETRY WorkerSymmetry
INVARIANTS AtMostOneCall NoDoubleDelivery ProjectionFollowsLatest
PROPERTIES ImplementsLedger OnlyChangedConditionsBlock
