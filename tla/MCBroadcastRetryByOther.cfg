\* A user who did not start the broadcast retries a failed recipient.
SPECIFICATION FairSpec
CONSTANTS
  w1 = w1
  w2 = w2
  u1 = u1
  u2 = u2
  NoOne = NoOne
  Recipients <- OneRecipient
  Workers <- OneWorker
  Users <- TwoUsers
  Starter = u1
  BatchSize = 1
  MaxAttempts = 2
  MaxSlow = 0
  MaxCrashes = 0
  MaxChanges = 0
  ConversationKinds <- UsableOnly
  TemplateAnswers <- AlwaysApproved
  Reports <- FailedOnly
PROPERTIES PendingIsHandled
