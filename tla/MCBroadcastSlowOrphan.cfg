\* A slow worker clears the claim of a message that is being sent.
SPECIFICATION FairSpec
CONSTANTS
  w1 = w1
  w2 = w2
  u1 = u1
  u2 = u2
  NoOne = NoOne
  Recipients <- OneRecipient
  Workers <- TwoWorkers
  Users <- OneUser
  Starter = u1
  BatchSize = 1
  MaxAttempts = 1
  MaxSlow = 1
  MaxCrashes = 1
  MaxChanges = 0
  ConversationKinds <- UsableOnly
  TemplateAnswers <- AlwaysApproved
  Reports <- FailedOnly
PROPERTIES InProgressSettles
