\* One phone's conversation is resolved to another customer.
SPECIFICATION FairSpec
CONSTANTS
  w1 = w1
  w2 = w2
  u1 = u1
  u2 = u2
  NoOne = NoOne
  Recipients <- TwoRecipients
  Workers <- OneWorker
  Users <- OneUser
  Starter = u1
  BatchSize = 1
  MaxAttempts = 1
  MaxSlow = 0
  MaxCrashes = 0
  MaxChanges = 1
  ConversationKinds <- ForeignOnly
  TemplateAnswers <- AlwaysApproved
  Reports <- FailedOnly
PROPERTIES OthersGoOn
