\* Liveness under fair scheduling: batches of one, a crash, a retry, and one
\* change of consent or phone.
SPECIFICATION FairSpec
CONSTANTS
  w1 = w1
  w2 = w2
  u1 = u1
  u2 = u2
  NoOne = NoOne
  Recipients <- TwoRecipients
  Workers <- OneWorker
  Users <- OneUser
  Starter = u1
  BatchSize = 1
  MaxAttempts = 2
  MaxSlow = 0
  MaxCrashes = 1
  MaxChanges = 1
  ConversationKinds <- NoConversations
  TemplateAnswers <- AnyTemplate
  Reports <- NoReports
CONSTRAINT ConsentOrPhone
PROPERTIES EventuallyCompletes InProgressSettles ChangedConditionBlocks
