\* Two WhatsApp opportunities of one customer, one command may commit in a scan;
\* or two clients who edit one opportunity.
SPECIFICATION FairSpec
CONSTANTS
  c1 = c1
  c2 = c2
  p1 = p1
  p2 = p2
  k1 = k1
  k2 = k2
  q1 = q1
  q2 = q2
  command1 = command1
  command2 = command2
  u1 = u1
  Nobody = Nobody
  Opportunities <- TwoOpportunities
  Customers <- OneCustomer
  Sources <- WhatsAppOnly
  Products <- TwoProducts
  Withdrawable <- OneProduct
  Assignees <- OneUser
  Clients <- TwoClients
  Requests <- OneRequest
  Commands <- OneCommand
  MaxHistory = 5
  MaxEdits = 2
  Aging <- OneOpportunity
  Maturing <- TwoOpportunities
  MaxOverlaps = 1
CONSTRAINT EditsOrJobs
INVARIANTS HistoryIsPipeline OneActiveWhatsApp LossEpisodes NoticesAreDue LegendaryIsEarned QuoteIsKept ReadingsAreExact
PROPERTIES OverdueIsNotified
CHECK_DEADLOCK FALSE
