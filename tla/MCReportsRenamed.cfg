\* A product renamed between two losses: the products of a period add up to less
\* than its card.
SPECIFICATION MCSpec
CONSTANTS
  c1 = c1
  p1 = p1
  p2 = p2
  q1 = q1
  command1 = command1
  north = north
  south = south
  asphalt = asphalt
  emulsion = emulsion
  sealant = sealant
  w1 = w1
  Nobody = Nobody
  Opportunities <- TwoOpportunities
  Customers <- OneCustomer
  Sources <- WebToo
  Products <- TwoProducts
  Withdrawable <- None
  Assignees <- None
  Clients <- None
  Requests <- OneRequest
  Commands <- OneCommand
  MaxHistory = 6
  MaxEdits = 1
  Aging <- None
  Maturing <- None
  MaxOverlaps = 0
  Provinces <- TwoProvinces
  Names <- ThreeNames
  Dimensions <- SomeDimensions
  Periods <- SomePeriods
  Walks <- OneWalk
  PageSize = 1
  MaxTime = 2
  MaxMoves = 1
  MaxWalks = 1
INVARIANTS ProductsAddUp
CHECK_DEADLOCK FALSE
