CONSTANTS
  d1 = d1
  d2 = d2
  p1 = p1
  p2 = p2
  Deliveries = {d1, d2}
  Processors = {p1, p2}
  ClaimLimit = 2
  Timeout = 1
  Stale = 3
  MaxAttempts = 2
  MaxTroubles = 2
  None = None
SPECIFICATION FairDelivery
INVARIANTS OneHolder PostsAreBounded
PROPERTIES OutcomeStays DeliveriesSettle
CHECK_DEADLOCK FALSE
