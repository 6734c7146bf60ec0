SPECIFICATION Spec
CONSTANTS
  OrderIds = {o1}
  NTicks = 3
  LotSize = 1
  EntryLatencies <- MCLatency1
  ResponseLatencies <- MCLatency1
  PartialFill = FALSE
  OrderKinds <- MCLimitGTC
  OrderQtys = {1, 2}
  FeedQtys = {1}
  FeedKinds = {}
  Openings <- MCSpread
  Requests = {"resize"}
  Careful = TRUE
  MaxTs = 4
  MaxRequests = 2
  MaxEvents = 0
INVARIANTS PendingHasReply
