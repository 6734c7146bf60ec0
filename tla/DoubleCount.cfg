SPECIFICATION Spec
CONSTANTS
  OrderIds = {o1}
  NTicks = 3
  LotSize = 1
  EntryLatencies <- MCLatency1
  ResponseLatencies <- MCLatency1
  PartialFill = TRUE
  OrderKinds <- MCLimitGTC
  OrderQtys = {2}
  FeedQtys = {2}
  FeedKinds = {"trade"}
  Openings <- MCSpread
  Requests = {"cancel"}
  Careful = TRUE
  MaxTs = 6
  MaxRequests = 2
  MaxEvents = 2
INVARIANTS PositionsAgree
