SPECIFICATION FairSpec
CONSTANTS
  OrderIds = {o1}
  NTicks = 3
  LotSize = 1
  EntryLatencies <- MCLatency0and1
  ResponseLatencies <- MCLatency1
  PartialFill = FALSE
  OrderKinds <- MCLimitGTC
  OrderQtys = {1}
  FeedQtys = {1}
  FeedKinds = {"depth", "trade", "clear"}
  Openings <- MCSpread
  Requests = {"cancel", "reprice"}
  Careful = TRUE
  MaxTs = 4
  MaxRequests = 3
  MaxEvents = 2
INVARIANTS TypeOK PositionsAgree ViewsAgree PendingHasReply
PROPERTIES CloseSettles
