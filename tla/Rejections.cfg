SPECIFICATION Spec
CONSTANTS
  OrderIds = {o1}
  NTicks = 3
  LotSize = 1
  EntryLatencies <- MCSlowOrRejection
  ResponseLatencies <- MCLatency1
  PartialFill = FALSE
  OrderKinds <- MCAllKinds
  OrderQtys = {1, 2}
  FeedQtys = {1}
  FeedKinds = {"trade", "depth", "clear"}
  Openings <- MCSpread
  Requests = {"cancel", "resize", "clear"}
  Careful = TRUE
  MaxTs = 5
  MaxRequests = 3
  MaxEvents = 1
INVARIANTS NoZombie NoOrphanResponse LimitHonoured
