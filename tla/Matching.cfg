SPECIFICATION Spec
CONSTANTS
  OrderIds = {o1, o2}
  NTicks = 4
  LotSize = 3
  EntryLatencies <- MCLatency0and1
  ResponseLatencies <- MCLatency0and1
  PartialFill = TRUE
  OrderKinds <- MCLimitGTC
  OrderQtys = {5}
  FeedQtys = {1, 3}
  FeedKinds = {"depth", "trade"}
  Openings <- MCSpread
  Requests = {"cancel"}
  Careful = FALSE
  MaxTs = 2
  MaxRequests = 2
  MaxEvents = 2
SYMMETRY MCSymmetry
INVARIANTS IndexConsistent NoRestingCross FillsConserved NoOverfill FilledUpToHalfALot BusesAhead
PROPERTIES TradesSweep
