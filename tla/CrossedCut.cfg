SPECIFICATION Spec
CONSTANTS
  OrderIds = {o1}
  NTicks = 4
  LotSize = 2
  FeedQtys = {1}
  SnapshotQtys = {1}
  EventKinds = {"depth", "cut"}
  RoiLow = 2
  RoiHigh = 4
INVARIANT NotCrossed
