SPECIFICATION FairSpec
CONSTANTS
  NAssets = 2
  OrderIds = {o1, o2}
  EntryLatencies <- MCEntry
  ResponseLatencies = {0, 1}
  Durations = {0, 2}
  INT64_MAX = 99
  Feeds <- MCFeeds
  MaxTs = 3
  MaxRequests = 2
INVARIANTS TypeOK SlotsFresh
PROPERTIES IsTimeline WaitEndsAtAnswer ResultTold CallsReturn
