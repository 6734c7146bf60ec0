SPECIFICATION Spec
CONSTANTS
  NAssets = 1
  OrderIds = {o1}
  EntryLatencies = {1}
  ResponseLatencies = {0, 1}
  Durations = {2}
  INT64_MAX = 99
  Feeds <- MCFeeds
  MaxTs = 3
  MaxRequests = 1
PROPERTY AnswerReported
