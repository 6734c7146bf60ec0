SPECIFICATION Spec
CONSTANTS
  Recordings <- MCRecordings
  Offsets <- MCOffsets
  Horizon = 7
  MaxTrips = 2
CHECK_DEADLOCK FALSE
INVARIANTS RejectionsKept WithinRecorded NoneOvertaken ReplaysRecording
