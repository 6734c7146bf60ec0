SPECIFICATION FairSpec
CONSTANTS
  Readers = {local, exch}
  ConsumerCount = 2
  Recordings <- MCRecordings
INVARIANTS LoadedOnce HeldIsResident ResidencyBounded
PROPERTIES IsFlatReplay
