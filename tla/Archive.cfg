SPECIFICATION Spec
CONSTANTS
  Bodies <- MCBodies
  Feeds <- MCFeeds
  FeedRank <- MCRank
  Pruners = {p}
  Retention = 1
  MaxBytes = 4
  NoLimit = NoLimit
  BytesOf <- MCBytes
  None = None
  MaxDay = 2
  MaxCycles = 2
  MaxFaults = 1
  MaxPrunes = 2
INVARIANTS KeptManifestIsLoadable
PROPERTIES CyclesEnd
CHECK_DEADLOCK FALSE
