SPECIFICATION Spec
CONSTANTS
  Appenders = {daemon}
  PruneEvery = 2
  MaxAge = 3
  PruneTo = 1
  MaxSize = 2
  CompressRotated = TRUE
  MaxRotatedDays = 1
  DayLen = 2
  WriteFaults = {"nothing", "torn", "unindexed"}
  ReplaceFaults = {"intact", "lost", "unflagged"}
  MaxAppends = 4
  MaxClock = 5
  MaxFaults = 1
  MaxCrashes = 1
  None = None
INVARIANTS
  QueryMissesNothing
  RotationIsIdempotent
PROPERTIES
  StoredUntilExpired
  PruneBoundsFile
CHECK_DEADLOCK FALSE
