SPECIFICATION Spec
CONSTANTS
  Appenders = {daemon, tool}
  PruneEvery = 2
  MaxAge = 9
  PruneTo = 9
  MaxSize = 4
  CompressRotated = TRUE
  MaxRotatedDays = 1
  DayLen = 2
  WriteFaults = {"nothing"}
  ReplaceFaults = {"intact"}
  MaxAppends = 3
  MaxClock = 3
  MaxFaults = 0
  MaxCrashes = 0
  None = None
INVARIANT
  QueryMissesNothing
CHECK_DEADLOCK FALSE
