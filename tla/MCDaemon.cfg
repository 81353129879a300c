SPECIFICATION Spec
CONSTANTS
  Procs = {"p", "q"}
  Dests = {"d1", "d2"}
  MaxDests = 1
  MinDestObs = 2
  MinBeaconingObs = 2
  StalePeriod = 0
  Flows <- MCFlows
  Configs <- MCConfigs
  None = None
  MaxFlows = 2
  MaxWindows = 2
  MaxRestarts = 1
  MaxFaults = 1
  MaxClock = 1
INVARIANTS
  TypeOK
  ExpectedStays
  StoredIsLearned
  AlertedUnlessEnded
PROPERTIES
  NewOnlyOnce
  SuppressedWasReported
  CancelStops
CHECK_DEADLOCK FALSE
