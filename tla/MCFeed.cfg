SPECIFICATION Spec
CONSTANTS
  Exact = {x, y}
  Wide = w
  Sources <- MCSources
  None = None
  BuiltIn = {x}
  Extra = {y}
  MaxUpdates = 2
  MaxCrashes = 1
INVARIANTS
  FoundIfListed
  RestartKeepsLive
PROPERTY
  ImplementsFeedSpec
CHECK_DEADLOCK FALSE
