SPECIFICATION Spec
CONSTANTS
  Exact = {x, y}
  Wide = w
  Sources <- MCSources
  None = None
  BuiltIn = {x}
  Extra = {y}
  MaxUpdates = 1
  MaxCrashes = 0
INVARIANT
  LocalFileFirst
CHECK_DEADLOCK FALSE
