SPECIFICATION Spec
CONSTANTS
  Keys = {k1, k2, k3}
  Configs <- MCConfigs
  Capacity = 2
  Minute = 4
  DefaultWindow = 3
  InitialMax = 3
  MaxRetries = 2
  MaxClock = 5
  MaxEvals = 5
  MaxPostFaults = 2
  None = None
INVARIANTS
  RateBound
  PostsAccounted
PROPERTIES
  DedupWindow
  SuppressedInWindow
  LimitedOnlyWhenBusy
SYMMETRY SymmetricKeys
