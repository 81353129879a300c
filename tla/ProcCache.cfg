SPECIFICATION Spec
CONSTANTS
  Pids = {p1, p2}
  Builders = {old, new}
  MaxStarts = 2
  None = None
INVARIANTS
  TypeOK
  ReusedIsResolvedAnew
PROPERTY
  NoLeak
