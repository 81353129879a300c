SPECIFICATION Spec
CONSTANTS
  w1 = w1
  w2 = w2
  w3 = w3
  Writers = {w1, w2, w3}
  IfaceOf <- MCIfaceOf
  Packets <- MCPackets
  MaxFlows = 2
  MaxStamps = 2
  MaxAdds = 5
  None = None
INVARIANTS
  TypeOK
  FlowBound
  NoEarlyDrop
  TrackedAreCounted
  NothingLost
  FinalizedIsFinal
CHECK_DEADLOCK FALSE
