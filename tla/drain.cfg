SPECIFICATION FairSpec
CONSTANTS
  k1 = k1
  k2 = k2
  Consumers = {c1, c2}
  Keys = {k1, k2}
  N = 4
  KeyOf <- ItemOf
  Bad = {4}
  MaxFaults = 3
  None = None
INVARIANTS KTypeOK OffsetsAccounted RunOnce
PROPERTY EveryEventHandled
CHECK_DEADLOCK FALSE
