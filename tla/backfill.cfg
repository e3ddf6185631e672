SPECIFICATION MCFairSpec
CONSTANTS
  x = x
  y = y
  None = None
  Docs = {1, 2}
  Texts <- ChunkTexts
  Groups = {g1, g2}
  g1 = g1
  Workers = {w1}
  PageSize = 1
  BatchSize = 1
  MaxRuns = 2
  MaxIngests = 1
  MaxFaults = 1
INVARIANT CompleteAfterSwap
PROPERTY RunEnds
CHECK_DEADLOCK FALSE
