SPECIFICATION FairSpec
CONSTANTS
  Requesters = {r1}
  Viewers = {u1}
  Runners = {w1}
  SlowWorkers = {s1}
  Threshold = 1
  MaxVersions = 3
  MaxFaults = 1
  None = None
INVARIANTS VTypeOK NumbersDense QueuedHasRequest
PROPERTIES TranslationStaysShown TransactionsEnd
CHECK_DEADLOCK FALSE
