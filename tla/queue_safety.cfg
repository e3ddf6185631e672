SPECIFICATION HSpec
CONSTANTS
  d1 = d1
  d2 = d2
  p1 = p1
  p2 = p2
  v1 = v1
  Docs = {d1, d2}
  JobIds = {1, 2, 3, 4, 5}
  PipelineWorkers = {p1, p2}
  VectorWorkers = {v1}
  TranslationWorkers = {}
  IndexWorkers = {}
  SeedTypes = {"process_document"}
  MaxAttempts = 2
  MaxFaults = 2
  NoRow = NoRow
  NoJob = NoJob
SYMMETRY Symm
INVARIANTS TypeOK OneLiveClaim RunningNeverCommitted SuccessHasFollowUp AttemptsAccount ClaimsPaidFor
PROPERTY ImplementsLifecycle
CHECK_DEADLOCK FALSE
