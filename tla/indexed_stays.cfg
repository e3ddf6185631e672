SPECIFICATION ISpec
CONSTANTS
  d1 = d1
  d2 = d2
  p1 = p1
  p2 = p2
  v1 = v1
  Docs = {d1}
  JobIds = {1, 2, 3}
  PipelineWorkers = {p1}
  VectorWorkers = {v1}
  TranslationWorkers = {}
  IndexWorkers = {}
  SeedTypes = {"process_document"}
  MaxAttempts = 2
  MaxFaults = 0
  NoRow = NoRow
  NoJob = NoJob
  VectorOutage = FALSE
PROPERTY IndexedStaysIndexed
CHECK_DEADLOCK FALSE
