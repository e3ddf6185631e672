SPECIFICATION Spec
CONSTANTS
  Docs = {d1}
  JobIds = {1, 2, 3, 4, 5, 6}
  PipelineWorkers = {p1}
  VectorWorkers = {v1}
  TranslationWorkers = {t1}
  IndexWorkers = {i1}
  SeedTypes = {"process_document", "translate_document"}
  MaxAttempts = 2
  MaxFaults = 2
  NoRow = NoRow
  NoJob = NoJob
INVARIANT ActiveUnique
CHECK_DEADLOCK FALSE
