SPECIFICATION MCSpec
CONSTANTS
  None = None
  Docs = {1, 2}
  Families = {f1}
  Scores = {1}
  Weights = {5}
  DefaultWeight <- Sevenths
  Limit = 2
  PageSize = 1
  TopK = 2
  MaxRelated = 1
  ChunkSize = 3
  PassageSize = 3
  TitleWords = 1
  MaxContext = 7
  MaxChunks = 2
  MaxChanges = 4
  Overlap = 2
  MaxSentence = 5
  MaxWords = 10
INVARIANTS ChunksCoverText SupersededHidden OlderNamesNewer ContextFits
CHECK_DEADLOCK FALSE
