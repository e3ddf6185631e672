SPECIFICATION Spec
CONSTANTS
  Requests = {r1, r2}
  Items = {i1, i2}
  Contents = {a, b}
  Dialects = {"postgresql", "sqlite"}
  Connectors = {"folder"}
  MaxEdits = 3
  MaxFaults = 1
  None = None
INVARIANTS STypeOK FamilyConsistent EveryDocumentQueued
PROPERTY SuccessStoresAll
CHECK_DEADLOCK FALSE
