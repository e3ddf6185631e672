SPECIFICATION Spec
CONSTANTS
  Requests = {r1}
  Items = {i1}
  Contents = {a, b}
  Dialects = {"postgresql"}
  Connectors = {"folder"}
  MaxEdits = 2
  MaxFaults = 0
  None = None
PROPERTY ChangedFileStored
CHECK_DEADLOCK FALSE
