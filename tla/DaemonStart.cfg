SPECIFICATION Spec
CONSTANTS
  Processes = {p1, p2}
  Clients = {c1}
  None = None
  Torn = Torn
CHECK_DEADLOCK FALSE
INVARIANTS
  LocalTypeOK
  FilesHaveOwners
  AloneItStarts
  OneServer
PROPERTIES
  NoTakeover
  RequestsEnd
