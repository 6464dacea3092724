SPECIFICATION Spec
CONSTANTS
  Stems = {"", "session", "window", "pane"}
  UserNames = {}
  Unnamed = Unnamed
  Deltas = {}
  MaxSession = 2
  MaxWindow = 3
  MaxPane = 2
  Clients = {c1}
  AttachTexts <- MCTexts
INVARIANTS
  ClientTypeOK
  ViewIsCurrent
  PlaceIsLive
  ViewIsClosed
PROPERTIES
  PlaceStays
