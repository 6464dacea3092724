SPECIFICATION Spec
CONSTANTS
  Stems = {"", "session", "window", "pane"}
  UserNames = {}
  Unnamed = Unnamed
  Deltas = {}
  MaxSession = 1
  MaxWindow = 1
  MaxPane = 2
  Clients = {c1}
  AttachTexts <- MCTexts
INVARIANTS
  ExitsReachClients
