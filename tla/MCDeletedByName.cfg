SPECIFICATION TreeSpec
CONSTANTS
  Stems = {"", "a", "session", "window", "pane"}
  UserNames <- MCNames
  Unnamed = Unnamed
  Deltas = {}
  MaxSession = 2
  MaxWindow = 2
  MaxPane = 2
INVARIANTS
  DeletedByName
