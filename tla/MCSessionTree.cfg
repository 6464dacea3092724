SPECIFICATION TreeSpec
CONSTANTS
  Stems = {"a", "session", "window", "pane"}
  UserNames <- MCNames
  Unnamed = Unnamed
  Deltas = {}
  MaxSession = 2
  MaxWindow = 3
  MaxPane = 3
INVARIANTS
  TypeOK
  NamesUnique
  IndexesUnique
  ActiveIsLive
  IdsLiveOnce
  LayoutMatchesPanes
PROPERTIES
  IdsNeverReused
