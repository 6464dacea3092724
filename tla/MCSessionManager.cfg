SPECIFICATION Spec
CONSTANTS
  Stems = {"a", "", "session", "window", "pane"}
  UserNames <- MCNames
  Unnamed = Unnamed
  Deltas <- MCDeltas
  MaxSession = 2
  MaxWindow = 2
  MaxPane = 2
  MaxDowns = 3
INVARIANTS
  ManagerTypeOK
  HierarchyOK
  AnsweredIsDurable
  ServedIsDurable
  TargetsFound
