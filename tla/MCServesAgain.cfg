SPECIFICATION FairSpec
CONSTANTS
  Stems = {"a", "", "session", "window", "pane"}
  UserNames <- MCNames
  Unnamed = Unnamed
  Deltas = {}
  MaxSession = 1
  MaxWindow = 2
  MaxPane = 2
  MaxDowns = 1
PROPERTY
  ServesAgain
