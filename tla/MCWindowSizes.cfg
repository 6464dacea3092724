SPECIFICATION Spec
CONSTANTS
  Starts <- MCStarts
  Deltas <- MCDeltas
INVARIANTS
  SizesTypeOK
  SizesFillWindow
PROPERTIES
  ResizeMovesOneBorder
