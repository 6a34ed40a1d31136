SPECIFICATION IvfSpec
CONSTANTS
  x = x
  y = y
  z = z
  None = None
  Ids <- MCIds
  K = 2
  Threshold = 0
  MaxRows = 4
SYMMETRY Symmetry
INVARIANT RowsAgree
INVARIANT NeverLost
INVARIANT SearchExact
CHECK_DEADLOCK FALSE
