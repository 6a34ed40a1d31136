SPECIFICATION SpannSpec
CONSTANTS
  x = x
  y = y
  z = z
  v = v
  w = w
  None = None
  Ids <- MCIds
  Vectors <- MCVectors
  NumCents = 3
  MaxInserts = 5
SYMMETRY Symmetry
INVARIANT HeldOnce
INVARIANT ProbesFindGiven
CHECK_DEADLOCK FALSE
