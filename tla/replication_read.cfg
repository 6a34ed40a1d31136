SPECIFICATION Spec
CONSTANTS
  a = a
  b = b
  c = c
  w = w
  r = r
  None = None
  Nodes <- MCNodes
  Writes = {w}
  Reads = {r}
INVARIANT ReturnsAllResults
SYMMETRY Symmetry
CHECK_DEADLOCK FALSE
