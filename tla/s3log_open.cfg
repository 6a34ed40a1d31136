SPECIFICATION Spec
CONSTANTS
  w = w
  p = p
  q = q
  None = None
  Writer = w
  Readers <- MCReaders
  Clients <- MCClients
  MaxPerPrefix = 1
  MaxSeq = 2
  MaxAppends = 3
  MaxCrashes = 1
SYMMETRY Symmetry
CHECK_DEADLOCK FALSE
INVARIANT NeverTruncated
