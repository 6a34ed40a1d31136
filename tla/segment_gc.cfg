SPECIFICATION GCSpec
CONSTANTS
  s1 = s1
  s2 = s2
  r1 = r1
  r2 = r2
  Segments <- MCSegments
  Readers <- MCReaders
  MaxMarked = 3
  MaxCounters = 3
SYMMETRY Symmetry
INVARIANT FenceHolds
INVARIANT StillMarked
CHECK_DEADLOCK FALSE
