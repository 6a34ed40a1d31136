SPECIFICATION Spec
CONSTANTS
  w = w
  p = p
  q = q
  None = None
  Writer = w
  Readers <- MCReaders
  Clients <- MCClients
  MaxPerPrefix = 1
  MaxSeq = 2
  MaxAppends = 3
  MaxCrashes = 1
SYMMETRY Symmetry
INVARIANT SlotsAccounted
INVARIANT AckedRecoverable
INVARIANT ReadsComplete
CHECK_DEADLOCK FALSE
