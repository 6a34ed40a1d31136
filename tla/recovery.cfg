SPECIFICATION Spec
CONSTANTS
  h = h
  f = f
  a = a
  v = v
  None = None
  Cols <- MCCols
  Hnsw <- MCHnsw
  Ids <- MCIds
  Vecs <- MCVecs
  MaxLog = 3
  MaxRestarts = 2
INVARIANT TypeOK
INVARIANT NothingInvented
INVARIANT CollectionsSurvive
INVARIANT QuietSnapshotCovers
INVARIANT RecoveryComplete
CHECK_DEADLOCK FALSE
