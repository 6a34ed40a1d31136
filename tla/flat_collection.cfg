CONSTANTS
  a = a
  b = b
  v1 = v1
  v2 = v2
  bad = bad
  k1 = k1
  k2 = k2
  m1 = m1
  None = None
  Ids <- MCIds
  Vecs <- MCVecs
  BadVecs <- MCBadVecs
  WithDoc <- MCWithDoc
  MetaKeys <- MCMetaKeys
  MetaValues <- MCMetaValues
  MaxLog = 3
  MaxBatch = 1
SYMMETRY Symmetry
SPECIFICATION Spec
INVARIANT TypeOK
INVARIANT RowsMatchMap
INVARIANT IndexFollowsLog
INVARIANT DocsFollowIndex
INVARIANT AckedDurable
PROPERTY RefinesVectorStore
