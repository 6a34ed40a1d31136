CONSTANTS
  a = a
  b = b
  v1 = v1
  v2 = v2
  bad = bad
  k1 = k1
  k2 = k2
  m1 = m1
  None = None
  Ids <- MCIds
  Vecs <- MCVecs
  BadVecs <- MCNoVecs
  WithDoc <- MCWithDoc
  MetaKeys <- MCNoKeys
  MetaValues <- MCMetaValues
  MaxLog = 4
  MaxBatch = 2
SYMMETRY IdSymmetry
SPECIFICATION Spec
INVARIANT AckedDurable
