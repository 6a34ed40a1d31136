CONSTANTS
  a = a
  b = b
  v1 = v1
  v2 = v2
  m1 = m1
  Applier = Applier
  flusher = flusher
  None = None
  Drainers <- MCDrainers
  Ids <- MCIds
  Vecs <- MCOneVec
  Metas <- MCNoMetas
  Ef = 3
  MaxOps = 3
  MaxRebuilds = 1
SPECIFICATION Spec
INVARIANT WideBeamReachesAll
