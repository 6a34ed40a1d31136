CONSTANTS
  a = a
  b = b
  v1 = v1
  v2 = v2
  m1 = m1
  Applier = Applier
  flusher = flusher
  None = None
  Drainers <- MCDrainers
  Ids <- MCIds
  Vecs <- MCOneVec
  Metas <- MCNoMetas
  Ef = 1
  MaxOps = 3
  MaxRebuilds = 1
SPECIFICATION FairSpec
INVARIANT TypeOK
INVARIANT GraphMapOK
INVARIANT NoVectorLost
INVARIANT MissesExplained
PROPERTY InsertsReachGraph
