SPECIFICATION Spec
CONSTANTS
  a = a
  b = b
  c = c
  i = i
  j = j
  q1 = q1
  q2 = q2
  None = None
  Size = 4
  Nodes <- MCNodes
  Ids <- MCIds
  Homes <- MCHomes
  Reqs <- MCReqs
  Placements <- MCPlacements
  Batch = 2
  MaxHops = 3
  MaxChanges = 1
SYMMETRY Symmetry
INVARIANT TypeOK
INVARIANT NoForwardLoop
INVARIANT StoredAtOwner
INVARIANT AckedStored
INVARIANT SearchFindsAcked
CHECK_DEADLOCK FALSE
