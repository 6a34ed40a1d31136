SPECIFICATION FairSpec
CONSTANTS
  a = a
  b = b
  c = c
  None = None
  Nodes <- MCNodes
  Peers <- MCPeers
  Fanout = 1
  MaxSeen = 2
  MaxBuffer = 3
  MaxEvents = 3
  MaxFaults = 1
INVARIANT TypeOK
INVARIANT RingTracked
INVARIANT QuietAgree
CHECK_DEADLOCK FALSE
PROPERTY RefinesClusterView
PROPERTY LoopsEnd
PROPERTY AliveReachesAll
