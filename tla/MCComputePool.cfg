\* The callback may abort after the second node.
CONSTANTS
  N = 4
  Nodes = 4
  Chunks <- MCChunks
  AbortNodes = {2}
SPECIFICATION PoolSpec
INVARIANTS
  WorkBufferStable
  FreedMeansComputed
  NobodyStuck
PROPERTIES
  ComputedInOrder
  GraphEnds
CHECK_DEADLOCK FALSE
