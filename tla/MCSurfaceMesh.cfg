SPECIFICATION MeshSpec
CONSTANTS
  Boundaries <- MCBoundaries
  Surfaces <- MCSurfaces
  Probes <- MCProbes
  MaxVertices = 12
  Floor = 0
  MaxTriangles = 40
  MaxEdgeTests = 740
  MaxAway <- MCMaxAway
INVARIANTS
  AreaKept
  Triangulated
  EveryPointOnce
  SidesCloseTheHeap
CHECK_DEADLOCK FALSE
