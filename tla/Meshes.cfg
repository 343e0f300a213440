SPECIFICATION Spec
CONSTANTS
  Names <- MCNames
  None = None
  Blocked = Blocked
  Reader = Reader
  MaxArcs = 2
  MaxDepth = 5
  PrimvarDefaults <- MCDefaults
  MaxDataVolume = 12
  InitialStages <- MCStages
  MergeOptions <- MCMergeOptions
  SplitOptions <- MCSplitOptions
  PrimvarOptions <- MCPrimvarOptions
  UVNames = {"st", "st1"}
  Networks <- MCNetworks
  UVPaths <- MCUVPaths
  MaxSteps = 2
INVARIANTS GeometrySound PiecesWhole
PROPERTIES SurfaceKept
CHECK_DEADLOCK FALSE
