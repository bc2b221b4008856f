SPECIFICATION ResolutionSpec
CONSTANTS
  Paths <- MCPaths
  Mounts <- MCMounts
  MaxMounts = 3
CHECK_DEADLOCK FALSE
INVARIANTS
  SlotsComplete
  WithinCapacity
  OverlaysGetTheirLayers
  FilesAreGenuine
