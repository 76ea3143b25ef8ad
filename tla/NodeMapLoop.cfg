SPECIFICATION Spec
CONSTANTS
  None = None
  Own = 1
  PollInterval = 1
  Clusters <- MCClusters
  Order <- MCOrder
  Reports <- MCReports
  Names = {1, 2, 3}
INVARIANTS
  LoopMatchesMap
  OneContactIsEnough
  OwnViewTrusted
CHECK_DEADLOCK FALSE
