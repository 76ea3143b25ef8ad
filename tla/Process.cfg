SPECIFICATION Spec
CONSTANTS
  Nodes = {1, 2}
  Own = 1
  None = None
  Configs <- MCConfigs
  Broken = Broken
  MaxFaults = 2
  MaxReloads = 2
INVARIANTS
  TypeOK
  ConfIsWhole
  ServerFollowsConf
  AppliedIsFollowed
  PrintsCurrentMaster
  ReloadNotLost
PROPERTIES
  QuitEndsProcess
