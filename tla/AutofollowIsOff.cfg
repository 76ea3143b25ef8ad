SPECIFICATION Spec
CONSTANTS
  Nodes = {1, 2}
  Own = 1
  None = None
  Configs <- MCConfigs
  Broken = Broken
  MaxFaults = 0
  MaxReloads = 1
PROPERTIES
  AutofollowIsOff
