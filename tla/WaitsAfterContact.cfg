SPECIFICATION Spec
CONSTANTS
  None = None
  Nodes = {1, 2, 3}
  Daemons = {1, 2}
  InitPrimary = 3
  Networks <- MCNetworks
  InitLsns <- MCLsns
  Orders <- MCOrders
  FailoverLag = 1
  MaxLsn = 1
  MaxFaults = 2
PROPERTIES
  WaitsAfterContact
