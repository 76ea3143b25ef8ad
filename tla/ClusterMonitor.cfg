SPECIFICATION MonitorFairSpec
CONSTANTS
  None = None
  Own = 1
  PollInterval = 1
  Nodes = {1, 3}
  Observers = {}
  Observed = {3}
  Configs <- MCTwo
  InitPrimary = {3}
  InitLsns <- MCSameLsn
  Environment = {"down", "up", "demote", "sighup", "replicate"}
  MaxTime = 1
  MaxLsn = 0
  MaxFaults = 2
  MaxRequests = 1
INVARIANTS
  EntriesFollowConnections
PROPERTIES
  DeadNodeNoticed
  LiveNodeReconnected
  DroppedNodeForgotten
