SPECIFICATION Spec
CONSTANTS
  None = None
  Own = 1
  Nodes = {1, 3}
  Observers = {3}
  Configs <- MCWarnOnly
  InitPrimary = {3}
  InitLsns <- MCSameLsn
  Observed = {3}
  Environment = {"replicate"}
  PollInterval = 1
  FreshLimit = 2
  FailoverLag = 3
  WarnLag = 1
  MasterTimeout = 3
  CatchupTimeout = 1
  ObserverWait = 1
  MaxTime = 2
  MaxLsn = 0
  MaxFaults = 1
  MaxRequests = 2
PROPERTIES
  WaitsForObserver
