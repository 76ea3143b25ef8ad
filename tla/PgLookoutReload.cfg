SPECIFICATION Spec
CONSTANTS
  None = None
  Own = 1
  Nodes = {1, 2, 3}
  Observers = {}
  Configs <- MCReload
  InitPrimary = {3}
  InitLsns <- MCSameLsn
  Observed = {3}
  Environment = {"sighup", "down", "restart", "replicate", "web", "followFails", "maintenance"}
  PollInterval = 1
  FreshLimit = 2
  FailoverLag = 1
  WarnLag = 1
  MasterTimeout = 1
  CatchupTimeout = 1
  ObserverWait = 1
  MaxTime = 1
  MaxLsn = 0
  MaxFaults = 1
  MaxRequests = 2
INVARIANTS
  TypeOK
  LagFailoverWasAnnounced
  WarningHasAlert
  AlertHasWarning
PROPERTIES
  ImplementsHandshake
