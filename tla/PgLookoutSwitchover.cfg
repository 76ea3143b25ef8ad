SPECIFICATION Spec
CONSTANTS
  None = None
  Own = 3
  Nodes = {1, 3}
  Observers = {1}
  Configs <- MCObservers
  InitPrimary = {1}
  InitLsns <- MCSameLsn
  Observed = {1}
  Environment = {"demote", "promote", "partition", "unheard"}
  PollInterval = 1
  FreshLimit = 2
  FailoverLag = 1
  WarnLag = 1
  MasterTimeout = 1
  CatchupTimeout = 1
  ObserverWait = 1
  MaxTime = 1
  MaxLsn = 0
  MaxFaults = 2
  MaxRequests = 2
INVARIANTS
  NoFailoverOverLiveMaster
