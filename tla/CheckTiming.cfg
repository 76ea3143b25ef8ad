SPECIFICATION Spec
CONSTANTS
  MasterTimeout = 15
  CheckInterval = 5
  PollInterval = 5
  SelectTimeout = 5
  Answering = {1, 2, 3}
  SilentHosts = {0, 1}
  MaxForeign = 3
INVARIANTS
  TypeOK
  
  OnlyOthersGoAhead
  RequestsDoNotPileUp
PROPERTIES
  DecisionsGoOn
