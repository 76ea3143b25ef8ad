SPECIFICATION FairSpec
CONSTANTS
  Nodes = {n1, n2, n3}
  Configs = {{n1, n2}, {n2, n3}, {n1, n2, n3}}
  MaxRequests = 4
INVARIANTS
  TypeOK
  RefreshIsFresh
  AnswerNotLost
PROPERTIES
  AwaitEnds
