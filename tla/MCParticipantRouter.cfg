CONSTANTS
  c1 = c1
  c2 = c2
  r1 = r1
  r2 = r2
  Channels = {c1, c2}
  Readers = {r1, r2}
  Writers = {}
  MaxDatagrams = 2
SPECIFICATION FairSpec
INVARIANTS
  TypeOK
  OneEndpointPerKey
  ReceivesItsDatagrams
  RemovedIsEmpty
  FailureReachesAll
PROPERTIES
  EndpointsAreReleased
  StopReturns
CHECK_DEADLOCK FALSE
