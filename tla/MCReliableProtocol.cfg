CONSTANTS
  r1 = r1
  r2 = r2
  Readers = {r1, r2}
  MaxSequence = 2
  MaxBits = 2
  MaxRetries = 1
  HistoryDepth = 1
SPECIFICATION FairSpec
INVARIANTS
  TypeOK
  ConfirmedReachesApplication
  NoSilentSkip
  AtMostOnce
PROPERTIES
  TakenInOrder
  ImplementsTopic
  EverySampleSettles
CHECK_DEADLOCK FALSE
