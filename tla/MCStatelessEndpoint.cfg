CONSTANTS
  r1 = r1
  r2 = r2
  old = old
  new = new
  other = other
  Readers = {r1, r2}
  DataReaders = {r1}
  Records = {old, new, other}
  Address <- MCAddress
  MaxSequence = 2
  MaxArrivals = 3
  HistoryDepth = 1
SPECIFICATION Spec
INVARIANTS
  TypeOK
  TrueMeansSentToAll
PROPERTIES
  ImplementsBestEffort
CHECK_DEADLOCK FALSE
