CONSTANTS
  w1 = w1
  w2 = w2
  Writers = {w1, w2}
  LastSample <- MCLastSample
  MaxSequence = 4
  MaxBits = 2
  HistoryDepth = 2
SPECIFICATION Spec
INVARIANTS
  TypeOK
  SkipsOnlyExcused
  NothingWithheld
  AcksHonestly
PROPERTIES
  AcksAreKept
  GapIsFinal
  TakenInOrder
CONSTRAINT MCApart
CHECK_DEADLOCK FALSE
