CONSTANTS
  w1 = w1
  r1 = r1
  r2 = r2
  Entities = {r1, r2}
  Kind <- MCReaderKind
  ExplicitIds <- MCIds
  KeySpace = 3
SPECIFICATION EntitiesSpec
INVARIANT LiveIsAnnounced
CHECK_DEADLOCK FALSE
