CONSTANTS
  w1 = w1
  r1 = r1
  r2 = r2
  Entities = {w1, r1, r2}
  Kind <- MCKind
  ExplicitIds <- MCIds
  KeySpace = 3
SPECIFICATION EntitiesSpec
SYMMETRY Symmetry
INVARIANTS
  EntitiesTypeOK
  UsableOrError
  AnnouncementsAreBacked
CHECK_DEADLOCK FALSE
