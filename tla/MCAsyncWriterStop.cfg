CONSTANTS
  c1 = c1
  c2 = c2
  Callers = {c1, c2}
  MaxChanges = 2
SPECIFICATION FairSpec
PROPERTIES
  DestructorReturns
CHECK_DEADLOCK FALSE
