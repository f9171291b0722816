CONSTANTS
  c1 = c1
  c2 = c2
  Callers = {c1, c2}
  MaxChanges = 2
SPECIFICATION Spec
PROPERTIES
  TrueMeansDelivered
CHECK_DEADLOCK FALSE
