CONSTANTS
  p1 = p1
  p2 = p2
  reader = reader
  Participants = {p1, p2}
  Endpoints = {reader}
  Owner <- MCOwner
  Waiting = {p2}
  Wanted = {reader}
SPECIFICATION FairSpec
INVARIANTS
  TypeOK
  NothingUnannounced
  NobodySleepsOnAMatch
PROPERTIES
  Discovered
CHECK_DEADLOCK FALSE
