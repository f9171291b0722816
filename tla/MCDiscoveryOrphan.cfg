CONSTANTS
  p1 = p1
  p2 = p2
  reader = reader
  Participants = {p1, p2}
  Endpoints = {reader}
  Owner <- MCOwner
  Waiting = {}
  Wanted = {reader}
SPECIFICATION LeaseSpec
PROPERTY RecordsFollowLease
CHECK_DEADLOCK FALSE
