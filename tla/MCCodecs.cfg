SPECIFICATION Spec
CONSTANTS
  ByteBits = 3
  MaxBits = 24
  Magic <- MCMagic
  Pad = 0
  Sentinel = 1
  Pid <- MCPid
  ParticipantEntity <- MCParticipantEntity
  Messages <- MCMessages
  Unsendable <- MCUnsendable
INVARIANTS
  AcceptsOnlyValid
  RoundTrip
CHECK_DEADLOCK FALSE
