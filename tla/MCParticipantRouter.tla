-------------------------- MODULE MCParticipantRouter --------------------------
(* Two channel objects, for two readers, which one datagram may address    *)
(* together, or for one reader and its successor under the same EntityId.  *)
(* Two datagrams have an order; those for writers find nobody.             *)
EXTENDS ParticipantRouter

CONSTANTS c1, c2, r1, r2
=============================================================================
