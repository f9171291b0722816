-------------------------- MODULE MCReliableProtocol --------------------------
(* Two readers, two samples, one retry: a late joiner, a sample given up   *)
(* and passed over, stale answers of the first sample during the delivery  *)
(* of the second.                                                          *)
EXTENDS ReliableProtocol
=============================================================================
