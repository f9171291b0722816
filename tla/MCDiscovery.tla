----------------------------- MODULE MCDiscovery -----------------------------
(* Two participants.  p1 has a reader, which may go and come back, and p2  *)
(* a writer that waits for it.                                             *)
EXTENDS Discovery

CONSTANTS p1, p2, reader

MCOwner == [e \in {reader} |-> p1]
=============================================================================
