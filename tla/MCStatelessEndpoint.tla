------------------------- MODULE MCStatelessEndpoint -------------------------
(* Two readers.  One of them has been restarted at its address, so that    *)
(* two records lead to it; the other one is driven directly and receives   *)
(* while its history is full.                                              *)
EXTENDS StatelessEndpoint

CONSTANTS r1, r2, old, new, other

MCAddress == [d \in {old, new, other} |-> IF d = other THEN r2 ELSE r1]
=============================================================================
