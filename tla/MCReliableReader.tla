--------------------------- MODULE MCReliableReader ---------------------------
(* A writer that uses all numbers, and a second one whose only sample      *)
(* competes with them for the history.                                     *)
EXTENDS ReliableReader

CONSTANTS w1, w2

MCLastSample == [w \in Writers |-> IF w = w1 THEN MaxSequence ELSE 1]

(* Bound: the last number of w1 is there for GAPs longer than the reader   *)
(* remembers, and is not needed while the writers compete.                 *)
MCApart ==
  \/ /\ reader[w1].last_announced < MaxSequence
     /\ MaxSequence \notin heard[w1] \cup excused[w1]
  \/ /\ heard[w2] \cup excused[w2] = {}
     /\ ~reader[w2].range_initialized
=============================================================================
