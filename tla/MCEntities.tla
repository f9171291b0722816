------------------------------ MODULE MCEntities ------------------------------
(* Two threads with readers and one with a writer; three values of the     *)
(* counter, so that it wraps; ids the application sets itself, one of them *)
(* the same for a reader and a writer.                                     *)
EXTENDS Entities, TLC

CONSTANTS w1, r1, r2

MCKind == [e \in {w1, r1, r2} |-> IF e = w1 THEN "writer" ELSE "reader"]
MCReaderKind == [e \in {r1, r2} |-> "reader"]
MCIds == {[key |-> 1, kind |-> "reader"]}

Symmetry == Permutations({r1, r2})
=============================================================================
