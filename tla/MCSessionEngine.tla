-------------------------- MODULE MCSessionEngine --------------------------
(* Two calls in flight at a time, crossing launches included.  What a       *)
(* behaviour has been through is bounded: none is followed past a second    *)
(* loose engine or past a second mark.                                      *)
EXTENDS SessionEngine
CONSTANTS o1, o2
Bounded == Cardinality(loose) <= 1 /\ Cardinality(crossed) <= 1
=============================================================================
