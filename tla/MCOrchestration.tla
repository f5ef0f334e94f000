--------------------------- MODULE MCOrchestration ---------------------------
(* Small instances of Orchestration for TLC. *)
EXTENDS Orchestration, TLC

CONSTANTS a, b, w1, w2

Symmetry == Permutations(Workers)

\* b depends on a.
ChainDepends == [t \in Tasks |-> IF t = b THEN {a} ELSE {}]
ChainLayer == [t \in Tasks |-> IF t = b THEN 1 ELSE 0]
=============================================================================
