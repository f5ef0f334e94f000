-------------------------- MODULE MCEmbeddingOutbox --------------------------
(* Small instances of EmbeddingOutbox for TLC. *)
EXTENDS EmbeddingOutbox, TLC

CONSTANTS p, x, y, old, new, w1, w2

BothNew == [w \in Workers |-> new]
=============================================================================
