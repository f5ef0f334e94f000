----------------------------- MODULE MCAudioCache -----------------------------
(* A small instance of AudioCache for TLC. *)
EXTENDS AudioCache

CONSTANTS c1, c2, k1, k2, i1, i2
=============================================================================
