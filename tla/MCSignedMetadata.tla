--------------------------- MODULE MCSignedMetadata ---------------------------
(* A small instance of SignedMetadata for TLC. *)
EXTENDS SignedMetadata

CONSTANTS c1, c2, v1, v2
=============================================================================
