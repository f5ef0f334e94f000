---------------------------- MODULE MCDialoguePage ----------------------------
(* Small instances of DialoguePage for TLC. *)
EXTENDS DialoguePage

CONSTANT task1
=============================================================================
