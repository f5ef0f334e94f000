----------------------------- MODULE MCAgentRun -----------------------------
(* Small instances of AgentRun for TLC. *)
EXTENDS AgentRun, TLC

CONSTANTS a, b, x, y, w1, w2

WorkerSymmetry == Permutations(Workers)
=============================================================================
