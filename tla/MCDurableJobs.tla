---------------------------- MODULE MCDurableJobs ----------------------------
(* A small instance of DurableJobs for TLC. *)
EXTENDS DurableJobsLanes

CONSTANTS a, b, u, lane, w1, w2

OneUser == [j \in Jobs |-> u]
OneLane == [j \in Jobs |-> lane]
DoublingBackoff == [n \in 1..MaxAttempts |-> IF n = 1 THEN 1 ELSE 2]
=============================================================================
