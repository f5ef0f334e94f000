-------------------------- MODULE DurableJobsLanes --------------------------
(***************************************************************************)
(* DurableJobs implements LaneQueue: a lane is the rows that carry its     *)
(* name, queued or running, in the order of their ids.  Who executes a job *)
(* of the lane is read off the workers, not off the rows: a row that was   *)
(* closed under its last attempt still has a worker.                       *)
(***************************************************************************)
EXTENDS DurableJobs

InLane(l) == {j \in Jobs : LaneOf[j] = l}

Waiting(l) == {j \in InLane(l) : rows[j].status \in {"queued", "running"}}

(* ORDER BY id, of jobs with distinct ids: the k-th is the one that k of
   them do not come after. *)
Place(U, id, j) == Cardinality({i \in U : id[i] <= id[j]})
Only(S) == CHOOSE j \in S : TRUE
ById(U, id) == [k \in 1..Cardinality(U) |-> Only({j \in U : Place(U, id, j) = k})]

LineOf(l) == ById(Waiting(l), [j \in Jobs |-> rows[j].id])
HeldOf(l) == {j \in InLane(l) : rows[j].status = "needs_reconciliation"}
Executed(j) == \E w \in Workers : run[w].job = j
DoingOf(l) == {j \in InLane(l) : Executed(j)}
StartsOf(l) == [j \in InLane(l) |-> rows[j].att]

\* How often a job may be claimed.
Budget(j) == IF j \in RetrySafe THEN MaxAttempts ELSE 1

UsedLanes == {LaneOf[j] : j \in Jobs} \ {NoLane}

Lane == INSTANCE LaneQueue WITH
  LaneNames <- UsedLanes,
  ItemsOf <- [l \in UsedLanes |-> InLane(l)],
  Tries <- [j \in Jobs |-> Budget(j)],
  line <- [l \in UsedLanes |-> LineOf(l)],
  held <- [l \in UsedLanes |-> HeldOf(l)],
  doing <- [l \in UsedLanes |-> DoingOf(l)],
  starts <- [l \in UsedLanes |-> StartsOf(l)],
  accepted <- {j \in Jobs : rows[j].status # "absent"}

(* A lane of the ledger behaves as a FIFO queue, executions included: the
   retries, recoveries and duplicate deliveries of durable_jobs.py never let a
   later job overtake an earlier one, start a job beside the one the lane is
   working on, or go past an unknown outcome, but for a retry-safe job that is
   closed under its last attempt, and which is then out of the line for good. *)
LanesAreQueues == Lane!LaneSpec
=============================================================================
