----------------------------- MODULE DurableJobs -----------------------------
(***************************************************************************)
(* The durable job ledger of the radio backend: one SQLite row per job,    *)
(* an outbox dispatcher that publishes due rows to the broker, Celery      *)
(* workers that claim a row, execute it and write its outcome back, and an *)
(* operator who resolves the rows whose outcome is unknown.                *)
(*                                                                         *)
(* A deadline column (lease_until, next_publish_at, available_at) is the   *)
(* time LEFT to it, floored at Past; the three tests the code makes,       *)
(* "> now", "<= now" and "< now", are  > 0,  <= 0  and  < 0  of that.      *)
(* The k-th claim of a job draws a fresh uuid; the model names it k, the   *)
(* value of attempts the same UPDATE writes, so NULL is 0.                 *)
(* A job id is derived from the call it stands for, so the columns that    *)
(* enqueue fixes for good (user, lane, retry_safe) are functions of it.    *)
(***************************************************************************)
EXTENDS Integers, FiniteSets

CONSTANTS
  Jobs, NoJob,
  Users, UserOf,
  NoLane, LaneOf,   \* LaneOf[j] = NoLane: the job has the empty lane
  RetrySafe,        \* jobs enqueued with retry_safe
  AgentJobs,        \* jobs dispatched through the agent runtime, the only ones
                    \* that raise JobReconciliationRequired or JobPermanentFailure
  Workers,          \* Celery worker processes
  Limit,            \* pending jobs a user may have (1000)
  MaxAttempts,      \* claims a retry-safe job may have (8)
  LeaseTime,        \* length of a claim's lease (330 s)
  RunLimit,         \* age at which Celery kills a task (270 s)
  ReserveTime,      \* a published row is not published again for this long (30 s)
  BackoffOf,        \* delay after the n-th attempt failed (min(2^n, 120) s)
  Batch,            \* rows one dispatcher pass may publish (32)
  MaxCopies         \* bound: messages of one job the broker holds at once

ASSUME ConstantsAssumption ==
  /\ IsFiniteSet(Jobs) /\ NoJob \notin Jobs
  /\ UserOf \in [Jobs -> Users]
  /\ RetrySafe \subseteq Jobs /\ AgentJobs \subseteq Jobs
  /\ Limit \in Nat /\ Batch \in Nat /\ MaxCopies \in Nat
  /\ MaxAttempts \in Nat \ {0} /\ LeaseTime \in Nat \ {0}
  /\ ReserveTime \in Nat \ {0} /\ RunLimit \in Nat
  /\ BackoffOf \in [1..MaxAttempts -> Nat]

VARIABLES
  rows,     \* the durable_jobs table
  lastId,   \* the AUTOINCREMENT counter of its primary key
  outbox,   \* rows the current dispatcher pass reserved and has yet to publish
  copies,   \* the broker: messages waiting per job
  run,      \* what each worker executes: the row it claimed, and for how long
  audit     \* durable_job_resolutions: the operator's last decision per job

vars == <<rows, lastId, outbox, copies, run, audit>>

Past == -1
Status == {"absent", "queued", "running", "completed", "failed",
           "needs_reconciliation"}
Settled == {"completed", "failed"}
Decision == {"completed", "failed"}
Outcome == {"result", "error", "reconcile", "permanent"}

Row == [status : Status, id : Nat, att : Nat, token : Nat,
        lease : Int, pub : Int, avail : Int]
NoRow == [status |-> "absent", id |-> 0, att |-> 0, token |-> 0,
          lease |-> Past, pub |-> Past, avail |-> Past]

Execution == [job : Jobs \cup {NoJob}, token : Nat, age : Nat]
Idle == [job |-> NoJob, token |-> 0, age |-> 0]

TypeOK ==
  /\ rows \in [Jobs -> Row]
  /\ lastId \in Nat
  /\ outbox \subseteq Jobs
  /\ copies \in [Jobs -> Nat]
  /\ run \in [Workers -> Execution]
  /\ audit \in [Jobs -> Decision \cup {"none"}]

Init ==
  /\ rows = [j \in Jobs |-> NoRow]
  /\ lastId = 0
  /\ outbox = {}
  /\ copies = [j \in Jobs |-> 0]
  /\ run = [w \in Workers |-> Idle]
  /\ audit = [j \in Jobs |-> "none"]

-----------------------------------------------------------------------------
(* enqueue.  A call with a known job id returns it, or raises when the     *)
(* input differs; either way nothing changes, so only the first call is an *)
(* action.                                                                 *)

Pending(u) == {j \in Jobs : UserOf[j] = u /\ rows[j].status \in {"queued", "running"}}

Enqueue(j) ==
  /\ rows[j].status = "absent"
  /\ Cardinality(Pending(UserOf[j])) < Limit
  /\ rows' = [rows EXCEPT ![j] = [NoRow EXCEPT !.status = "queued", !.id = lastId + 1]]
  /\ lastId' = lastId + 1
  /\ UNCHANGED <<outbox, copies, run, audit>>

-----------------------------------------------------------------------------
(* The dispatcher.  A pass is one transaction that recovers expired leases *)
(* and reserves the due rows, followed by one publish per reserved row.    *)

\* Mutant: the lease test is the wrong way round.
RecoveredLive(r, j) ==
  IF r.status = "running" /\ r.lease > 0
    THEN [r EXCEPT !.status = IF j \notin RetrySafe THEN "needs_reconciliation"
                              ELSE IF r.att < MaxAttempts THEN "queued" ELSE "failed",
                   !.token = 0, !.lease = Past]
    ELSE r

\* Mutant: nothing is recovered.
RecoveredNone(r, j) == r

Recovered(r, j) ==
  IF r.status = "running" /\ r.lease < 0
    THEN [r EXCEPT !.status = IF j \notin RetrySafe THEN "needs_reconciliation"
                              ELSE IF r.att < MaxAttempts THEN "queued" ELSE "failed",
                   !.token = 0, !.lease = Past]
    ELSE r

Due(rs) == {j \in Jobs : rs[j].status = "queued" /\ rs[j].pub <= 0}

\* ORDER BY created_at LIMIT Batch
FirstOf(due, rs) ==
  {j \in due : Cardinality({i \in due : rs[i].id < rs[j].id}) < Batch}

Poll ==
  /\ outbox = {}
  /\ LET rs == [j \in Jobs |-> Recovered(rows[j], j)]
     IN  /\ outbox' = FirstOf(Due(rs), rs)
         /\ rows' = [j \in Jobs |-> IF j \in FirstOf(Due(rs), rs)
                                      THEN [rs[j] EXCEPT !.pub = ReserveTime] ELSE rs[j]]
  /\ UNCHANGED <<lastId, copies, run, audit>>

\* The broker keeps at most MaxCopies messages of a job, a bound of the model.
AddCopy(j) == [copies EXCEPT ![j] = IF @ < MaxCopies THEN @ + 1 ELSE @]

Publish(j) ==
  /\ j \in outbox
  /\ \A i \in outbox : rows[j].id <= rows[i].id
  /\ outbox' = outbox \ {j}
  /\ copies' = AddCopy(j)
  /\ UNCHANGED <<rows, lastId, run, audit>>

\* The publisher raises, or the process dies: the rest of the pass is not
\* published, and its rows stay reserved for ReserveTime.
PassFails ==
  /\ outbox # {}
  /\ outbox' = {}
  /\ UNCHANGED <<rows, lastId, copies, run, audit>>

-----------------------------------------------------------------------------
(* claim, the first transaction of execute_job.  Its early returns, in the *)
(* order the code takes them.                                              *)

Refused(j) ==
  \/ rows[j].status \notin {"queued", "running"}
  \/ rows[j].status = "queued" /\ rows[j].avail > 0

Exhausted(j) == j \in RetrySafe /\ rows[j].att >= MaxAttempts

\* Mutant: a running row's lease is not looked at.
LeasedNever(j) == FALSE

Leased(j) == rows[j].status = "running" /\ rows[j].lease > 0

Lost(j) == rows[j].status = "running" /\ ~Leased(j) /\ j \notin RetrySafe

\* Mutant: the order of the queued jobs is ignored.
LaneBlockedUnordered(j) ==
  /\ LaneOf[j] # NoLane
  /\ \E i \in Jobs \ {j} :
       /\ LaneOf[i] = LaneOf[j]
       /\ rows[i].status \in {"running", "needs_reconciliation"}

LaneBlocked(j) ==
  /\ LaneOf[j] # NoLane
  /\ \E i \in Jobs \ {j} :
       /\ LaneOf[i] = LaneOf[j]
       /\ \/ rows[i].status \in {"running", "needs_reconciliation"}
          \/ rows[i].status = "queued" /\ rows[i].id < rows[j].id

Take(w, j) ==
  /\ run[w] = Idle
  /\ copies[j] > 0
  /\ copies' = [copies EXCEPT ![j] = @ - 1]

\* claim returns None and writes nothing; the task returns and is acknowledged.
ClaimNothing(w, j) ==
  /\ Take(w, j)
  /\ \/ Refused(j)
     \/ ~Exhausted(j) /\ Leased(j)
     \/ ~Exhausted(j) /\ ~Lost(j) /\ LaneBlocked(j)
  /\ UNCHANGED <<rows, lastId, outbox, run, audit>>

\* attempts are used up: the row is closed whatever its status, lease and token.
ClaimExhausted(w, j) ==
  /\ Take(w, j)
  /\ ~Refused(j) /\ Exhausted(j)
  /\ rows' = [rows EXCEPT ![j].status = "failed"]
  /\ UNCHANGED <<lastId, outbox, run, audit>>

\* the lease of a job that may not be replayed ran out: its token stays.
ClaimLost(w, j) ==
  /\ Take(w, j)
  /\ ~Refused(j) /\ ~Exhausted(j) /\ Lost(j)
  /\ rows' = [rows EXCEPT ![j].status = "needs_reconciliation"]
  /\ UNCHANGED <<lastId, outbox, run, audit>>

ClaimGranted(w, j) ==
  /\ Take(w, j)
  /\ ~Refused(j) /\ ~Exhausted(j) /\ ~Leased(j) /\ ~Lost(j) /\ ~LaneBlocked(j)
  /\ LET k == rows[j].att + 1
     IN  /\ rows' = [rows EXCEPT ![j] = [@ EXCEPT !.status = "running", !.lease = LeaseTime,
                                                  !.att = k, !.token = k]]
         /\ run' = [run EXCEPT ![w] = [job |-> j, token |-> k, age |-> 0]]
  /\ UNCHANGED <<lastId, outbox, audit>>

Receive(w, j) ==
  ClaimNothing(w, j) \/ ClaimExhausted(w, j) \/ ClaimLost(w, j) \/ ClaimGranted(w, j)

-----------------------------------------------------------------------------
(* The rest of execute_job: dispatch raises or returns, then finish runs   *)
(* in a transaction of its own, on the row as it was claimed.              *)

\* Mutant: a failure is tried again whether or not the job may be replayed.
StatusAfterRetried(j, att, outcome) ==
  CASE outcome = "result" -> "completed"
    [] outcome = "reconcile" -> "needs_reconciliation"
    [] outcome = "permanent" -> "failed"
    [] outcome = "error" -> IF att < MaxAttempts THEN "queued" ELSE "failed"

StatusAfter(j, att, outcome) ==
  CASE outcome = "result" -> "completed"
    [] outcome = "reconcile" -> "needs_reconciliation"
    [] outcome = "permanent" -> "failed"
    [] outcome = "error" -> IF j \notin RetrySafe THEN "needs_reconciliation"
                            ELSE IF att < MaxAttempts THEN "queued" ELSE "failed"

OutcomesOf(j) == IF j \in AgentJobs THEN Outcome ELSE {"result", "error"}

\* WHERE job_id=? AND lease_token=?
OwnsToken(w) == rows[run[w].job].token = run[w].token

Finish(w, outcome) ==
  LET j == run[w].job
      delay == BackoffOf[run[w].token]
  IN  /\ j # NoJob
      /\ outcome \in OutcomesOf(j)
      /\ rows' = IF OwnsToken(w)
                   THEN [rows EXCEPT ![j] =
                           [@ EXCEPT !.status = StatusAfter(j, run[w].token, outcome),
                                     !.token = 0, !.lease = Past,
                                     !.pub = delay, !.avail = delay]]
                   ELSE rows
      /\ run' = [run EXCEPT ![w] = Idle]
      /\ UNCHANGED <<lastId, outbox, copies, audit>>

\* The worker dies or is killed at its time limit, or its finish cannot write.
\* A lost worker's message is requeued, a timed out task's is acknowledged.
Crash(w) ==
  /\ run[w].job # NoJob
  /\ run' = [run EXCEPT ![w] = Idle]
  /\ \/ copies' = AddCopy(run[w].job)
     \/ UNCHANGED copies
  /\ UNCHANGED <<rows, lastId, outbox, audit>>

-----------------------------------------------------------------------------
(* job_admin.resolve, the broker, and the clock.                           *)

\* Mutant: every job that was enqueued may be resolved.
ResolveAny(j, decision) ==
  /\ rows[j].status # "absent"
  /\ rows' = [rows EXCEPT ![j].status = decision]
  /\ audit' = [audit EXCEPT ![j] = decision]
  /\ UNCHANGED <<lastId, outbox, copies, run>>

Resolve(j, decision) ==
  /\ rows[j].status = "needs_reconciliation"
  /\ rows' = [rows EXCEPT ![j].status = decision]
  /\ audit' = [audit EXCEPT ![j] = decision]
  /\ UNCHANGED <<lastId, outbox, copies, run>>

\* A connection drops: the unacknowledged message of a task that is still
\* executing is delivered again.
Redeliver(w) ==
  /\ run[w].job # NoJob
  /\ copies' = AddCopy(run[w].job)
  /\ UNCHANGED <<rows, lastId, outbox, run, audit>>

LoseMessage(j) ==
  /\ copies[j] > 0
  /\ copies' = [copies EXCEPT ![j] = @ - 1]
  /\ UNCHANGED <<rows, lastId, outbox, run, audit>>

Elapse(t) == IF t > Past THEN t - 1 ELSE Past

\* No task is older than RunLimit: Celery has killed it by then.
Tick ==
  /\ \A w \in Workers : run[w].job # NoJob => run[w].age < RunLimit
  /\ rows' = [j \in Jobs |-> [rows[j] EXCEPT !.lease = Elapse(@),
                                             !.pub = Elapse(@), !.avail = Elapse(@)]]
  /\ run' = [w \in Workers |-> IF run[w].job = NoJob THEN run[w]
                                 ELSE [run[w] EXCEPT !.age = @ + 1]]
  /\ UNCHANGED <<lastId, outbox, copies, audit>>

-----------------------------------------------------------------------------
Next ==
  \/ \E j \in Jobs : Enqueue(j) \/ Publish(j) \/ LoseMessage(j)
  \/ Poll \/ PassFails \/ Tick
  \/ \E w \in Workers, j \in Jobs : Receive(w, j)
  \/ \E w \in Workers, outcome \in Outcome : Finish(w, outcome)
  \/ \E w \in Workers : Crash(w) \/ Redeliver(w)
  \/ \E j \in Jobs, decision \in Decision : Resolve(j, decision)

Spec == Init /\ [][Next]_vars

(* The dispatcher loops every second and the clock advances; the broker    *)
(* takes a message that is published again and again, and delivers one     *)
(* that is there again and again; a task ends by its time limit.  Nothing  *)
(* is assumed of callers or of the operator.                               *)
Fairness ==
  /\ WF_vars(Poll) /\ WF_vars(Tick)
  /\ \A j \in Jobs : /\ SF_vars(Publish(j))
                     /\ SF_vars(\E w \in Workers : Receive(w, j))
  /\ \A w \in Workers : WF_vars(Crash(w) \/ \E outcome \in Outcome : Finish(w, outcome))

FairSpec == Spec /\ Fairness

-----------------------------------------------------------------------------
(* Properties. *)

(* A job that may not be replayed is started at most once, ever, and never
   returns to the queue after that; a retry-safe job is started at most
   MaxAttempts times, and none is left queued with its attempts used up. *)
ExecutionBudget ==
  \A j \in Jobs :
    /\ rows[j].att <= MaxAttempts
    /\ rows[j].status = "queued" /\ j \in RetrySafe => rows[j].att < MaxAttempts
    /\ j \notin RetrySafe => /\ rows[j].att <= 1
                             /\ rows[j].status = "queued" => rows[j].att = 0

(* A worker whose job was claimed again after its lease ran out changes
   nothing when it ends, however late: only the last claim writes an outcome. *)
StaleFinishHarmless ==
  [][\A w \in Workers :
       /\ run[w].job # NoJob /\ run'[w] = Idle
       /\ run[w].token < rows[run[w].job].att
       => rows'[run[w].job] = rows[run[w].job]]_vars

(* While tasks are killed before their leases end, no job is executed by two
   workers at once, whatever the broker duplicates. *)
SingleExecution ==
  \A w1, w2 \in Workers : run[w1].job # NoJob /\ run[w1].job = run[w2].job => w1 = w2

(* While tasks are killed before their leases end, whoever executes a job
   holds the row's last claim, with its lease still running; or the row was
   closed under it, which only happens on the last attempt of a retry-safe job. *)
LiveClaims ==
  \A w \in Workers : run[w].job # NoJob =>
    LET r == rows[run[w].job] IN
      /\ run[w].age <= RunLimit
      /\ run[w].token = r.att
      /\ \/ /\ r.status = "running"
            /\ r.token = r.att /\ r.lease >= LeaseTime - run[w].age
         \/ /\ r.status = "failed"
            /\ run[w].job \in RetrySafe /\ r.att >= MaxAttempts

(* A lane starts its jobs in the order they were enqueued, each one only after
   every earlier one has left the line: completed, failed, or closed under its
   last attempt, whose worker may still ask for reconciliation afterwards. *)
LeftLine(i) ==
  \/ rows[i].status \in Settled
  \/ /\ rows[i].status = "needs_reconciliation"
     /\ i \in RetrySafe \cap AgentJobs /\ rows[i].att >= MaxAttempts

LaneInOrder ==
  \A i, j \in Jobs :
    /\ LaneOf[i] # NoLane /\ LaneOf[i] = LaneOf[j]
    /\ 0 < rows[i].id /\ rows[i].id < rows[j].id
    /\ rows[j].att > 0
    => LeftLine(i)

(* The ledger says of a resolved job what the operator's audited decision
   says: no recovery, late worker or duplicate message changes it again. *)
AuditMatchesLedger == \A j \in Jobs : audit[j] # "none" => rows[j].status = audit[j]

(* A completed job is done: while tasks are killed before their leases end, it
   stays completed and is not started again, whatever is delivered twice or ends
   late.  A failed one may be: a row closed as exhausted has a worker in its shadow. *)
CompletedIsFinal ==
  [][\A j \in Jobs : rows[j].status = "completed" =>
       rows'[j].status = "completed" /\ rows'[j].att = rows[j].att]_vars

(* Every accepted job is completed or failed in the end, or waits for the
   operator, itself or behind a job of its lane: no loss of a message, crash
   of the dispatcher or of a worker strands it. *)
AwaitsOperator(j) ==
  \E i \in Jobs : /\ rows[i].status = "needs_reconciliation"
                  /\ i = j \/ (LaneOf[i] # NoLane /\ LaneOf[i] = LaneOf[j])
EverySettles ==
  \A j \in Jobs : rows[j].status # "absent" ~> (rows[j].status \in Settled \/ AwaitsOperator(j))
=============================================================================
