-------------------------- MODULE DurableJobs_proof --------------------------
(***************************************************************************)
(* Theorems of DurableJobs, and of DurableJobsLanes on top of it.          *)
(*                                                                         *)
(* IInv strengthens the execution budget with what ties a worker to the    *)
(* row it claimed: its token is a claim the row has counted, and the row's *)
(* own token is the last such claim or NULL.                               *)
(*                                                                         *)
(* The second part is what follows when Celery kills a task before its     *)
(* lease ends: one worker per job, lanes that are FIFO queues, resolutions *)
(* that stand.  LiveClaims is the inductive core: it ties the age of a     *)
(* task to the lease of its row, so that neither recover_expired nor a     *)
(* second claim can touch a live job.                                      *)
(***************************************************************************)
EXTENDS DurableJobsLanes, FiniteSetTheorems, SequenceTheorems, TLAPS

Tokens ==
  /\ \A j \in Jobs : /\ rows[j].token \in {0, rows[j].att}
                     /\ rows[j].status = "absent" => rows[j].att = 0
  /\ \A w \in Workers : run[w].job # NoJob =>
       /\ run[w].token \in 1..MaxAttempts
       /\ run[w].token <= rows[run[w].job].att

IInv == TypeOK /\ ExecutionBudget /\ Tokens

-----------------------------------------------------------------------------
(* Rows, one at a time. *)

LEMMA PastIsInt == Past \in Int
BY DEF Past

LEMMA NoRowFacts == NoRow \in Row /\ NoRow.att = 0 /\ NoRow.token = 0
<1>1. NoRow \in Row
  BY PastIsInt DEF NoRow, Row, Status
<1>2. NoRow.att = 0 /\ NoRow.token = 0
  BY DEF NoRow
<1>3. QED
  BY <1>1, <1>2

LEMMA QueuedRow ==
  ASSUME NEW r \in Row, NEW k \in Nat
  PROVE  LET q == [r EXCEPT !.status = "queued", !.id = k]
         IN  /\ q \in Row /\ q.att = r.att /\ q.token = r.token
             /\ q.status = "queued" /\ q.id = k
BY DEF Row, Status

LEMMA StatusRow ==
  ASSUME NEW r \in Row, NEW s \in Status
  PROVE  LET q == [r EXCEPT !.status = s]
         IN  /\ q \in Row /\ q.att = r.att /\ q.token = r.token /\ q.status = s
             /\ q.id = r.id /\ q.lease = r.lease
BY DEF Row

LEMMA ReservedRow ==
  ASSUME NEW r \in Row, NEW p \in Int
  PROVE  LET q == [r EXCEPT !.pub = p]
         IN  /\ q \in Row /\ q.att = r.att /\ q.token = r.token /\ q.status = r.status
             /\ q.id = r.id /\ q.lease = r.lease
BY DEF Row

LEMMA GrantedRow ==
  ASSUME NEW r \in Row, NEW l \in Int, NEW k \in Nat
  PROVE  LET q == [r EXCEPT !.status = "running", !.lease = l, !.att = k, !.token = k]
         IN  /\ q \in Row /\ q.att = k /\ q.token = k
             /\ q.status = "running" /\ q.lease = l /\ q.id = r.id
BY DEF Row, Status

LEMMA FinishedRow ==
  ASSUME NEW r \in Row, NEW s \in Status, NEW l \in Int, NEW d \in Int
  PROVE  LET q == [r EXCEPT !.status = s, !.token = 0, !.lease = l, !.pub = d, !.avail = d]
         IN  q \in Row /\ q.att = r.att /\ q.token = 0 /\ q.status = s /\ q.id = r.id
BY DEF Row

LEMMA AgedRow ==
  ASSUME NEW r \in Row
  PROVE  LET q == [r EXCEPT !.lease = Elapse(@), !.pub = Elapse(@), !.avail = Elapse(@)]
         IN  /\ q \in Row /\ q.att = r.att /\ q.token = r.token /\ q.status = r.status
             /\ q.id = r.id /\ q.lease = Elapse(r.lease)
<1>1. PICK l \in Int, p \in Int, a \in Int :
        l = Elapse(r.lease) /\ p = Elapse(r.pub) /\ a = Elapse(r.avail)
  BY PastIsInt DEF Elapse, Row
<1>2. LET q == [r EXCEPT !.lease = l, !.pub = p, !.avail = a]
      IN  /\ q \in Row /\ q.att = r.att /\ q.token = r.token /\ q.status = r.status
          /\ q.id = r.id /\ q.lease = l
  BY DEF Row
<1>3. QED
  BY <1>1, <1>2

LEMMA RecoveredRow ==
  ASSUME NEW r \in Row, NEW j
  PROVE  LET q == Recovered(r, j)
         IN  /\ q \in Row /\ q.att = r.att /\ q.token \in {0, r.token}
             /\ q.status = "absent" => r.status = "absent"
             /\ q.status = "queued" =>
                  r.status = "queued" \/ (j \in RetrySafe /\ r.att < MaxAttempts)
             /\ q.id = r.id
             /\ (r.status = "running" /\ r.lease < 0) \/ q = r
<1>0. PICK q : q = Recovered(r, j)
  OBVIOUS
<1>3. /\ q \in Row /\ q.att = r.att /\ q.token \in {0, r.token}
      /\ q.status = "absent" => r.status = "absent"
      /\ q.status = "queued" =>
           r.status = "queued" \/ (j \in RetrySafe /\ r.att < MaxAttempts)
      /\ q.id = r.id
      /\ (r.status = "running" /\ r.lease < 0) \/ q = r
  <2>1. CASE ~(r.status = "running" /\ r.lease < 0)
    <3>1. q = r
      BY <1>0, <2>1 DEF Recovered
    <3>2. QED
      BY <3>1 DEF Row
  <2>2. CASE r.status = "running" /\ r.lease < 0
    <3>1. PICK p \in Int : p = Past
      BY PastIsInt
    <3>2. PICK s \in Status \ {"absent"} :
            /\ s = IF j \notin RetrySafe THEN "needs_reconciliation"
                   ELSE IF r.att < MaxAttempts THEN "queued" ELSE "failed"
            /\ s = "queued" => j \in RetrySafe /\ r.att < MaxAttempts
      BY DEF Status
    <3>3. q = [r EXCEPT !.status = s, !.token = 0, !.lease = p]
      BY <1>0, <2>2, <3>1, <3>2 DEF Recovered
    <3>4. q \in Row /\ q.status = s /\ q.token = 0 /\ q.att = r.att /\ q.id = r.id
      BY <3>3 DEF Row
    <3>5. QED
      BY <2>2, <3>2, <3>4
  <2>3. QED
    BY <2>1, <2>2
<1>4. QED
  BY <1>0, <1>3

-----------------------------------------------------------------------------
LEMMA InitIInv == Init => IInv
<1> SUFFICES ASSUME Init PROVE IInv
  OBVIOUS
<1> USE ConstantsAssumption DEF Init
<1>1. Idle \in Execution
  BY DEF Idle, Execution
<1>2. TypeOK
  BY <1>1, NoRowFacts DEF TypeOK
<1>3. ExecutionBudget
  BY NoRowFacts DEF ExecutionBudget
<1>4. Tokens
  BY NoRowFacts DEF Tokens, Idle
<1>5. QED
  BY <1>2, <1>3, <1>4 DEF IInv

(* A step that leaves the workers alone, gives every row a well-typed value
   with the same attempts, only clears tokens, and queues a row only when it
   has attempts left, preserves the invariant. *)
LEMMA RowsOnly ==
  ASSUME IInv, run' = run, rows' \in [Jobs -> Row],
         lastId' \in Nat, outbox' \subseteq Jobs, copies' \in [Jobs -> Nat],
         audit' \in [Jobs -> Decision \cup {"none"}],
         \A j \in Jobs : /\ rows'[j].att = rows[j].att
                         /\ rows'[j].token \in {0, rows[j].token}
                         /\ rows'[j].status = "absent" => rows[j].status = "absent"
                         /\ rows'[j].status = "queued" =>
                              \/ rows[j].status = "queued"
                              \/ rows[j].att = 0
                              \/ j \in RetrySafe /\ rows[j].att < MaxAttempts
  PROVE  IInv'
<1> USE ConstantsAssumption DEF IInv, TypeOK, Row
<1>1. TypeOK'
  OBVIOUS
<1>2. ExecutionBudget'
  BY DEF ExecutionBudget
<1>3. Tokens'
  BY DEF Tokens, Execution
<1>4. QED
  BY <1>1, <1>2, <1>3

-----------------------------------------------------------------------------
(* One lemma per action that changes the ledger. *)

LEMMA EnqueueIInv == ASSUME IInv, NEW j \in Jobs, Enqueue(j) PROVE IInv'
<1> USE DEF IInv, TypeOK
<1>1. PICK new : new = [NoRow EXCEPT !.status = "queued", !.id = lastId + 1]
  OBVIOUS
<1>2. lastId + 1 \in Nat
  OBVIOUS
<1>3. new \in Row /\ new.att = 0 /\ new.token = 0 /\ new.status = "queued"
  BY <1>1, <1>2, NoRowFacts, QueuedRow
<1>4. /\ rows' = [rows EXCEPT ![j] = new]
      /\ lastId' = lastId + 1
      /\ UNCHANGED <<outbox, copies, run, audit>>
      /\ rows[j].status = "absent"
  BY <1>1 DEF Enqueue
<1>5. rows[j].att = 0
  BY <1>4 DEF Tokens
<1>6. \A i \in Jobs : rows'[i] = IF i = j THEN new ELSE rows[i]
  BY <1>4
<1>7. rows' \in [Jobs -> Row]
  BY <1>3, <1>4
<1>8. QED
  BY <1>2, <1>3, <1>4, <1>5, <1>6, <1>7, RowsOnly

LEMMA PollIInv == ASSUME IInv, Poll PROVE IInv'
<1> USE DEF IInv, TypeOK
<1> DEFINE rs == [j \in Jobs |-> Recovered(rows[j], j)]
           batch == FirstOf(Due(rs), rs)
<1>1. ASSUME NEW j \in Jobs
      PROVE  /\ rs[j] \in Row /\ rs[j].att = rows[j].att
             /\ rs[j].token \in {0, rows[j].token}
             /\ rs[j].status = "absent" => rows[j].status = "absent"
             /\ rs[j].status = "queued" =>
                  rows[j].status = "queued" \/ (j \in RetrySafe /\ rows[j].att < MaxAttempts)
  <2>1. rows[j] \in Row /\ rs[j] = Recovered(rows[j], j)
    OBVIOUS
  <2>2. QED
    BY <2>1, RecoveredRow
<1>2. batch \subseteq Jobs
  BY DEF FirstOf, Due
<1>3. /\ outbox' = batch
      /\ rows' = [j \in Jobs |-> IF j \in batch THEN [rs[j] EXCEPT !.pub = ReserveTime]
                                  ELSE rs[j]]
      /\ UNCHANGED <<lastId, copies, run, audit>>
  BY DEF Poll
<1> HIDE DEF rs, batch
<1>4. ASSUME NEW j \in Jobs
      PROVE  /\ rows'[j] \in Row
             /\ rows'[j].att = rs[j].att /\ rows'[j].token = rs[j].token
             /\ rows'[j].status = rs[j].status
  <2>1. rows'[j] = rs[j] \/ rows'[j] = [rs[j] EXCEPT !.pub = ReserveTime]
    BY <1>3
  <2>2. PICK p \in Int : p = ReserveTime
    BY ConstantsAssumption
  <2>3. PICK r \in Row : r = rs[j]
    BY <1>1
  <2>4. CASE rows'[j] = rs[j]
    BY <2>3, <2>4
  <2>5. CASE rows'[j] = [r EXCEPT !.pub = p]
    BY <2>3, <2>5, ReservedRow
  <2>6. QED
    BY <2>1, <2>2, <2>3, <2>4, <2>5
<1>5. rows' \in [Jobs -> Row]
  BY <1>3, <1>4
<1>6. \A j \in Jobs : /\ rows'[j].att = rows[j].att
                      /\ rows'[j].token \in {0, rows[j].token}
                      /\ rows'[j].status = "absent" => rows[j].status = "absent"
                      /\ rows'[j].status = "queued" =>
                           \/ rows[j].status = "queued"
                           \/ rows[j].att = 0
                           \/ j \in RetrySafe /\ rows[j].att < MaxAttempts
  BY <1>1, <1>4
<1>7. QED
  BY <1>2, <1>3, <1>5, <1>6, RowsOnly

LEMMA CopiesType ==
  ASSUME copies \in [Jobs -> Nat], NEW j \in Jobs
  PROVE  /\ AddCopy(j) \in [Jobs -> Nat]
         /\ copies[j] > 0 => [copies EXCEPT ![j] = @ - 1] \in [Jobs -> Nat]
BY DEF AddCopy

LEMMA BrokerIInv ==
  ASSUME IInv, NEW j \in Jobs,
         Publish(j) \/ LoseMessage(j) \/ PassFails
         \/ (\E w \in Workers : ClaimNothing(w, j))
  PROVE  IInv'
<1> USE DEF IInv, TypeOK
<1>1. rows' = rows /\ run' = run /\ lastId' = lastId /\ audit' = audit
  BY DEF Publish, LoseMessage, PassFails, ClaimNothing
<1>2. outbox' \subseteq Jobs
  BY DEF Publish, LoseMessage, PassFails, ClaimNothing
<1>3. copies' \in [Jobs -> Nat]
  BY CopiesType DEF Publish, LoseMessage, PassFails, ClaimNothing, Take
<1>4. QED
  BY <1>1, <1>2, <1>3, RowsOnly

LEMMA CloseIInv ==
  ASSUME IInv, NEW j \in Jobs,
         \/ \E w \in Workers : ClaimExhausted(w, j) \/ ClaimLost(w, j)
         \/ \E decision \in Decision : Resolve(j, decision)
  PROVE  IInv'
<1> USE DEF IInv, TypeOK
<1>1. PICK s \in Status \ {"absent", "queued"} :
        rows' = [rows EXCEPT ![j] = [rows[j] EXCEPT !.status = s]]
  BY DEF ClaimExhausted, ClaimLost, Resolve, Status, Decision
<1>2. lastId' = lastId /\ outbox' = outbox /\ run' = run
  BY DEF ClaimExhausted, ClaimLost, Resolve
<1>3. copies' \in [Jobs -> Nat]
  BY CopiesType DEF ClaimExhausted, ClaimLost, Resolve, Take
<1>4. audit' \in [Jobs -> Decision \cup {"none"}]
  BY DEF ClaimExhausted, ClaimLost, Resolve
<1>5. PICK new : new = [rows[j] EXCEPT !.status = s]
  OBVIOUS
<1>6. new \in Row /\ new.att = rows[j].att /\ new.token = rows[j].token /\ new.status = s
  BY <1>5, StatusRow
<1>7. rows' \in [Jobs -> Row] /\ \A i \in Jobs : rows'[i] = IF i = j THEN new ELSE rows[i]
  BY <1>1, <1>5, <1>6
<1>8. QED
  BY <1>2, <1>3, <1>4, <1>6, <1>7, RowsOnly

LEMMA GrantIInv ==
  ASSUME IInv, NEW w \in Workers, NEW j \in Jobs, ClaimGranted(w, j)
  PROVE  IInv'
<1> USE DEF IInv, TypeOK
<1>1. rows[j].status \in {"queued", "running"} /\ ~Exhausted(j) /\ ~Lost(j) /\ ~Leased(j)
  BY DEF ClaimGranted, Refused
<1>2. rows[j] \in Row /\ rows[j].att \in Nat /\ MaxAttempts \in Nat \ {0} /\ LeaseTime \in Int
  BY ConstantsAssumption DEF Row
<1>3. rows[j].att + 1 <= MaxAttempts /\ (j \notin RetrySafe => rows[j].att = 0)
  BY <1>1, <1>2 DEF Exhausted, Lost, ExecutionBudget
<1>4. PICK k \in Nat : k = rows[j].att + 1
  BY <1>2
<1>5. PICK new : new = [rows[j] EXCEPT !.status = "running", !.lease = LeaseTime,
                                       !.att = k, !.token = k]
  OBVIOUS
<1>6. new \in Row /\ new.att = k /\ new.token = k /\ new.status = "running"
  <2>1. PICK r \in Row, l \in Int : r = rows[j] /\ l = LeaseTime
    BY <1>2
  <2>2. new = [r EXCEPT !.status = "running", !.lease = l, !.att = k, !.token = k]
    BY <1>4, <1>5, <2>1
  <2>3. QED
    BY <2>2 DEF Row, Status
<1>7. /\ rows' = [rows EXCEPT ![j] = new]
      /\ run' = [run EXCEPT ![w] = [job |-> j, token |-> k, age |-> 0]]
      /\ lastId' = lastId /\ outbox' = outbox /\ audit' = audit
  <2>1. rows' = [rows EXCEPT ![j] = new]
    BY <1>4, <1>5 DEF ClaimGranted
  <2>2. run' = [run EXCEPT ![w] = [job |-> j, token |-> k, age |-> 0]]
    BY <1>4 DEF ClaimGranted
  <2>3. lastId' = lastId /\ outbox' = outbox /\ audit' = audit
    BY DEF ClaimGranted
  <2>4. QED
    BY <2>1, <2>2, <2>3
<1>8. \A i \in Jobs : rows'[i] = IF i = j THEN new ELSE rows[i]
  BY <1>7
<1>9. \A v \in Workers : run'[v] = IF v = w THEN [job |-> j, token |-> k, age |-> 0] ELSE run[v]
  BY <1>7
<1>10. TypeOK'
  <2>1. rows' \in [Jobs -> Row]
    BY <1>6, <1>7
  <2>2. run' \in [Workers -> Execution]
    BY <1>7 DEF Execution
  <2>3. copies' \in [Jobs -> Nat]
    BY CopiesType DEF ClaimGranted, Take
  <2>4. QED
    BY <2>1, <2>2, <2>3, <1>7
<1>11. ExecutionBudget'
  BY <1>2, <1>3, <1>4, <1>6, <1>8 DEF ExecutionBudget
<1>12. Tokens'
  <2>1. \A i \in Jobs : /\ rows'[i].token \in {0, rows'[i].att}
                        /\ rows'[i].status = "absent" => rows'[i].att = 0
    BY <1>6, <1>8 DEF Tokens
  <2>2. ASSUME NEW v \in Workers, run'[v].job # NoJob
        PROVE  run'[v].token \in 1..MaxAttempts /\ run'[v].token <= rows'[run'[v].job].att
    <3>1. CASE v = w
      BY <3>1, <1>2, <1>3, <1>4, <1>6, <1>8, <1>9
    <3>2. CASE v # w
      <4>1. run'[v] = run[v] /\ run[v].job \in Jobs
        BY <3>2, <1>9, <2>2 DEF Execution
      <4>2. PICK i \in Jobs : i = run[v].job
        BY <4>1
      <4>3. run[v].token \in 1..MaxAttempts /\ run[v].token <= rows[i].att
        BY <4>1, <4>2, <2>2 DEF Tokens
      <4>4. rows[i].att <= rows'[i].att /\ rows[i].att \in Nat /\ rows'[i].att \in Nat
        BY <1>2, <1>4, <1>6, <1>8 DEF Row
      <4>5. QED
        BY <4>1, <4>2, <4>3, <4>4
    <3>3. QED
      BY <3>1, <3>2
  <2>3. QED
    BY <2>1, <2>2 DEF Tokens
<1>13. QED
  BY <1>10, <1>11, <1>12

(* What holds of every worker still holds when some of them only age or go
   idle and no row loses attempts. *)
LEMMA WorkersOnly ==
  ASSUME IInv, rows' \in [Jobs -> Row],
         \A j \in Jobs : rows'[j].att = rows[j].att,
         \A w \in Workers : \/ run'[w].job = NoJob
                            \/ run'[w].job = run[w].job /\ run'[w].token = run[w].token
  PROVE  \A w \in Workers : run'[w].job # NoJob =>
           /\ run'[w].token \in 1..MaxAttempts
           /\ run'[w].token <= rows'[run'[w].job].att
<1> SUFFICES ASSUME NEW w \in Workers, run'[w].job # NoJob
             PROVE  /\ run'[w].token \in 1..MaxAttempts
                    /\ run'[w].token <= rows'[run'[w].job].att
  OBVIOUS
<1>1. run'[w].job = run[w].job /\ run'[w].token = run[w].token
  OBVIOUS
<1>2. run[w].job \in Jobs
  BY <1>1 DEF IInv, TypeOK, Execution
<1>3. run[w].token \in 1..MaxAttempts /\ run[w].token <= rows[run[w].job].att
  BY <1>1 DEF IInv, Tokens
<1>4. rows'[run[w].job].att = rows[run[w].job].att
  BY <1>2
<1>5. QED
  BY <1>1, <1>3, <1>4

LEMMA FinishIInv ==
  ASSUME IInv, NEW w \in Workers, NEW outcome \in Outcome, Finish(w, outcome)
  PROVE  IInv'
<1> USE DEF IInv, TypeOK
<1>1. PICK j \in Jobs : j = run[w].job
  BY DEF Finish, Execution
<1>2. PICK k \in 1..MaxAttempts : k = run[w].token /\ k <= rows[j].att
  BY <1>1 DEF Finish, Tokens
<1>3. PICK d \in Int : d = BackoffOf[k]
  BY <1>2, ConstantsAssumption
<1>4. PICK s \in Status \ {"absent"} : s = StatusAfter(j, k, outcome)
  BY DEF StatusAfter, Status, Outcome
<1>5. PICK p \in Int : p = Past
  BY PastIsInt
<1>6. PICK r \in Row : r = rows[j]
  BY <1>1
<1>7. PICK new : new = [r EXCEPT !.status = s, !.token = 0, !.lease = p, !.pub = d, !.avail = d]
  OBVIOUS
<1>8. new \in Row /\ new.att = r.att /\ new.token = 0 /\ new.status = s
  BY <1>7 DEF Row
<1>9. /\ OwnsToken(w) => rows' = [rows EXCEPT ![j] = new]
      /\ ~OwnsToken(w) => rows' = rows
  BY <1>1, <1>2, <1>3, <1>4, <1>5, <1>6, <1>7 DEF Finish
<1>10. run' = [run EXCEPT ![w] = Idle] /\ UNCHANGED <<lastId, outbox, copies, audit>>
  BY DEF Finish
<1>11. OwnsToken(w) => rows[j].att = k
  BY <1>1, <1>2 DEF OwnsToken, Tokens
<1>12. s = "queued" => j \in RetrySafe /\ k < MaxAttempts
  BY <1>4 DEF StatusAfter, Outcome
<1>13. rows' \in [Jobs -> Row]
  BY <1>8, <1>9
<1>14. \A i \in Jobs :
         \/ rows'[i] = rows[i]
         \/ i = j /\ OwnsToken(w) /\ rows'[i] = new /\ rows'[i].att = rows[i].att
  BY <1>6, <1>8, <1>9
<1>15. TypeOK'
  <2>1. Idle \in Execution
    BY DEF Idle, Execution
  <2>2. run' \in [Workers -> Execution]
    BY <2>1, <1>10
  <2>3. QED
    BY <2>2, <1>10, <1>13
<1>16. ExecutionBudget'
  BY <1>8, <1>11, <1>12, <1>14 DEF ExecutionBudget
<1>17. Tokens'
  <2>1. \A i \in Jobs : /\ rows'[i].token \in {0, rows'[i].att}
                        /\ rows'[i].status = "absent" => rows'[i].att = 0
    BY <1>8, <1>14 DEF Tokens
  <2>2. \A v \in Workers : run'[v].job = NoJob \/ run'[v] = run[v]
    BY <1>10 DEF Idle
  <2>3. QED
    BY <2>1, <2>2, <1>13, <1>14, WorkersOnly DEF Tokens
<1>18. QED
  BY <1>15, <1>16, <1>17

LEMMA WorkerIInv ==
  ASSUME IInv, NEW w \in Workers, Crash(w) \/ Redeliver(w)
  PROVE  IInv'
<1> USE DEF IInv, TypeOK
<1>1. rows' = rows /\ UNCHANGED <<lastId, outbox, audit>>
  BY DEF Crash, Redeliver
<1>2. run' = run \/ run' = [run EXCEPT ![w] = Idle]
  BY DEF Crash, Redeliver
<1>3. PICK j \in Jobs : j = run[w].job
  BY DEF Crash, Redeliver, Execution
<1>4. copies' \in [Jobs -> Nat]
  BY <1>3, CopiesType DEF Crash, Redeliver
<1>5. Idle \in Execution
  BY DEF Idle, Execution
<1>6. run' \in [Workers -> Execution]
  BY <1>2, <1>5
<1>7. \A v \in Workers : run'[v].job = NoJob \/ run'[v] = run[v]
  BY <1>2 DEF Idle
<1>8. TypeOK' /\ ExecutionBudget'
  BY <1>1, <1>4, <1>6 DEF ExecutionBudget
<1>9. Tokens'
  BY <1>1, <1>7, WorkersOnly DEF Tokens
<1>10. QED
  BY <1>8, <1>9

LEMMA TickWorker ==
  ASSUME TypeOK, Tick, NEW w \in Workers
  PROVE  /\ run'[w] \in Execution
         /\ run'[w].job = run[w].job /\ run'[w].token = run[w].token
<1> USE DEF TypeOK
<1>1. PICK e \in Execution : e = run[w]
  OBVIOUS
<1>2. PICK n \in Nat : n = e.age + 1
  BY DEF Execution
<1>3. [e EXCEPT !.age = n] \in Execution
      /\ [e EXCEPT !.age = n].job = e.job /\ [e EXCEPT !.age = n].token = e.token
  BY DEF Execution
<1>4. run'[w] = e \/ run'[w] = [e EXCEPT !.age = n]
  BY <1>1, <1>2 DEF Tick
<1>5. QED
  BY <1>1, <1>3, <1>4

LEMMA TickIInv == ASSUME IInv, Tick PROVE IInv'
<1> USE DEF IInv, TypeOK
<1>1. ASSUME NEW j \in Jobs
      PROVE  /\ rows'[j] \in Row /\ rows'[j].att = rows[j].att
             /\ rows'[j].token = rows[j].token /\ rows'[j].status = rows[j].status
  <2>1. PICK r \in Row : r = rows[j]
    OBVIOUS
  <2>2. rows'[j] = [r EXCEPT !.lease = Elapse(@), !.pub = Elapse(@), !.avail = Elapse(@)]
    BY <2>1 DEF Tick
  <2>3. QED
    BY <2>1, <2>2, AgedRow
<1>2. rows' \in [Jobs -> Row]
  BY <1>1 DEF Tick
<1>3. ASSUME NEW w \in Workers
      PROVE  /\ run'[w] \in Execution
             /\ run'[w].job = run[w].job /\ run'[w].token = run[w].token
  BY TickWorker
<1>4. run' \in [Workers -> Execution]
  BY <1>3 DEF Tick
<1>5. UNCHANGED <<lastId, outbox, copies, audit>>
  BY DEF Tick
<1>6. TypeOK' /\ ExecutionBudget'
  BY <1>1, <1>2, <1>4, <1>5 DEF ExecutionBudget
<1>7. Tokens'
  BY <1>1, <1>2, <1>3, WorkersOnly DEF Tokens
<1>8. QED
  BY <1>6, <1>7

LEMMA NextIInv == IInv /\ [Next]_vars => IInv'
<1> SUFFICES ASSUME IInv, [Next]_vars PROVE IInv'
  OBVIOUS
<1>1. CASE Next
  <2>1. ASSUME NEW j \in Jobs, Enqueue(j) PROVE IInv'
    BY <2>1, EnqueueIInv
  <2>2. ASSUME NEW j \in Jobs, Publish(j) \/ LoseMessage(j) PROVE IInv'
    BY <2>2, BrokerIInv
  <2>3. CASE Poll
    BY <2>3, PollIInv
  <2>4. CASE PassFails
    <3>1. UNCHANGED <<rows, lastId, copies, run, audit>> /\ outbox' = {}
      BY <2>4 DEF PassFails
    <3>2. QED
      BY <3>1, RowsOnly DEF IInv, TypeOK
  <2>5. CASE Tick
    BY <2>5, TickIInv
  <2>6. ASSUME NEW w \in Workers, NEW j \in Jobs, Receive(w, j) PROVE IInv'
    BY <2>6, BrokerIInv, CloseIInv, GrantIInv DEF Receive
  <2>7. ASSUME NEW w \in Workers, NEW outcome \in Outcome, Finish(w, outcome) PROVE IInv'
    BY <2>7, FinishIInv
  <2>8. ASSUME NEW w \in Workers, Crash(w) \/ Redeliver(w) PROVE IInv'
    BY <2>8, WorkerIInv
  <2>9. ASSUME NEW j \in Jobs, NEW decision \in Decision, Resolve(j, decision) PROVE IInv'
    BY <2>9, CloseIInv
  <2>10. QED
    BY <1>1, <2>1, <2>2, <2>3, <2>4, <2>5, <2>6, <2>7, <2>8, <2>9 DEF Next
<1>2. CASE UNCHANGED vars
  BY <1>2, RowsOnly DEF vars, IInv, TypeOK
<1>3. QED
  BY <1>1, <1>2

(* The tables, the broker and the workers always hold values of their types. *)
THEOREM TypeCorrect == Spec => []TypeOK
<1>1. IInv => TypeOK
  BY DEF IInv
<1>2. QED
  BY <1>1, InitIInv, NextIInv, PTL DEF Spec

(* For every number of jobs, workers and lanes, every lease length and every
   broker: a job that may not be replayed is started at most once, a
   retry-safe one at most MaxAttempts times. *)
THEOREM BudgetKept == Spec => []ExecutionBudget
<1>1. IInv => ExecutionBudget
  BY DEF IInv
<1>2. QED
  BY <1>1, InitIInv, NextIInv, PTL DEF Spec

(* Fencing, at any speed of the clock and however long a worker stalls: its
   token is older than the row's, so its UPDATE matches no row. *)
THEOREM StaleFinishIsHarmless == Spec => StaleFinishHarmless
<1> DEFINE Harmless ==
      \A w \in Workers :
        /\ run[w].job # NoJob /\ run'[w] = Idle
        /\ run[w].token < rows[run[w].job].att
        => rows'[run[w].job] = rows[run[w].job]
<1>1. IInv /\ [Next]_vars => [Harmless]_vars
  <2> SUFFICES ASSUME IInv, Next,
                      NEW w \in Workers, run[w].job # NoJob, run'[w] = Idle,
                      run[w].token < rows[run[w].job].att
               PROVE  rows'[run[w].job] = rows[run[w].job]
    OBVIOUS
  <2>1. PICK j \in Jobs : j = run[w].job
    BY DEF IInv, TypeOK, Execution
  <2>2. run' # run /\ run'[w] # run[w] /\ run'[w].job = NoJob
    BY DEF Idle
  <2>3. ~OwnsToken(w)
    <3>1. run[w].token \in 1..MaxAttempts /\ run[w].token < rows[j].att
          /\ rows[j].token \in {0, rows[j].att} /\ rows[j].att \in Nat
      BY <2>1 DEF IInv, TypeOK, Tokens, Row
    <3>2. QED
      BY <2>1, <3>1, ConstantsAssumption DEF OwnsToken
  <2>4. CASE \E v \in Workers, outcome \in Outcome : Finish(v, outcome)
    <3>1. PICK v \in Workers, outcome \in Outcome : Finish(v, outcome)
      BY <2>4
    <3>2. v = w
      BY <2>2, <3>1 DEF Finish, IInv, TypeOK
    <3>3. QED
      BY <2>3, <3>1, <3>2 DEF Finish
  <2>5. CASE \E v \in Workers : Crash(v) \/ Redeliver(v)
    BY <2>5 DEF Crash, Redeliver
  <2>6. CASE Tick
    BY <2>2, <2>6, TickWorker DEF IInv
  <2>7. CASE \E v \in Workers, i \in Jobs : ClaimGranted(v, i)
    <3>1. PICK v \in Workers, i \in Jobs : ClaimGranted(v, i)
      BY <2>7
    <3>2. v # w /\ run'[w] = run[w]
      BY <2>2, <3>1 DEF ClaimGranted, Take, Idle, IInv, TypeOK
    <3>3. QED
      BY <2>2, <3>2
  <2>8. CASE run' = run
    BY <2>2, <2>8
  <2>9. QED
    BY <2>4, <2>5, <2>6, <2>7, <2>8
       DEF Next, Enqueue, Publish, LoseMessage, Poll, PassFails, Resolve,
           Receive, ClaimNothing, ClaimExhausted, ClaimLost
<1>2. QED
  BY <1>1, InitIInv, NextIInv, PTL DEF Spec, StaleFinishHarmless

-----------------------------------------------------------------------------
(* What each action does to one row, in terms of the columns the lease     *)
(* argument looks at.                                                      *)

Same(j) ==
  /\ rows'[j].id = rows[j].id /\ rows'[j].att = rows[j].att
  /\ rows'[j].status = rows[j].status
  /\ rows'[j].token = rows[j].token /\ rows'[j].lease = rows[j].lease

LEMMA EnqueueEffect ==
  ASSUME IInv, NEW j \in Jobs, Enqueue(j)
  PROVE  /\ rows[j].status = "absent" /\ run' = run /\ lastId' = lastId + 1 /\ audit' = audit
         /\ \A i \in Jobs \ {j} : rows'[i] = rows[i]
         /\ rows'[j].status = "queued" /\ rows'[j].id = lastId + 1 /\ rows'[j].att = 0
<1> USE DEF IInv, TypeOK
<1>1. PICK k \in Nat : k = lastId + 1
  OBVIOUS
<1>2. PICK new : new = [NoRow EXCEPT !.status = "queued", !.id = k]
  OBVIOUS
<1>3. new.att = 0 /\ new.status = "queued" /\ new.id = k
  BY <1>2, NoRowFacts, QueuedRow
<1>4. rows' = [rows EXCEPT ![j] = new]
  BY <1>1, <1>2 DEF Enqueue
<1>5. QED
  BY <1>1, <1>3, <1>4 DEF Enqueue

LEMMA PollEffect ==
  ASSUME IInv, Poll, NEW j \in Jobs
  PROVE  \/ Same(j)
         \/ /\ rows[j].status = "running" /\ rows[j].lease < 0
            /\ rows'[j].id = rows[j].id /\ rows'[j].att = rows[j].att
<1> USE DEF IInv, TypeOK
<1>1. PICK r \in Row : r = rows[j]
  OBVIOUS
<1>2. PICK q \in Row : q = Recovered(r, j)
  BY RecoveredRow
<1>3. /\ q.id = r.id /\ q.att = r.att
      /\ (r.status = "running" /\ r.lease < 0) \/ q = r
  BY <1>2, RecoveredRow
<1>4. PICK p \in Int : p = ReserveTime
  BY ConstantsAssumption
<1>5. rows'[j] = q \/ rows'[j] = [q EXCEPT !.pub = p]
  BY <1>1, <1>2, <1>4 DEF Poll
<1>6. /\ rows'[j].id = q.id /\ rows'[j].att = q.att /\ rows'[j].status = q.status
      /\ rows'[j].token = q.token /\ rows'[j].lease = q.lease
  <2>1. CASE rows'[j] = q
    BY <2>1
  <2>2. CASE rows'[j] = [q EXCEPT !.pub = p]
    BY <2>2, ReservedRow
  <2>3. QED
    BY <1>5, <2>1, <2>2
<1>7. QED
  BY <1>1, <1>3, <1>6 DEF Same

LEMMA CloseEffect ==
  ASSUME IInv, NEW j \in Jobs, NEW s \in Status,
         rows' = [rows EXCEPT ![j].status = s]
  PROVE  /\ \A i \in Jobs \ {j} : rows'[i] = rows[i]
         /\ rows'[j].status = s /\ rows'[j].att = rows[j].att /\ rows'[j].id = rows[j].id
<1> USE DEF IInv, TypeOK
<1>1. PICK new : new = [rows[j] EXCEPT !.status = s]
  OBVIOUS
<1>2. new.att = rows[j].att /\ new.id = rows[j].id /\ new.status = s
  BY <1>1, StatusRow
<1>3. rows' = [rows EXCEPT ![j] = new]
  BY <1>1
<1>4. QED
  BY <1>2, <1>3

LEMMA GrantEffect ==
  ASSUME IInv, NEW w \in Workers, NEW j \in Jobs, ClaimGranted(w, j)
  PROVE  /\ \A i \in Jobs \ {j} : rows'[i] = rows[i]
         /\ rows'[j].status = "running" /\ rows'[j].lease = LeaseTime
         /\ rows'[j].att = rows[j].att + 1 /\ rows'[j].token = rows[j].att + 1
         /\ rows'[j].id = rows[j].id
         /\ run[w] = Idle /\ \A v \in Workers \ {w} : run'[v] = run[v]
         /\ run'[w] = [job |-> j, token |-> rows[j].att + 1, age |-> 0]
         /\ lastId' = lastId /\ audit' = audit
<1> USE DEF IInv, TypeOK
<1>1. PICK r \in Row : r = rows[j]
  OBVIOUS
<1>2. PICK k \in Nat, l \in Int : k = r.att + 1 /\ l = LeaseTime
  BY ConstantsAssumption DEF Row
<1>3. PICK new : new = [r EXCEPT !.status = "running", !.lease = l, !.att = k, !.token = k]
  OBVIOUS
<1>4. new.status = "running" /\ new.lease = l /\ new.att = k /\ new.token = k /\ new.id = r.id
  BY <1>3 DEF Row
<1>5. rows' = [rows EXCEPT ![j] = new]
  BY <1>1, <1>2, <1>3 DEF ClaimGranted
<1>6. run' = [run EXCEPT ![w] = [job |-> j, token |-> k, age |-> 0]]
  BY <1>1, <1>2 DEF ClaimGranted
<1>7. QED
  BY <1>1, <1>2, <1>4, <1>5, <1>6 DEF ClaimGranted, Take

LEMMA FinishEffect ==
  ASSUME IInv, NEW w \in Workers, NEW outcome \in Outcome, Finish(w, outcome)
  PROVE  /\ run[w].job \in Jobs
         /\ \A i \in Jobs \ {run[w].job} : rows'[i] = rows[i]
         /\ rows'[run[w].job].att = rows[run[w].job].att
         /\ rows'[run[w].job].id = rows[run[w].job].id
         /\ \/ rows' = rows
            \/ /\ OwnsToken(w)
               /\ rows'[run[w].job].status = StatusAfter(run[w].job, run[w].token, outcome)
         /\ run' = [run EXCEPT ![w] = Idle] /\ lastId' = lastId /\ audit' = audit
         /\ outcome \in OutcomesOf(run[w].job)
<1> USE DEF IInv, TypeOK
<1>1. PICK j \in Jobs : j = run[w].job
  BY DEF Finish, Execution
<1>2. PICK k \in 1..MaxAttempts : k = run[w].token
  BY <1>1 DEF Finish, Tokens
<1>3. PICK d \in Int : d = BackoffOf[k]
  BY <1>2, ConstantsAssumption
<1>4. PICK s \in Status : s = StatusAfter(j, k, outcome)
  BY DEF StatusAfter, Status, Outcome
<1>5. PICK p \in Int : p = Past
  BY PastIsInt
<1>6. PICK r \in Row : r = rows[j]
  BY <1>1
<1>7. PICK new : new = [r EXCEPT !.status = s, !.token = 0, !.lease = p, !.pub = d, !.avail = d]
  OBVIOUS
<1>8. new.att = r.att /\ new.id = r.id /\ new.status = s
  BY <1>7 DEF Row
<1>9. /\ OwnsToken(w) => rows' = [rows EXCEPT ![j] = new]
      /\ ~OwnsToken(w) => rows' = rows
  BY <1>1, <1>2, <1>3, <1>4, <1>5, <1>6, <1>7 DEF Finish
<1>10. /\ run' = [run EXCEPT ![w] = Idle] /\ lastId' = lastId /\ audit' = audit
       /\ outcome \in OutcomesOf(j)
  BY <1>1 DEF Finish
<1>11. /\ \A i \in Jobs \ {j} : rows'[i] = rows[i]
       /\ rows'[j].att = rows[j].att /\ rows'[j].id = rows[j].id
       /\ rows' = rows \/ (OwnsToken(w) /\ rows'[j].status = s)
  BY <1>6, <1>8, <1>9
<1>12. QED
  BY <1>1, <1>2, <1>4, <1>10, <1>11

LEMMA TickEffect ==
  ASSUME IInv, Tick, NEW j \in Jobs
  PROVE  /\ rows'[j].id = rows[j].id /\ rows'[j].att = rows[j].att
         /\ rows'[j].status = rows[j].status /\ rows'[j].token = rows[j].token
         /\ rows'[j].lease = Elapse(rows[j].lease)
<1> USE DEF IInv, TypeOK
<1>1. PICK r \in Row : r = rows[j]
  OBVIOUS
<1>2. rows'[j] = [r EXCEPT !.lease = Elapse(@), !.pub = Elapse(@), !.avail = Elapse(@)]
  BY <1>1 DEF Tick
<1>3. QED
  BY <1>1, <1>2, AgedRow

-----------------------------------------------------------------------------
Live == SingleExecution /\ LiveClaims

(* A job somebody executes is running under a live lease, or was closed. *)
LEMMA LiveRow ==
  ASSUME RunLimit < LeaseTime, IInv, Live, NEW w \in Workers, run[w].job # NoJob
  PROVE  /\ run[w].job \in Jobs
         /\ \/ rows[run[w].job].status = "running" /\ rows[run[w].job].lease > 0
            \/ /\ rows[run[w].job].status = "failed" /\ run[w].job \in RetrySafe
               /\ rows[run[w].job].att >= MaxAttempts
<1>1. PICK j \in Jobs : j = run[w].job
  BY DEF IInv, TypeOK, Execution
<1>2. run[w].age \in Nat /\ rows[j].lease \in Int
  BY DEF IInv, TypeOK, Execution, Row
<1>3. /\ run[w].age <= RunLimit
      /\ \/ rows[j].status = "running" /\ rows[j].lease >= LeaseTime - run[w].age
         \/ rows[j].status = "failed" /\ j \in RetrySafe /\ rows[j].att >= MaxAttempts
  BY <1>1 DEF Live, LiveClaims
<1>4. LeaseTime \in Nat /\ RunLimit \in Nat
  BY ConstantsAssumption
<1>5. QED
  BY <1>1, <1>2, <1>3, <1>4

(* A step keeps Live when no worker starts, and the rows of the workers that
   go on are as they were, or were closed as exhausted. *)
LEMMA LiveKept ==
  ASSUME RunLimit < LeaseTime, IInv, Live,
         \A w \in Workers : run'[w] = run[w] \/ run'[w].job = NoJob,
         \A w \in Workers : run'[w].job # NoJob =>
           \/ Same(run[w].job)
           \/ /\ rows'[run[w].job].att = rows[run[w].job].att
              /\ rows'[run[w].job].status = "failed"
              /\ run[w].job \in RetrySafe /\ rows[run[w].job].att >= MaxAttempts
  PROVE  Live'
<1>1. SingleExecution'
  BY DEF Live, SingleExecution
<1>2. LiveClaims'
  <2> SUFFICES ASSUME NEW w \in Workers, run'[w].job # NoJob
               PROVE  /\ run'[w].age <= RunLimit
                      /\ run'[w].token = rows'[run'[w].job].att
                      /\ \/ /\ rows'[run'[w].job].status = "running"
                            /\ rows'[run'[w].job].token = rows'[run'[w].job].att
                            /\ rows'[run'[w].job].lease >= LeaseTime - run'[w].age
                         \/ /\ rows'[run'[w].job].status = "failed"
                            /\ run'[w].job \in RetrySafe
                            /\ rows'[run'[w].job].att >= MaxAttempts
    BY DEF LiveClaims
  <2>1. run'[w] = run[w] /\ run[w].job # NoJob
    OBVIOUS
  <2>2. PICK j : j = run[w].job
    OBVIOUS
  <2>3. /\ run[w].age <= RunLimit /\ run[w].token = rows[j].att
        /\ \/ rows[j].status = "running" /\ rows[j].token = rows[j].att
              /\ rows[j].lease >= LeaseTime - run[w].age
           \/ rows[j].status = "failed" /\ j \in RetrySafe /\ rows[j].att >= MaxAttempts
    BY <2>1, <2>2 DEF Live, LiveClaims
  <2>4. CASE Same(j)
    BY <2>1, <2>2, <2>3, <2>4 DEF Same
  <2>5. CASE /\ rows'[j].att = rows[j].att /\ rows'[j].status = "failed"
             /\ j \in RetrySafe /\ rows[j].att >= MaxAttempts
    BY <2>1, <2>2, <2>3, <2>5
  <2>6. QED
    BY <2>1, <2>2, <2>4, <2>5
<1>3. QED
  BY <1>1, <1>2 DEF Live

LEMMA LiveGrant ==
  ASSUME RunLimit < LeaseTime, IInv, Live, NEW w \in Workers, NEW j \in Jobs, ClaimGranted(w, j)
  PROVE  Live'
<1>1. \A v \in Workers : run[v].job # j
  <2>1. rows[j].status = "queued" \/ (rows[j].status = "running" /\ ~(rows[j].lease > 0))
    BY DEF ClaimGranted, Refused, Leased
  <2>2. j # NoJob
    BY ConstantsAssumption
  <2>3. QED
    BY <2>1, <2>2, LiveRow
<1>2. \A v \in Workers \ {w} : run'[v] = run[v]
  BY GrantEffect
<1>3. run'[w] = [job |-> j, token |-> rows[j].att + 1, age |-> 0]
  BY GrantEffect
<1>4. SingleExecution'
  BY <1>1, <1>2, <1>3 DEF Live, SingleExecution
<1>5. LiveClaims'
  <2> SUFFICES ASSUME NEW v \in Workers, run'[v].job # NoJob
               PROVE  /\ run'[v].age <= RunLimit
                      /\ run'[v].token = rows'[run'[v].job].att
                      /\ \/ /\ rows'[run'[v].job].status = "running"
                            /\ rows'[run'[v].job].token = rows'[run'[v].job].att
                            /\ rows'[run'[v].job].lease >= LeaseTime - run'[v].age
                         \/ /\ rows'[run'[v].job].status = "failed"
                            /\ run'[v].job \in RetrySafe
                            /\ rows'[run'[v].job].att >= MaxAttempts
    BY DEF LiveClaims
  <2>1. CASE v = w
    <3>1. 0 <= RunLimit /\ LeaseTime >= LeaseTime - 0
      BY ConstantsAssumption
    <3>2. run'[v].job = j /\ run'[v].token = rows[j].att + 1 /\ run'[v].age = 0
      BY <1>3, <2>1
    <3>3. QED
      BY <3>1, <3>2, GrantEffect
  <2>2. CASE v # w
    <3>1. run'[v] = run[v] /\ run[v].job \in Jobs \ {j}
      BY <1>1, <1>2, <2>2, LiveRow
    <3>2. rows'[run[v].job] = rows[run[v].job]
      BY <3>1, GrantEffect
    <3>3. QED
      BY <3>1, <3>2 DEF Live, LiveClaims
  <2>3. QED
    BY <2>1, <2>2
<1>6. QED
  BY <1>4, <1>5 DEF Live

LEMMA LiveTick == ASSUME RunLimit < LeaseTime, IInv, Live, Tick PROVE Live'
<1>1. \A w \in Workers : run'[w].job = run[w].job /\ run'[w].token = run[w].token
  BY TickWorker DEF IInv
<1>2. SingleExecution'
  BY <1>1 DEF Live, SingleExecution
<1>3. LiveClaims'
  <2> SUFFICES ASSUME NEW w \in Workers, run'[w].job # NoJob
               PROVE  /\ run'[w].age <= RunLimit
                      /\ run'[w].token = rows'[run'[w].job].att
                      /\ \/ /\ rows'[run'[w].job].status = "running"
                            /\ rows'[run'[w].job].token = rows'[run'[w].job].att
                            /\ rows'[run'[w].job].lease >= LeaseTime - run'[w].age
                         \/ /\ rows'[run'[w].job].status = "failed"
                            /\ run'[w].job \in RetrySafe
                            /\ rows'[run'[w].job].att >= MaxAttempts
    BY DEF LiveClaims
  <2>1. PICK j \in Jobs : j = run[w].job
    BY <1>1, LiveRow
  <2>2. PICK e \in Execution : e = run[w]
    BY DEF IInv, TypeOK
  <2>3. run'[w].age = e.age + 1 /\ e.age < RunLimit /\ e.age \in Nat
    BY <1>1, <2>2 DEF Tick, Execution
  <2>4. PICK l \in Int : l = rows[j].lease
    BY DEF IInv, TypeOK, Row
  <2>5. /\ rows'[j].att = rows[j].att /\ rows'[j].status = rows[j].status
        /\ rows'[j].token = rows[j].token /\ rows'[j].lease = Elapse(l)
    BY <2>4, TickEffect
  <2>6. /\ e.token = rows[j].att
        /\ \/ rows[j].status = "running" /\ rows[j].token = rows[j].att /\ l >= LeaseTime - e.age
           \/ rows[j].status = "failed" /\ j \in RetrySafe /\ rows[j].att >= MaxAttempts
    BY <1>1, <2>1, <2>2, <2>4 DEF Live, LiveClaims
  <2>7. l >= LeaseTime - e.age => Elapse(l) >= LeaseTime - (e.age + 1)
    <3>1. LeaseTime \in Nat /\ RunLimit \in Nat
      BY ConstantsAssumption
    <3>2. QED
      BY <2>3, <3>1 DEF Elapse, Past
  <2>8. e.age + 1 <= RunLimit
    BY <2>3, ConstantsAssumption
  <2>9. QED
    BY <1>1, <2>1, <2>2, <2>3, <2>5, <2>6, <2>7, <2>8
<1>4. QED
  BY <1>2, <1>3 DEF Live

LEMMA LiveNext == ASSUME RunLimit < LeaseTime, IInv, Live, [Next]_vars PROVE Live'
<1>1. CASE run' = run /\ rows' = rows
  BY <1>1, LiveKept DEF Same
<1>2. ASSUME NEW j \in Jobs, Enqueue(j) PROVE Live'
  <2>1. \A w \in Workers : run[w].job # NoJob => run[w].job \in Jobs \ {j}
    BY <1>2, EnqueueEffect, LiveRow
  <2>2. QED
    BY <1>2, <2>1, EnqueueEffect, LiveKept DEF Same
<1>3. CASE Poll
  <2>1. run' = run
    BY <1>3 DEF Poll
  <2>2. ASSUME NEW w \in Workers, run[w].job # NoJob PROVE Same(run[w].job)
    <3>1. PICK j \in Jobs : j = run[w].job
      BY <2>2, LiveRow
    <3>2. rows[j].lease \in Int
      BY DEF IInv, TypeOK, Row
    <3>3. ~(rows[j].status = "running" /\ rows[j].lease < 0)
      BY <2>2, <3>1, <3>2, LiveRow
    <3>4. QED
      BY <1>3, <3>1, <3>3, PollEffect
  <2>3. QED
    BY <2>1, <2>2, LiveKept
<1>4. ASSUME NEW v \in Workers, NEW j \in Jobs, ClaimExhausted(v, j) PROVE Live'
  <2>1. run' = run /\ rows' = [rows EXCEPT ![j].status = "failed"] /\ "failed" \in Status
    BY <1>4 DEF ClaimExhausted, Status
  <2>2. j \in RetrySafe /\ rows[j].att >= MaxAttempts
    BY <1>4 DEF ClaimExhausted, Exhausted
  <2>3. /\ \A i \in Jobs \ {j} : Same(i)
        /\ rows'[j].att = rows[j].att /\ rows'[j].status = "failed"
    BY <2>1, CloseEffect DEF Same
  <2>4. \A w \in Workers : run[w].job # NoJob => run[w].job \in Jobs
    BY LiveRow
  <2>5. QED
    BY <2>1, <2>2, <2>3, <2>4, LiveKept
<1>5. ASSUME NEW j \in Jobs, NEW s \in Status, run' = run,
             rows' = [rows EXCEPT ![j].status = s],
             Lost(j) \/ rows[j].status = "needs_reconciliation"
      PROVE  Live'
  <2>1. \A w \in Workers : run[w].job # NoJob => run[w].job \in Jobs \ {j}
    BY <1>5, LiveRow DEF Lost, Leased
  <2>2. \A i \in Jobs \ {j} : Same(i)
    BY <1>5, CloseEffect DEF Same
  <2>3. QED
    BY <1>5, <2>1, <2>2, LiveKept
<1>6. ASSUME NEW v \in Workers, NEW outcome \in Outcome, Finish(v, outcome) PROVE Live'
  <2>1. \A w \in Workers : run'[w] = run[w] \/ run'[w].job = NoJob
    BY <1>6, FinishEffect DEF Idle, IInv, TypeOK
  <2>2. ASSUME NEW w \in Workers, run'[w].job # NoJob PROVE Same(run[w].job)
    <3>1. w # v /\ run[w].job # NoJob
      BY <1>6, <2>1, <2>2, FinishEffect DEF Idle, IInv, TypeOK
    <3>2. run[w].job \in Jobs /\ run[w].job # run[v].job
      BY <3>1, LiveRow DEF Live, SingleExecution
    <3>3. QED
      BY <1>6, <3>2, FinishEffect DEF Same
  <2>3. QED
    BY <2>1, <2>2, LiveKept
<1>7. ASSUME NEW v \in Workers, Crash(v) PROVE Live'
  <2>1. rows' = rows /\ \A w \in Workers : run'[w] = run[w] \/ run'[w].job = NoJob
    BY <1>7 DEF Crash, Idle, IInv, TypeOK
  <2>2. QED
    BY <2>1, LiveKept DEF Same
<1>8. ASSUME NEW w \in Workers, NEW j \in Jobs, Receive(w, j) PROVE Live'
  <2>1. CASE ClaimNothing(w, j)
    BY <1>1, <2>1 DEF ClaimNothing
  <2>2. CASE ClaimLost(w, j)
    BY <1>5, <2>2 DEF ClaimLost, Status
  <2>3. QED
    BY <1>4, <1>8, <2>1, <2>2, LiveGrant DEF Receive
<1>9. ASSUME NEW j \in Jobs, NEW decision \in Decision, Resolve(j, decision) PROVE Live'
  BY <1>5, <1>9 DEF Resolve, Decision, Status
<1>10. QED
  BY <1>1, <1>2, <1>3, <1>6, <1>7, <1>8, <1>9, LiveTick
     DEF Next, vars, Publish, LoseMessage, PassFails, Redeliver

LEMMA LiveInit == Init => Live
BY ConstantsAssumption DEF Init, Live, SingleExecution, LiveClaims, Idle

(* The lease outlives the task (330 s against 270 s), so no two workers ever
   execute one job, whatever is delivered twice and whoever crashes. *)
THEOREM OneWorkerPerJob == ASSUME RunLimit < LeaseTime PROVE Spec => []SingleExecution
<1>1. Live => SingleExecution
  BY DEF Live
<1>2. IInv /\ Live /\ [Next]_vars => Live'
  BY LiveNext
<1>3. QED
  BY <1>1, <1>2, LiveInit, InitIInv, NextIInv, PTL DEF Spec

(* Under the same assumption a task only ever runs under its own live claim,
   or in the shadow of a row that was closed on its last attempt. *)
THEOREM ClaimsAreLive == ASSUME RunLimit < LeaseTime PROVE Spec => []LiveClaims
<1>1. Live => LiveClaims
  BY DEF Live
<1>2. IInv /\ Live /\ [Next]_vars => Live'
  BY LiveNext
<1>3. QED
  BY <1>1, <1>2, LiveInit, InitIInv, NextIInv, PTL DEF Spec

-----------------------------------------------------------------------------
(* Rows that have left the line.  Only a worker in the shadow of a closed  *)
(* row can still write to one: it leaves the row settled unless its agent  *)
(* run asks for reconciliation, and it was in its last attempt.            *)

LEMMA FinishLeft ==
  ASSUME RunLimit < LeaseTime, IInv, Live, NEW w \in Workers, NEW outcome \in Outcome,
         Finish(w, outcome), rows[run[w].job].status = "failed"
  PROVE  /\ run[w].job \in RetrySafe /\ rows[run[w].job].att >= MaxAttempts
         /\ \/ rows'[run[w].job].status \in Settled
            \/ /\ rows'[run[w].job].status = "needs_reconciliation"
               /\ run[w].job \in AgentJobs
<1>1. PICK j \in Jobs : j = run[w].job
  BY FinishEffect
<1>2. run[w].job # NoJob /\ outcome \in OutcomesOf(j)
  BY <1>1, FinishEffect, ConstantsAssumption
<1>3. j \in RetrySafe /\ rows[j].att >= MaxAttempts
  BY <1>1, <1>2, LiveRow
<1>4. run[w].token = rows[j].att
  BY <1>1, <1>2 DEF Live, LiveClaims
<1>5. \/ StatusAfter(j, run[w].token, outcome) \in Settled
      \/ StatusAfter(j, run[w].token, outcome) = "needs_reconciliation" /\ j \in AgentJobs
  <2>1. rows[j].att \in Nat /\ MaxAttempts \in Nat
    BY ConstantsAssumption DEF IInv, TypeOK, Row
  <2>2. outcome = "reconcile" => j \in AgentJobs
    BY <1>2 DEF OutcomesOf
  <2>3. CASE outcome \in {"result", "permanent"}
    BY <2>3 DEF StatusAfter, Settled
  <2>4. CASE outcome = "reconcile"
    BY <2>2, <2>4 DEF StatusAfter
  <2>5. CASE outcome = "error"
    BY <1>3, <1>4, <2>1, <2>5 DEF StatusAfter, Settled
  <2>6. QED
    BY <2>3, <2>4, <2>5 DEF Outcome
<1>6. rows' = rows \/ rows'[j].status = StatusAfter(j, run[w].token, outcome)
  BY <1>1, FinishEffect
<1>7. rows[j].status \in Settled
  BY <1>1 DEF Settled
<1>8. QED
  BY <1>1, <1>3, <1>5, <1>6, <1>7

LEMMA LeftStays ==
  ASSUME RunLimit < LeaseTime, IInv, Live, [Next]_vars, NEW j \in Jobs,
         LeftLine(j), rows'[j].att = rows[j].att
  PROVE  LeftLine(j)'
<1>0. rows[j].status \notin {"absent", "queued", "running"}
  BY DEF LeftLine, Settled
<1>1. ASSUME rows'[j].status = rows[j].status PROVE LeftLine(j)'
  BY <1>1 DEF LeftLine
<1>2. ASSUME NEW i \in Jobs, Enqueue(i) PROVE LeftLine(j)'
  BY <1>0, <1>1, <1>2, EnqueueEffect
<1>3. CASE Poll
  BY <1>0, <1>1, <1>3, PollEffect DEF Same
<1>4. CASE Tick
  BY <1>1, <1>4, TickEffect
<1>5. ASSUME NEW i \in Jobs, NEW s \in Status, rows' = [rows EXCEPT ![i].status = s], i # j
      PROVE  LeftLine(j)'
  BY <1>1, <1>5, CloseEffect
<1>6. ASSUME NEW w \in Workers, NEW i \in Jobs, Receive(w, i) PROVE LeftLine(j)'
  <2>1. CASE ClaimNothing(w, i)
    BY <1>1, <2>1 DEF ClaimNothing
  <2>2. CASE ClaimExhausted(w, i)
    BY <1>0, <1>5, <2>2 DEF ClaimExhausted, Refused, Status
  <2>3. CASE ClaimLost(w, i)
    BY <1>0, <1>5, <2>3 DEF ClaimLost, Lost, Status
  <2>4. CASE ClaimGranted(w, i)
    <3>1. i # j
      BY <1>0, <2>4 DEF ClaimGranted, Refused
    <3>2. QED
      BY <1>1, <2>4, <3>1, GrantEffect
  <2>5. QED
    BY <1>6, <2>1, <2>2, <2>3, <2>4 DEF Receive
<1>7. ASSUME NEW w \in Workers, NEW outcome \in Outcome, Finish(w, outcome)
      PROVE  LeftLine(j)'
  <2>1. CASE run[w].job = j
    <3>1. rows[j].status = "failed"
      <4>1. run[w].job # NoJob
        BY <2>1, ConstantsAssumption
      <4>2. QED
        BY <1>0, <2>1, <4>1, LiveRow
    <3>2. QED
      BY <1>7, <2>1, <3>1, FinishLeft DEF LeftLine
  <2>2. CASE run[w].job # j
    BY <1>1, <1>7, <2>2, FinishEffect
  <2>3. QED
    BY <2>1, <2>2
<1>8. ASSUME NEW i \in Jobs, NEW decision \in Decision, Resolve(i, decision)
      PROVE  LeftLine(j)'
  <2>1. decision \in Status /\ rows' = [rows EXCEPT ![i].status = decision]
    BY <1>8 DEF Resolve, Decision, Status
  <2>2. CASE i = j
    BY <2>1, <2>2, CloseEffect DEF LeftLine, Decision, Settled
  <2>3. QED
    BY <1>5, <2>1, <2>2
<1>9. QED
  BY <1>1, <1>2, <1>3, <1>4, <1>6, <1>7, <1>8
     DEF Next, vars, Publish, LoseMessage, PassFails, Crash, Redeliver

-----------------------------------------------------------------------------
(* Ids are handed out in increasing order, to present rows only. *)
Ids == \A j \in Jobs : rows[j].id <= lastId /\ (rows[j].id > 0 => rows[j].status # "absent")

LaneInv == LaneInOrder /\ Ids

LEMMA LaneKept ==
  ASSUME RunLimit < LeaseTime, IInv, Live, LaneInv, [Next]_vars,
         lastId' = lastId,
         \A j \in Jobs : /\ rows'[j].id = rows[j].id /\ rows'[j].att = rows[j].att
                         /\ rows[j].status # "absent" => rows'[j].status # "absent"
  PROVE  LaneInv'
<1>1. \A j \in Jobs : LeftLine(j) => LeftLine(j)'
  BY LeftStays
<1>2. LaneInOrder'
  BY <1>1 DEF LaneInv, LaneInOrder
<1>3. Ids'
  BY DEF LaneInv, Ids
<1>4. QED
  BY <1>2, <1>3 DEF LaneInv

LEMMA LaneGrant ==
  ASSUME IInv, LaneInv, NEW w \in Workers, NEW j \in Jobs, ClaimGranted(w, j)
  PROVE  LaneInv'
<1>1. rows[j].status \in {"queued", "running"} /\ ~LaneBlocked(j)
  BY DEF ClaimGranted, Refused
<1>2. LaneInOrder'
  <2> SUFFICES ASSUME NEW i \in Jobs, NEW k \in Jobs,
                      LaneOf[i] # NoLane, LaneOf[i] = LaneOf[k],
                      0 < rows'[i].id, rows'[i].id < rows'[k].id, rows'[k].att > 0
               PROVE  LeftLine(i)'
    BY DEF LaneInOrder
  <2>1. \A q \in Jobs : rows'[q].id = rows[q].id
    BY GrantEffect
  <2>2. CASE k = j
    <3>1. i # j /\ rows'[i] = rows[i]
      <4>1. rows[i].id < rows[k].id /\ rows[i].id \in Nat
        BY <2>1 DEF IInv, TypeOK, Row
      <4>2. i # k
        BY <4>1
      <4>3. QED
        BY <2>2, <4>2, GrantEffect
    <3>2. rows[i].status \notin {"running", "needs_reconciliation", "queued"}
      BY <1>1, <2>1, <2>2, <3>1 DEF LaneBlocked
    <3>3. rows[i].status # "absent" /\ rows[i].status \in Status
      BY <2>1 DEF LaneInv, Ids, IInv, TypeOK, Row
    <3>4. QED
      BY <3>1, <3>2, <3>3 DEF Status, Settled, LeftLine
  <2>3. CASE k # j
    <3>0. rows'[k] = rows[k]
      BY <2>3, GrantEffect
    <3>1. LeftLine(i)
      BY <2>1, <3>0 DEF LaneInv, LaneInOrder
    <3>2. i # j
      BY <1>1, <3>1 DEF Settled, LeftLine
    <3>3. QED
      BY <3>1, <3>2, GrantEffect DEF LeftLine
  <2>4. QED
    BY <2>2, <2>3
<1>3. Ids'
  BY GrantEffect DEF LaneInv, Ids
<1>4. QED
  BY <1>2, <1>3 DEF LaneInv

LEMMA LaneEnqueue ==
  ASSUME IInv, LaneInv, NEW j \in Jobs, Enqueue(j) PROVE LaneInv'
<1>1. \A i \in Jobs : rows[i].id \in Nat /\ rows[i].id <= lastId /\ lastId \in Nat
  BY DEF IInv, TypeOK, Row, LaneInv, Ids
<1>2. Ids'
  BY <1>1, EnqueueEffect DEF LaneInv, Ids
<1>3. LaneInOrder'
  <2> SUFFICES ASSUME NEW i \in Jobs, NEW k \in Jobs,
                      LaneOf[i] # NoLane, LaneOf[i] = LaneOf[k],
                      0 < rows'[i].id, rows'[i].id < rows'[k].id, rows'[k].att > 0
               PROVE  LeftLine(i)'
    BY DEF LaneInOrder
  <2>1. k # j /\ rows'[k] = rows[k]
    BY EnqueueEffect
  <2>2. i # j /\ rows'[i] = rows[i]
    BY <1>1, <2>1, EnqueueEffect
  <2>3. LeftLine(i)
    BY <2>1, <2>2 DEF LaneInv, LaneInOrder
  <2>4. QED
    BY <2>2, <2>3 DEF LeftLine
<1>4. QED
  BY <1>2, <1>3 DEF LaneInv

LEMMA LaneNext ==
  ASSUME RunLimit < LeaseTime, IInv, Live, LaneInv, [Next]_vars
  PROVE  LaneInv'
<1>1. CASE rows' = rows /\ lastId' = lastId
  BY <1>1, LaneKept
<1>2. ASSUME NEW i \in Jobs, NEW s \in Status \ {"absent"},
             rows' = [rows EXCEPT ![i].status = s], lastId' = lastId
      PROVE  LaneInv'
  BY <1>2, CloseEffect, LaneKept
<1>3. CASE Poll
  <2>1. lastId' = lastId
    BY <1>3 DEF Poll
  <2>2. ASSUME NEW j \in Jobs, rows[j].status # "absent" PROVE rows'[j].status # "absent"
    <3>1. IInv'
      BY NextIInv
    <3>2. CASE Same(j)
      BY <2>2, <3>2 DEF Same
    <3>3. CASE rows[j].status = "running" /\ rows'[j].att = rows[j].att
      <4>1. PICK r \in Row : r = rows[j]
        BY DEF IInv, TypeOK
      <4>2. Recovered(r, j).status # "absent"
        BY <2>2, <4>1, RecoveredRow
      <4>3. PICK q \in Row : q = Recovered(r, j)
        BY RecoveredRow
      <4>4. rows'[j] = q \/ rows'[j] = [q EXCEPT !.pub = ReserveTime]
        BY <1>3, <4>1, <4>3 DEF Poll
      <4>5. PICK p \in Int : p = ReserveTime
        BY ConstantsAssumption
      <4>6. rows'[j] = q \/ rows'[j].status = q.status
        BY <4>4, <4>5, ReservedRow
      <4>7. QED
        BY <4>2, <4>3, <4>6
    <3>4. QED
      BY <1>3, <3>2, <3>3, PollEffect
  <2>3. QED
    BY <1>3, <2>1, <2>2, PollEffect, LaneKept DEF Same
<1>4. CASE Tick
  BY <1>4, TickEffect, LaneKept DEF Tick
<1>5. ASSUME NEW w \in Workers, NEW i \in Jobs, Receive(w, i) PROVE LaneInv'
  <2>1. CASE ClaimNothing(w, i)
    BY <1>1, <2>1 DEF ClaimNothing
  <2>2. CASE ClaimExhausted(w, i)
    BY <1>2, <2>2 DEF ClaimExhausted, Status
  <2>3. CASE ClaimLost(w, i)
    BY <1>2, <2>3 DEF ClaimLost, Status
  <2>4. QED
    BY <1>5, <2>1, <2>2, <2>3, LaneGrant DEF Receive
<1>6. ASSUME NEW w \in Workers, NEW outcome \in Outcome, Finish(w, outcome) PROVE LaneInv'
  <2>1. StatusAfter(run[w].job, run[w].token, outcome) # "absent"
    BY DEF StatusAfter, Outcome
  <2>2. QED
    BY <1>6, <2>1, FinishEffect, LaneKept
<1>7. ASSUME NEW i \in Jobs, NEW decision \in Decision, Resolve(i, decision) PROVE LaneInv'
  BY <1>2, <1>7 DEF Resolve, Decision, Status
<1>8. QED
  BY <1>1, <1>3, <1>4, <1>5, <1>6, <1>7, LaneEnqueue
     DEF Next, vars, Publish, LoseMessage, PassFails, Crash, Redeliver

LEMMA LaneInit == Init => LaneInv
BY DEF Init, LaneInv, LaneInOrder, Ids, NoRow

(* A serial lane is FIFO: a job is started only after everything enqueued
   before it has left the line for good.  The one way to leave it with the
   outcome unknown is to be closed under the last attempt of a retry-safe job. *)
THEOREM LanesInOrder == ASSUME RunLimit < LeaseTime PROVE Spec => []LaneInOrder
<1>1. LaneInv => LaneInOrder
  BY DEF LaneInv
<1>2. IInv /\ Live /\ [Next]_vars => Live'
  BY LiveNext
<1>3. IInv /\ Live /\ LaneInv /\ [Next]_vars => LaneInv'
  BY LaneNext
<1>4. QED
  BY <1>1, <1>2, <1>3, LaneInit, LiveInit, InitIInv, NextIInv, PTL DEF Spec

-----------------------------------------------------------------------------
(* A resolved job is settled and nobody executes it any more. *)
Resolved ==
  \A j \in Jobs : audit[j] # "none" =>
    /\ rows[j].status = audit[j]
    /\ \A w \in Workers : run[w].job # j

LEMMA ResolvedNext ==
  ASSUME RunLimit < LeaseTime, IInv, Live, Resolved, [Next]_vars
  PROVE  Resolved'
<1>0. ASSUME NEW j \in Jobs, audit[j] # "none"
      PROVE  /\ rows[j].status = audit[j] /\ rows[j].status \in Settled
             /\ \A w \in Workers : run[w].job # j
  BY <1>0 DEF Resolved, IInv, TypeOK, Decision, Settled
<1>1. ASSUME audit' = audit,
             \A j \in Jobs : audit[j] # "none" => rows'[j].status = rows[j].status,
             \A j \in Jobs, w \in Workers : run'[w].job = j => run[w].job = j \/ audit[j] = "none"
      PROVE  Resolved'
  BY <1>0, <1>1 DEF Resolved
<1>2. CASE rows' = rows /\ run' = run /\ audit' = audit
  BY <1>1, <1>2
<1>3. ASSUME NEW j \in Jobs, Enqueue(j) PROVE Resolved'
  BY <1>0, <1>1, <1>3, EnqueueEffect DEF Settled
<1>4. CASE Poll
  <2>1. audit' = audit /\ run' = run
    BY <1>4 DEF Poll
  <2>2. \A j \in Jobs : audit[j] # "none" => rows'[j].status = rows[j].status
    BY <1>0, <1>4, PollEffect DEF Same, Settled
  <2>3. QED
    BY <1>1, <2>1, <2>2
<1>5. CASE Tick
  <2>1. audit' = audit /\ \A w \in Workers : run'[w].job = run[w].job
    BY <1>5, TickWorker DEF Tick, IInv
  <2>2. QED
    BY <1>1, <1>5, <2>1, TickEffect
<1>6. ASSUME NEW w \in Workers, NEW i \in Jobs, Receive(w, i) PROVE Resolved'
  <2>1. CASE ClaimNothing(w, i)
    BY <1>2, <2>1 DEF ClaimNothing
  <2>2. CASE ~Refused(i)
    <3>1. audit[i] = "none"
      BY <1>0, <2>2 DEF Refused, Settled
    <3>2. CASE ClaimExhausted(w, i)
      BY <1>1, <3>1, <3>2, CloseEffect DEF ClaimExhausted, Status
    <3>3. CASE ClaimLost(w, i)
      BY <1>1, <3>1, <3>3, CloseEffect DEF ClaimLost, Status
    <3>4. CASE ClaimGranted(w, i)
      <4>1. audit' = audit /\ \A j \in Jobs : audit[j] # "none" => rows'[j] = rows[j]
        BY <3>1, <3>4, GrantEffect
      <4>2. \A v \in Workers : run'[v] = run[v] \/ run'[v].job = i
        <5>1. run'[w].job = i
          <6>1. run'[w] = [job |-> i, token |-> rows[i].att + 1, age |-> 0]
            BY <3>4, GrantEffect
          <6>2. QED
            BY <6>1
        <5>2. QED
          BY <3>4, <5>1, GrantEffect
      <4>3. QED
        BY <1>1, <3>1, <4>1, <4>2
    <3>5. QED
      BY <1>6, <2>1, <3>2, <3>3, <3>4 DEF Receive
  <2>3. QED
    BY <1>6, <2>1, <2>2 DEF Receive, ClaimExhausted, ClaimLost, ClaimGranted
<1>7. ASSUME NEW w \in Workers, NEW outcome \in Outcome, Finish(w, outcome) PROVE Resolved'
  <2>1. audit' = audit /\ audit[run[w].job] = "none"
    BY <1>0, <1>7, FinishEffect
  <2>2. \A j \in Jobs : audit[j] # "none" => rows'[j] = rows[j]
    BY <1>7, <2>1, FinishEffect
  <2>3. \A v \in Workers : run'[v] = run[v] \/ run'[v].job = NoJob
    BY <1>7, FinishEffect DEF Idle, IInv, TypeOK
  <2>4. QED
    BY <1>1, <2>1, <2>2, <2>3, ConstantsAssumption
<1>8. ASSUME NEW w \in Workers, Crash(w) PROVE Resolved'
  <2>1. rows' = rows /\ audit' = audit
        /\ \A v \in Workers : run'[v] = run[v] \/ run'[v].job = NoJob
    BY <1>8 DEF Crash, Idle, IInv, TypeOK
  <2>2. QED
    BY <1>1, <2>1, ConstantsAssumption
<1>9. ASSUME NEW i \in Jobs, NEW decision \in Decision, Resolve(i, decision) PROVE Resolved'
  <2>1. /\ rows[i].status = "needs_reconciliation" /\ run' = run
        /\ audit' = [audit EXCEPT ![i] = decision]
        /\ rows' = [rows EXCEPT ![i].status = decision] /\ decision \in Status
    BY <1>9 DEF Resolve, Decision, Status
  <2>2. \A w \in Workers : run[w].job # i
    BY <2>1, LiveRow, ConstantsAssumption
  <2>3. /\ \A j \in Jobs \ {i} : rows'[j] = rows[j] /\ audit'[j] = audit[j]
        /\ rows'[i].status = decision /\ audit'[i] = decision
    BY <2>1, CloseEffect DEF IInv, TypeOK
  <2>4. QED
    BY <2>1, <2>2, <2>3 DEF Resolved
<1>10. QED
  BY <1>2, <1>3, <1>4, <1>5, <1>6, <1>7, <1>8, <1>9
     DEF Next, vars, Publish, LoseMessage, PassFails, Redeliver

(* An operator's audited decision stands: once the outcome of a job has been
   settled by hand, no late worker and no recovery changes it. *)
THEOREM ResolutionsStand == ASSUME RunLimit < LeaseTime PROVE Spec => []AuditMatchesLedger
<1>1. Init => Resolved
  BY DEF Init, Resolved
<1>2. Resolved => AuditMatchesLedger
  BY DEF Resolved, AuditMatchesLedger
<1>3. IInv /\ Live /\ [Next]_vars => Live'
  BY LiveNext
<1>4. IInv /\ Live /\ Resolved /\ [Next]_vars => Resolved'
  BY ResolvedNext
<1>5. QED
  BY <1>1, <1>2, <1>3, <1>4, LiveInit, InitIInv, NextIInv, PTL DEF Spec

(* Nobody executes a completed job (LiveRow), so nobody ends it, and a claim refuses it. *)
LEMMA CompletedStep ==
  ASSUME RunLimit < LeaseTime, IInv, Live, [Next]_vars, NEW j \in Jobs,
         rows[j].status = "completed"
  PROVE  rows'[j].status = "completed" /\ rows'[j].att = rows[j].att
<1> DEFINE Kept == rows'[j].status = "completed" /\ rows'[j].att = rows[j].att
<1>1. CASE rows' = rows
  BY <1>1
<1>2. ASSUME NEW i \in Jobs, Enqueue(i) PROVE Kept
  BY <1>2, EnqueueEffect
<1>3. CASE Poll
  BY <1>3, PollEffect DEF Same
<1>4. CASE Tick
  BY <1>4, TickEffect
<1>5. ASSUME NEW i \in Jobs, NEW s \in Status, rows' = [rows EXCEPT ![i].status = s],
             rows[i].status # "completed"
      PROVE  Kept
  BY <1>5, CloseEffect
<1>6. ASSUME NEW w \in Workers, NEW i \in Jobs, Receive(w, i) PROVE Kept
  <2>1. CASE ClaimNothing(w, i)
    BY <1>1, <2>1 DEF ClaimNothing
  <2>2. CASE ClaimExhausted(w, i)
    BY <1>5, <2>2 DEF ClaimExhausted, Refused, Status
  <2>3. CASE ClaimLost(w, i)
    BY <1>5, <2>3 DEF ClaimLost, Lost, Status
  <2>4. CASE ClaimGranted(w, i)
    <3>1. rows[i].status # "completed"
      BY <2>4 DEF ClaimGranted, Refused
    <3> QED BY <2>4, <3>1, GrantEffect
  <2> QED BY <1>6, <2>1, <2>2, <2>3, <2>4 DEF Receive
<1>7. ASSUME NEW w \in Workers, NEW outcome \in Outcome, Finish(w, outcome) PROVE Kept
  <2>1. run[w].job # NoJob
    BY <1>7, FinishEffect, ConstantsAssumption
  <2>2. run[w].job # j
    BY <2>1, LiveRow
  <2> QED BY <1>7, <2>2, FinishEffect
<1>8. ASSUME NEW i \in Jobs, NEW decision \in Decision, Resolve(i, decision) PROVE Kept
  BY <1>5, <1>8 DEF Resolve, Decision, Status
<1> QED
  BY <1>1, <1>2, <1>3, <1>4, <1>6, <1>7, <1>8
     DEF Next, vars, Publish, LoseMessage, PassFails, Crash, Redeliver

(* A completed job is never executed again and nobody overwrites its outcome, although
   the broker may deliver it again and its workers may end late. *)
THEOREM CompletedForGood == ASSUME RunLimit < LeaseTime PROVE Spec => CompletedIsFinal
<1>1. IInv /\ Live /\ [Next]_vars => Live'
  BY LiveNext
<1>2. IInv /\ Live /\ [Next]_vars
        => [\A j \in Jobs : rows[j].status = "completed" =>
              rows'[j].status = "completed" /\ rows'[j].att = rows[j].att]_vars
  BY CompletedStep
<1> QED
  BY <1>1, <1>2, LiveInit, InitIInv, NextIInv, PTL DEF Spec, CompletedIsFinal

-----------------------------------------------------------------------------
(* The order of the ids, of one set of jobs and of the sets one step away. *)

LEMMA SamePlace ==
  ASSUME NEW U, NEW id, NEW key, \A i \in U : id[i] = key[i], NEW j \in U
  PROVE  Place(U, id, j) = Place(U, key, j)
<1>1. {i \in U : id[i] <= id[j]} = {i \in U : key[i] <= key[j]}
  OBVIOUS
<1>2. QED
  BY <1>1 DEF Place

(* Only the ids of the members count. *)
LEMMA SameLine ==
  ASSUME NEW U, NEW id, NEW key, \A i \in U : id[i] = key[i]
  PROVE  ById(U, id) = ById(U, key)
<1>1. \A k : {j \in U : Place(U, id, j) = k} = {j \in U : Place(U, key, j) = k}
  BY SamePlace
<1>2. QED
  BY <1>1 DEF ById

LEMMA PlaceRange ==
  ASSUME NEW U, IsFiniteSet(U), NEW id, NEW j
  PROVE  Place(U, id, j) \in Nat /\ Place(U, id, j) <= Cardinality(U)
<1>1. {i \in U : id[i] <= id[j]} \in SUBSET U
  OBVIOUS
<1>2. QED
  BY <1>1, FS_Subset, FS_CardinalityType DEF Place

(* A job with a greater id than the others goes to the end. *)
LEMMA LineAppend ==
  ASSUME NEW U, IsFiniteSet(U), NEW j, j \notin U, NEW id, NEW key,
         \A i \in U : id[i] = key[i] /\ id[i] \in Nat /\ key[i] < key[j], key[j] \in Nat
  PROVE  ById(U \cup {j}, key) = Append(ById(U, id), j)
<1>0. PICK n \in Nat : n = Cardinality(U)
  BY FS_CardinalityType
<1>1. Cardinality(U \cup {j}) = n + 1
  BY <1>0, FS_AddElement
<1>2. ASSUME NEW i \in U PROVE Place(U \cup {j}, key, i) = Place(U, id, i)
  <2>1. {h \in U \cup {j} : key[h] <= key[i]} = {h \in U : id[h] <= id[i]}
    <3>1. ~(key[j] <= key[i])
      <4>1. key[i] < key[j] /\ key[i] \in Nat
        OBVIOUS
      <4>2. QED
        BY <4>1
    <3>2. QED
      BY <3>1
  <2>2. QED
    BY <2>1 DEF Place
<1>3. Place(U \cup {j}, key, j) = n + 1
  <2>1. \A h \in U : key[h] <= key[j]
    <3>1. \A h \in U : key[h] \in Nat /\ key[h] < key[j]
      OBVIOUS
    <3>2. QED
      BY <3>1
  <2>2. {h \in U \cup {j} : key[h] <= key[j]} = U \cup {j}
    BY <2>1
  <2>3. QED
    BY <1>1, <2>2 DEF Place
<1>4. ASSUME NEW k \in 1..n
      PROVE  {i \in U \cup {j} : Place(U \cup {j}, key, i) = k} = {i \in U : Place(U, id, i) = k}
  BY <1>2, <1>3
<1>5. {i \in U \cup {j} : Place(U \cup {j}, key, i) = n + 1} = {j}
  <2>1. ASSUME NEW i \in U PROVE Place(U \cup {j}, key, i) # n + 1
    BY <1>0, <1>2, PlaceRange
  <2>2. QED
    BY <1>3, <2>1
<1>6. Only({j}) = j
  BY DEF Only
<1>7. PICK f : f = [k \in 1..n |-> Only({i \in U : Place(U, id, i) = k})]
  OBVIOUS
<1>8. ById(U, id) = f /\ Len(f) = n
  BY <1>0, <1>7 DEF ById
<1>9. Append(f, j) = [k \in 1..n + 1 |-> IF k <= n THEN f[k] ELSE j]
  BY <1>7, <1>8
<1>10. ASSUME NEW k \in 1..n + 1
       PROVE  Only({i \in U \cup {j} : Place(U \cup {j}, key, i) = k})
                = IF k <= n THEN f[k] ELSE j
  <2>1. CASE k <= n
    <3>1. k \in 1..n
      BY <2>1
    <3>2. f[k] = Only({i \in U : Place(U, id, i) = k})
      BY <1>7, <3>1
    <3>3. QED
      BY <1>4, <2>1, <3>1, <3>2
  <2>2. CASE k = n + 1
    <3>1. {i \in U \cup {j} : Place(U \cup {j}, key, i) = k} = {j}
      BY <1>5, <2>2
    <3>2. ~(k <= n)
      BY <2>2
    <3>3. QED
      BY <1>6, <3>1, <3>2
  <2>3. QED
    BY <2>1, <2>2
<1>11. ById(U \cup {j}, key) = [k \in 1..n + 1 |-> IF k <= n THEN f[k] ELSE j]
  BY <1>1, <1>10 DEF ById
<1>12. QED
  BY <1>8, <1>9, <1>11

(* The job with the least id is the head, and taking it out takes the head off. *)
LEMMA LineTail ==
  ASSUME NEW U, IsFiniteSet(U), NEW m \in U, NEW id,
         \A i \in U : id[i] \in Nat, \A i \in U \ {m} : id[m] < id[i]
  PROVE  ById(U \ {m}, id) = Tail(ById(U, id)) /\ Head(ById(U, id)) = m
<1>0. PICK n \in Nat : n = Cardinality(U)
  BY FS_CardinalityType
<1>1. Cardinality(U \ {m}) = n - 1 /\ IsFiniteSet(U \ {m})
  BY <1>0, FS_RemoveElement
<1>2. ASSUME NEW i \in U \ {m} PROVE Place(U, id, i) = Place(U \ {m}, id, i) + 1
  <2>1. PICK S : S = {h \in U : id[h] <= id[i]}
    OBVIOUS
  <2>2. m \in S
    <3>1. id[m] < id[i] /\ id[m] \in Nat /\ id[i] \in Nat
      OBVIOUS
    <3>2. id[m] <= id[i]
      BY <3>1
    <3>3. QED
      BY <2>1, <3>2
  <2>3. S \ {m} = {h \in U \ {m} : id[h] <= id[i]}
    BY <2>1
  <2>4. IsFiniteSet(S) /\ Cardinality(S) \in Nat
    BY <2>1, FS_Subset, FS_CardinalityType
  <2>5. Cardinality(S \ {m}) = Cardinality(S) - 1
    BY <2>2, <2>4, FS_RemoveElement
  <2>6. Place(U, id, i) = Cardinality(S) /\ Place(U \ {m}, id, i) = Cardinality(S \ {m})
    BY <2>1, <2>3 DEF Place
  <2>7. QED
    BY <2>4, <2>5, <2>6
<1>3. Place(U, id, m) = 1
  <2>1. \A i \in U \ {m} : ~(id[i] <= id[m])
    <3>1. \A i \in U \ {m} : id[m] < id[i] /\ id[i] \in Nat /\ id[m] \in Nat
      OBVIOUS
    <3>2. QED
      BY <3>1
  <2>2. id[m] <= id[m]
    <3>1. id[m] \in Nat
      OBVIOUS
    <3>2. QED
      BY <3>1
  <2>3. {i \in U : id[i] <= id[m]} = {m}
    BY <2>1, <2>2
  <2>4. QED
    BY <2>3, FS_Singleton DEF Place
<1>4. ASSUME NEW k \in 1..n - 1
      PROVE  {i \in U \ {m} : Place(U \ {m}, id, i) = k} = {i \in U : Place(U, id, i) = k + 1}
  <2>1. \A i \in U \ {m} : Place(U \ {m}, id, i) \in Nat
    BY <1>1, PlaceRange
  <2>2. \A i \in U \ {m} : Place(U \ {m}, id, i) = k <=> Place(U, id, i) = k + 1
    BY <1>2, <2>1
  <2>3. Place(U, id, m) # k + 1
    BY <1>3
  <2>4. QED
    BY <2>2, <2>3
<1>5. PICK f : f = [k \in 1..n |-> Only({i \in U : Place(U, id, i) = k})]
  OBVIOUS
<1>6. ById(U, id) = f /\ Len(f) = n
  BY <1>0, <1>5 DEF ById
<1>7. Tail(f) = [k \in 1..n - 1 |-> f[k + 1]]
  <2>1. PICK S : S = {f[k] : k \in 1..n}
    OBVIOUS
  <2>2. f \in Seq(S) /\ f # <<>>
    <3>1. n # 0
      BY <1>0, FS_EmptySet
    <3>2. f \in [1..n -> S]
      BY <1>5, <2>1
    <3>3. f \in Seq(S)
      BY <3>2
    <3>4. QED
      BY <1>6, <3>1, <3>3
  <2>3. Tail(f) \in [1..n - 1 -> S] /\ \A k \in 1..n - 1 : Tail(f)[k] = f[k + 1]
    <3>1. /\ Tail(f) \in Seq(S) /\ Len(Tail(f)) = n - 1
          /\ \A k \in 1..n - 1 : Tail(f)[k] = f[k + 1]
      BY <1>6, <2>2, HeadTailProperties
    <3>2. QED
      BY <3>1, LenProperties
  <2>4. QED
    BY <2>3
<1>8. ById(U \ {m}, id) = [k \in 1..n - 1 |-> f[k + 1]]
  <2>1. \A k \in 1..n - 1 : Only({i \in U \ {m} : Place(U \ {m}, id, i) = k}) = f[k + 1]
    <3> SUFFICES ASSUME NEW k \in 1..n - 1
                 PROVE  Only({i \in U \ {m} : Place(U \ {m}, id, i) = k}) = f[k + 1]
      OBVIOUS
    <3>1. k + 1 \in 1..n
      OBVIOUS
    <3>2. f[k + 1] = Only({i \in U : Place(U, id, i) = k + 1})
      BY <1>5, <3>1
    <3>3. QED
      BY <1>4, <3>2
  <2>2. QED
    BY <1>1, <2>1 DEF ById
<1>9. Head(f) = m
  <2>1. ASSUME NEW i \in U \ {m} PROVE Place(U, id, i) # 1
    <3>1. i \in {h \in U \ {m} : id[h] <= id[i]} /\ IsFiniteSet({h \in U \ {m} : id[h] <= id[i]})
      <4>1. id[i] \in Nat
        OBVIOUS
      <4>2. id[i] <= id[i]
        BY <4>1
      <4>3. {h \in U \ {m} : id[h] <= id[i]} \in SUBSET (U \ {m})
        OBVIOUS
      <4>4. QED
        BY <1>1, <4>2, <4>3, FS_Subset
    <3>2. Place(U \ {m}, id, i) # 0
      BY <3>1, FS_EmptySet DEF Place
    <3>3. Place(U \ {m}, id, i) \in Nat
      BY <1>1, PlaceRange
    <3>4. QED
      BY <1>2, <3>2, <3>3
  <2>2. {i \in U : Place(U, id, i) = 1} = {m}
    BY <1>3, <2>1
  <2>3. n # 0
    BY <1>0, FS_EmptySet
  <2>4. f[1] = Only({m})
    BY <1>5, <2>2, <2>3
  <2>5. Head(f) = f[1]
    BY <1>5
  <2>6. QED
    BY <2>4, <2>5 DEF Only
<1>10. QED
  BY <1>6, <1>7, <1>8, <1>9

(* Ids that differ give every place to somebody, the first one in particular. *)
LEMMA HeadOfLine ==
  ASSUME NEW U, IsFiniteSet(U), NEW id, \A i \in U : id[i] \in Nat,
         \A i, j \in U : id[i] = id[j] => i = j, ById(U, id) # <<>>
  PROVE  Head(ById(U, id)) \in U
<1>0. PICK n \in Nat : n = Cardinality(U)
  BY FS_CardinalityType
<1>1. n # 0
  <2>1. SUFFICES ASSUME n = 0 PROVE ById(U, id) = <<>>
    OBVIOUS
  <2>2. QED
    BY <1>0, <2>1 DEF ById
<1>2. PICK f : f = [j \in U |-> Place(U, id, j)]
  OBVIOUS
<1>3. ASSUME NEW j \in U PROVE f[j] \in 1..n
  <2>1. j \in {h \in U : id[h] <= id[j]} /\ IsFiniteSet({h \in U : id[h] <= id[j]})
    <3>1. id[j] \in Nat
      OBVIOUS
    <3>2. id[j] <= id[j]
      BY <3>1
    <3>3. {h \in U : id[h] <= id[j]} \in SUBSET U
      OBVIOUS
    <3>4. QED
      BY <3>2, <3>3, FS_Subset
  <2>2. Place(U, id, j) # 0
    BY <2>1, FS_EmptySet DEF Place
  <2>3. Place(U, id, j) \in Nat /\ Place(U, id, j) <= n
    BY <1>0, PlaceRange
  <2>4. QED
    BY <1>2, <2>2, <2>3
<1>4. ASSUME NEW i \in U, NEW j \in U, id[i] < id[j] PROVE f[i] # f[j]
  <2>1. PICK S, T : S = {h \in U : id[h] <= id[i]} /\ T = {h \in U : id[h] <= id[j]}
    OBVIOUS
  <2>2. S \subseteq T /\ j \in T /\ j \notin S
    <3>1. \A h \in U : id[h] \in Nat
      OBVIOUS
    <3>2. QED
      BY <1>4, <2>1, <3>1
  <2>3. IsFiniteSet(T)
    BY <2>1, FS_Subset
  <2>4. Cardinality(S) # Cardinality(T)
    BY <2>2, <2>3, FS_Subset
  <2>5. QED
    BY <1>2, <2>1, <2>4 DEF Place
<1>5. \A i, j \in U : f[i] = f[j] => i = j
  <2>1. SUFFICES ASSUME NEW i \in U, NEW j \in U, f[i] = f[j], i # j PROVE FALSE
    OBVIOUS
  <2>2. id[i] # id[j] /\ id[i] \in Nat /\ id[j] \in Nat
    BY <2>1
  <2>3. id[i] < id[j] \/ id[j] < id[i]
    BY <2>2
  <2>4. QED
    BY <1>4, <2>1, <2>3
<1>6. f \in Injection(U, 1..n)
  <2>1. f \in [U -> 1..n]
    BY <1>2, <1>3
  <2>2. QED
    BY <1>5, <2>1 DEF Injection, IsInjective
<1>7. IsFiniteSet(1..n) /\ Cardinality(1..n) = n
  BY <1>1, FS_Interval
<1>8. f \in Surjection(U, 1..n)
  BY <1>0, <1>6, <1>7, FS_Injection
<1>9. PICK j \in U : f[j] = 1
  BY <1>1, <1>8 DEF Surjection
<1>10. Only({i \in U : Place(U, id, i) = 1}) \in U
  <2>1. j \in {i \in U : Place(U, id, i) = 1}
    BY <1>2, <1>9
  <2>2. QED
    BY <2>1 DEF Only
<1>11. Head(ById(U, id)) = Only({i \in U : Place(U, id, i) = 1})
  <2>1. PICK g : g = [k \in 1..n |-> Only({i \in U : Place(U, id, i) = k})]
    OBVIOUS
  <2>2. g[1] = Only({i \in U : Place(U, id, i) = 1})
    BY <1>1, <2>1
  <2>3. Head(g) = g[1]
    BY <2>1
  <2>4. ById(U, id) = g
    BY <1>0, <2>1 DEF ById
  <2>5. QED
    BY <2>2, <2>3, <2>4
<1>12. QED
  BY <1>10, <1>11

LEMMA LineNonEmpty ==
  ASSUME NEW U, IsFiniteSet(U), NEW j \in U, NEW id
  PROVE  ById(U, id) # <<>>
<1>0. PICK n \in Nat : n = Cardinality(U)
  BY FS_CardinalityType
<1>1. n # 0
  BY <1>0, FS_EmptySet
<1>2. Len(ById(U, id)) = n
  BY <1>0 DEF ById
<1>3. QED
  BY <1>1, <1>2

-----------------------------------------------------------------------------
(* Present rows are numbered apart, and a row only runs after a claim. *)
Numbered ==
  \A j \in Jobs : rows[j].status # "absent" =>
    rows[j].id > 0 /\ \A i \in Jobs : rows[i].id = rows[j].id => i = j
Started == \A j \in Jobs : rows[j].status = "running" => rows[j].att > 0

QueueInv == Numbered /\ Started

(* What a step may do to a job of a lane: to its row, and to the fact that  *)
(* somebody executes it.  Put back in the queue, it is where it was.        *)
PutBack(j) == rows[j].status = "running" /\ rows'[j].status = "queued"

Kept(j) ==
  /\ rows'[j].att = rows[j].att /\ (Executed(j)' <=> Executed(j))
  /\ rows'[j].status = rows[j].status \/ PutBack(j)

Begun(j) ==
  /\ rows[j].status \in {"queued", "running"} /\ rows[j].att < Budget(j)
  /\ ~Executed(j) /\ ~LaneBlocked(j)
  /\ rows'[j].status = "running" /\ Executed(j)' /\ rows'[j].att = rows[j].att + 1

Ended(j) ==
  /\ Executed(j) /\ ~Executed(j)' /\ rows'[j].att = rows[j].att
  /\ \/ rows'[j].status = rows[j].status \/ PutBack(j)
     \/ rows[j].status \in Settled /\ rows'[j].status \in Settled

Closed(j) ==
  /\ rows[j].status = "running" /\ rows'[j].status \in Settled
  /\ ~Executed(j)' /\ rows'[j].att = rows[j].att

Parked(j) ==
  /\ rows[j].status = "running" /\ rows'[j].status = "needs_reconciliation"
  /\ ~Executed(j)' /\ rows'[j].att = rows[j].att

Forsaken(j) ==
  /\ rows[j].status = "running" /\ rows'[j].status \in Settled
  /\ Executed(j) /\ Executed(j)' /\ rows[j].att >= Budget(j) /\ rows'[j].att = rows[j].att

Reported(j) ==
  /\ rows[j].status = "failed" /\ rows'[j].status = "needs_reconciliation"
  /\ Executed(j) /\ ~Executed(j)' /\ rows[j].att >= Budget(j) /\ rows'[j].att = rows[j].att

Decided(j) ==
  /\ rows[j].status = "needs_reconciliation" /\ rows'[j].status \in Settled
  /\ (Executed(j)' <=> Executed(j)) /\ rows'[j].att = rows[j].att

JobStep(j) ==
  \/ Kept(j) \/ Begun(j) \/ Ended(j) \/ Closed(j) \/ Parked(j)
  \/ Forsaken(j) \/ Reported(j) \/ Decided(j)

(* One job moves and the others do not, or some running ones are recovered. *)
OneMoves ==
  /\ \A j \in Jobs : rows'[j].id = rows[j].id
  /\ \/ \E m \in Jobs : JobStep(m) /\ \A i \in Jobs \ {m} : Kept(i)
     \/ \A j \in Jobs : Kept(j) \/ (rows[j].status = "running" /\ JobStep(j))

LEMMA AllKept ==
  ASSUME \A j \in Jobs : /\ rows'[j].id = rows[j].id /\ rows'[j].att = rows[j].att
                         /\ rows'[j].status = rows[j].status
                         /\ Executed(j)' <=> Executed(j)
  PROVE  OneMoves
BY DEF OneMoves, Kept

LEMMA SameWorkers ==
  ASSUME \A w \in Workers : run'[w].job = run[w].job, NEW j
  PROVE  Executed(j)' <=> Executed(j)
BY DEF Executed

(* A worker goes idle: nobody executes its job any more. *)
LEMMA GoesIdle ==
  ASSUME IInv, Live, NEW w \in Workers, NEW j \in Jobs, run[w].job = j,
         run' = [run EXCEPT ![w] = Idle]
  PROVE  /\ Executed(j) /\ ~Executed(j)'
         /\ \A i \in Jobs \ {j} : Executed(i)' <=> Executed(i)
<1>1. run'[w].job = NoJob /\ \A v \in Workers \ {w} : run'[v] = run[v]
  BY DEF IInv, TypeOK, Idle
<1>2. NoJob \notin Jobs
  BY ConstantsAssumption
<1>3. \A v \in Workers : run[v].job = j => v = w
  BY <1>2 DEF Live, SingleExecution
<1>4. QED
  BY <1>1, <1>2, <1>3 DEF Executed

LEMMA RecoveredStatus ==
  ASSUME NEW r \in Row, NEW j, r.status = "running", r.lease < 0
  PROVE  Recovered(r, j).status \in {"queued", "failed", "needs_reconciliation"}
<1>1. PICK s \in {"queued", "failed", "needs_reconciliation"} :
        s = IF j \notin RetrySafe THEN "needs_reconciliation"
            ELSE IF r.att < MaxAttempts THEN "queued" ELSE "failed"
  OBVIOUS
<1>2. Recovered(r, j) = [r EXCEPT !.status = s, !.token = 0, !.lease = Past]
  BY <1>1 DEF Recovered
<1>3. [r EXCEPT !.status = s, !.token = 0, !.lease = Past].status = s
  BY DEF Row
<1>4. QED
  BY <1>2, <1>3

LEMMA PollMoves == ASSUME RunLimit < LeaseTime, IInv, Live, Poll PROVE OneMoves
<1>0. \A j \in Jobs : Executed(j)' <=> Executed(j)
  BY SameWorkers DEF Poll
<1>1. ASSUME NEW j \in Jobs
      PROVE  /\ rows'[j].id = rows[j].id
             /\ Kept(j) \/ (rows[j].status = "running" /\ JobStep(j))
  <2>1. CASE Same(j)
    BY <1>0, <2>1 DEF Same, Kept
  <2>2. CASE /\ rows[j].status = "running" /\ rows[j].lease < 0
             /\ rows'[j].id = rows[j].id /\ rows'[j].att = rows[j].att
    <3>1. PICK r \in Row : r = rows[j]
      BY DEF IInv, TypeOK
    <3>2. PICK q \in Row : q = Recovered(r, j)
      BY RecoveredRow
    <3>3. PICK p \in Int : p = ReserveTime
      BY ConstantsAssumption
    <3>4. rows'[j] = q \/ rows'[j] = [q EXCEPT !.pub = p]
      BY <3>1, <3>2, <3>3 DEF Poll
    <3>5. rows'[j].status = q.status
      BY <3>4, ReservedRow
    <3>6. rows'[j].status \in {"queued", "failed", "needs_reconciliation"}
      BY <2>2, <3>1, <3>2, <3>5, RecoveredStatus
    <3>7. ~Executed(j)
      <4>1. SUFFICES ASSUME NEW w \in Workers, run[w].job = j PROVE FALSE
        BY DEF Executed
      <4>2. rows[j].lease > 0
        BY <2>2, <4>1, LiveRow, ConstantsAssumption
      <4>3. rows[j].lease \in Int
        BY <3>1 DEF Row
      <4>4. QED
        BY <2>2, <4>2, <4>3
    <3>8. QED
      BY <1>0, <2>2, <3>6, <3>7 DEF JobStep, Kept, PutBack, Closed, Parked, Settled
  <2>3. QED
    BY <2>1, <2>2, PollEffect
<1>2. QED
  BY <1>1 DEF OneMoves

LEMMA GrantMoves ==
  ASSUME RunLimit < LeaseTime, IInv, Live, NEW w \in Workers, NEW j \in Jobs, ClaimGranted(w, j)
  PROVE  OneMoves
<1>1. /\ rows[j].status \in {"queued", "running"}
      /\ ~Exhausted(j) /\ ~Leased(j) /\ ~Lost(j) /\ ~LaneBlocked(j)
  BY DEF ClaimGranted, Refused
<1>2. rows[j].att \in Nat /\ MaxAttempts \in Nat /\ rows[j].lease \in Int
  BY ConstantsAssumption DEF IInv, TypeOK, Row
<1>3. rows[j].att < Budget(j)
  <2>1. CASE j \in RetrySafe
    BY <1>1, <1>2, <2>1 DEF Exhausted, Budget
  <2>2. CASE j \notin RetrySafe
    <3>1. rows[j].status = "queued"
      BY <1>1, <2>2 DEF Lost
    <3>2. rows[j].att = 0
      BY <2>2, <3>1 DEF IInv, ExecutionBudget
    <3>3. QED
      BY <2>2, <3>2 DEF Budget
  <2>3. QED
    BY <2>1, <2>2
<1>4. ~Executed(j)
  <2>1. SUFFICES ASSUME NEW v \in Workers, run[v].job = j PROVE FALSE
    BY DEF Executed
  <2>2. rows[j].status = "running" /\ rows[j].lease > 0
    BY <1>1, <2>1, LiveRow, ConstantsAssumption
  <2>3. QED
    BY <1>1, <2>2 DEF Leased
<1>5. run[w] = Idle /\ run'[w].job = j /\ \A v \in Workers \ {w} : run'[v] = run[v]
  <2>1. run'[w] = [job |-> j, token |-> rows[j].att + 1, age |-> 0]
    BY GrantEffect
  <2>2. run'[w].job = j
    BY <2>1
  <2>3. QED
    BY <2>2, GrantEffect
<1>6. /\ Executed(j)' /\ \A i \in Jobs \ {j} : Executed(i)' <=> Executed(i)
  BY <1>5, ConstantsAssumption DEF Executed, Idle
<1>7. /\ \A i \in Jobs \ {j} : rows'[i] = rows[i]
      /\ rows'[j].status = "running" /\ rows'[j].id = rows[j].id
      /\ rows'[j].att = rows[j].att + 1
  BY GrantEffect
<1>8. Begun(j) /\ \A i \in Jobs \ {j} : Kept(i)
  BY <1>1, <1>3, <1>4, <1>6, <1>7 DEF Begun, Kept
<1>9. QED
  BY <1>7, <1>8 DEF OneMoves, JobStep

LEMMA FinishMoves ==
  ASSUME RunLimit < LeaseTime, IInv, Live,
         NEW w \in Workers, NEW outcome \in Outcome, Finish(w, outcome)
  PROVE  OneMoves
<1>1. PICK j \in Jobs : j = run[w].job
  BY FinishEffect
<1>2. run[w].job # NoJob
  BY <1>1, ConstantsAssumption
<1>3. /\ Executed(j) /\ ~Executed(j)' /\ \A i \in Jobs \ {j} : Executed(i)' <=> Executed(i)
  BY <1>1, <1>2, FinishEffect, GoesIdle
<1>4. /\ \A i \in Jobs \ {j} : rows'[i] = rows[i]
      /\ rows'[j].att = rows[j].att /\ rows'[j].id = rows[j].id
      /\ rows' = rows \/ rows'[j].status = StatusAfter(j, run[w].token, outcome)
  BY <1>1, FinishEffect
<1>5. \A i \in Jobs \ {j} : Kept(i)
  BY <1>3, <1>4 DEF Kept
<1>6. JobStep(j)
  <2>1. CASE rows' = rows
    BY <1>3, <2>1 DEF JobStep, Ended
  <2>2. CASE rows[j].status = "failed"
    <3>1. /\ rows[j].att >= Budget(j)
          /\ rows'[j].status \in Settled \/ rows'[j].status = "needs_reconciliation"
      BY <1>1, <2>2, FinishLeft DEF Budget
    <3>2. CASE rows'[j].status \in Settled
      BY <1>3, <1>4, <2>2, <3>2 DEF JobStep, Ended, Settled
    <3>3. CASE rows'[j].status = "needs_reconciliation"
      BY <1>3, <1>4, <2>2, <3>1, <3>3 DEF JobStep, Reported
    <3>4. QED
      BY <3>1, <3>2, <3>3
  <2>3. CASE rows' # rows /\ rows[j].status = "running"
    <3>1. rows'[j].status \in {"completed", "failed", "queued", "needs_reconciliation"}
      BY <1>4, <2>3 DEF StatusAfter, Outcome
    <3>2. QED
      BY <1>3, <1>4, <2>3, <3>1 DEF JobStep, Ended, PutBack, Closed, Parked, Settled
  <2>4. QED
    BY <1>1, <1>2, <2>1, <2>2, <2>3, LiveRow
<1>7. QED
  BY <1>4, <1>5, <1>6 DEF OneMoves

(* A status changes under workers that go on. *)
LEMMA CloseMoves ==
  ASSUME IInv, NEW j \in Jobs, NEW s \in Settled \cup {"needs_reconciliation"},
         rows' = [rows EXCEPT ![j].status = s], run' = run,
         \/ /\ rows[j].status = "running" /\ ~Executed(j)
         \/ /\ rows[j].status = "running" /\ rows[j].att >= Budget(j) /\ s \in Settled
         \/ rows[j].status = "needs_reconciliation" /\ s \in Settled
  PROVE  OneMoves
<1>1. s \in Status
  BY DEF Settled, Status
<1>2. /\ \A i \in Jobs \ {j} : rows'[i] = rows[i]
      /\ rows'[j].status = s /\ rows'[j].att = rows[j].att /\ rows'[j].id = rows[j].id
  BY <1>1, CloseEffect
<1>3. \A i \in Jobs : Executed(i)' <=> Executed(i)
  BY SameWorkers
<1>4. \A i \in Jobs \ {j} : Kept(i)
  BY <1>2, <1>3 DEF Kept
<1>5. JobStep(j)
  BY <1>2, <1>3 DEF JobStep, Closed, Parked, Forsaken, Decided
<1>6. QED
  BY <1>2, <1>4, <1>5 DEF OneMoves

LEMMA ReceiveMoves ==
  ASSUME RunLimit < LeaseTime, IInv, Live, NEW w \in Workers, NEW j \in Jobs, Receive(w, j)
  PROVE  OneMoves
<1>1. CASE ClaimNothing(w, j)
  BY <1>1, AllKept, SameWorkers DEF ClaimNothing
<1>2. CASE ClaimExhausted(w, j)
  <2>1. /\ rows[j].status \in {"queued", "running"} /\ j \in RetrySafe
        /\ rows[j].att >= MaxAttempts /\ rows' = [rows EXCEPT ![j].status = "failed"] /\ run' = run
    BY <1>2 DEF ClaimExhausted, Refused, Exhausted
  <2>2. rows[j].status # "queued"
    <3>1. rows[j].att \in Nat /\ MaxAttempts \in Nat
      BY ConstantsAssumption DEF IInv, TypeOK, Row
    <3>2. rows[j].status = "queued" => rows[j].att < MaxAttempts
      BY <2>1 DEF IInv, ExecutionBudget
    <3>3. QED
      BY <2>1, <3>1, <3>2
  <2>3. rows[j].att >= Budget(j)
    BY <2>1 DEF Budget
  <2>4. QED
    BY <2>1, <2>2, <2>3, CloseMoves DEF Settled
<1>3. CASE ClaimLost(w, j)
  <2>1. /\ rows[j].status = "running" /\ ~(rows[j].lease > 0) /\ run' = run
        /\ rows' = [rows EXCEPT ![j].status = "needs_reconciliation"]
    BY <1>3 DEF ClaimLost, Lost, Leased
  <2>2. ~Executed(j)
    BY <2>1, LiveRow, ConstantsAssumption DEF Executed
  <2>3. QED
    BY <2>1, <2>2, CloseMoves
<1>4. CASE ClaimGranted(w, j)
  BY <1>4, GrantMoves
<1>5. QED
  BY <1>1, <1>2, <1>3, <1>4 DEF Receive

(* Every step but an enqueue moves one job, or recovers running ones. *)
LEMMA StepMoves ==
  ASSUME RunLimit < LeaseTime, IInv, Live, [Next]_vars
  PROVE  OneMoves \/ \E i \in Jobs : Enqueue(i)
<1>1. CASE rows' = rows /\ run' = run
  BY <1>1, AllKept, SameWorkers
<1>2. CASE Poll
  BY <1>2, PollMoves
<1>3. CASE Tick
  <2>1. \A w \in Workers : run'[w].job = run[w].job
    BY <1>3, TickWorker DEF Tick, IInv
  <2>2. QED
    BY <1>3, <2>1, TickEffect, AllKept, SameWorkers
<1>4. ASSUME NEW w \in Workers, Crash(w) PROVE OneMoves
  <2>1. run[w].job # NoJob /\ run' = [run EXCEPT ![w] = Idle] /\ rows' = rows
    BY <1>4 DEF Crash
  <2>2. run[w].job \in Jobs
    BY <2>1 DEF IInv, TypeOK, Execution
  <2>3. PICK j \in Jobs : j = run[w].job
    BY <2>2
  <2>4. Ended(j) /\ \A i \in Jobs \ {j} : Kept(i)
    BY <2>1, <2>3, GoesIdle DEF Ended, Kept
  <2>5. QED
    BY <2>1, <2>4 DEF OneMoves, JobStep
<1>5. ASSUME NEW i \in Jobs, NEW decision \in Decision, Resolve(i, decision) PROVE OneMoves
  BY <1>5, CloseMoves DEF Resolve, Decision, Settled
<1>6. QED
  BY <1>1, <1>2, <1>3, <1>4, <1>5, ReceiveMoves, FinishMoves
     DEF Next, vars, Publish, LoseMessage, PassFails, Redeliver

LEMMA StepPresent ==
  ASSUME IInv, NEW j \in Jobs, JobStep(j)
  PROVE  /\ rows'[j].status = "absent" <=> rows[j].status = "absent"
         /\ rows'[j].status = "running" =>
              rows[j].status = "running" \/ rows'[j].att > 0
         /\ rows'[j].att = rows[j].att \/ rows'[j].att > 0
<1>1. rows[j].att \in Nat
  BY DEF IInv, TypeOK, Row
<1>2. QED
  BY <1>1 DEF JobStep, Kept, Begun, Ended, Closed, Parked, Forsaken, Reported, Decided,
              PutBack, Settled

LEMMA QueueInvNext ==
  ASSUME RunLimit < LeaseTime, IInv, Live, LaneInv, QueueInv, [Next]_vars
  PROVE  QueueInv'
<1>1. CASE OneMoves
  <2>1. \A j \in Jobs : rows'[j].id = rows[j].id /\ JobStep(j)
    BY <1>1 DEF OneMoves, JobStep
  <2>2. QED
    BY <2>1, StepPresent DEF QueueInv, Numbered, Started
<1>2. ASSUME NEW j \in Jobs, Enqueue(j) PROVE QueueInv'
  <2>1. \A i \in Jobs : rows[i].id \in Nat /\ rows[i].id <= lastId /\ lastId \in Nat
    BY DEF IInv, TypeOK, Row, LaneInv, Ids
  <2>2. /\ \A i \in Jobs \ {j} : rows'[i] = rows[i]
        /\ rows'[j].status = "queued" /\ rows'[j].id = lastId + 1
    BY <1>2, EnqueueEffect
  <2>3. Started'
    BY <2>2 DEF QueueInv, Started
  <2>4. Numbered'
    <3>1. rows'[j].id > 0 /\ \A i \in Jobs \ {j} : rows'[i].id # rows'[j].id
      BY <2>1, <2>2
    <3>2. QED
      BY <2>2, <3>1 DEF QueueInv, Numbered
  <2>5. QED
    BY <2>3, <2>4 DEF QueueInv
<1>3. QED
  BY <1>1, <1>2, StepMoves

-----------------------------------------------------------------------------
(* The job a lane is working on is the first of its line. *)
First(l, m) == m \in Waiting(l) /\ \A i \in Waiting(l) \ {m} : rows[m].id < rows[i].id

LEMMA RunningIsFirst ==
  ASSUME IInv, LaneInv, QueueInv, NEW l \in UsedLanes, NEW m \in InLane(l),
         rows[m].status = "running"
  PROVE  First(l, m) /\ \A i \in Waiting(l) \ {m} : rows[i].status = "queued"
<1>1. m \in Waiting(l)
  BY DEF Waiting
<1>2. ASSUME NEW i \in Waiting(l) \ {m} PROVE rows[m].id < rows[i].id /\ rows[i].status = "queued"
  <2>1. /\ m \in Jobs /\ i \in Jobs /\ LaneOf[m] # NoLane /\ LaneOf[i] = LaneOf[m]
        /\ rows[i].status \in {"queued", "running"}
    BY DEF UsedLanes, InLane, Waiting
  <2>2. PICK a \in Nat, b \in Nat : a = rows[m].id /\ b = rows[i].id
    BY <2>1 DEF IInv, TypeOK, Row
  <2>3. a > 0 /\ b > 0 /\ a # b
    BY <2>1, <2>2 DEF QueueInv, Numbered
  <2>4. rows[m].att > 0 /\ (rows[i].status = "running" => rows[i].att > 0)
    BY <2>1 DEF QueueInv, Started
  <2>5. ~LeftLine(m) /\ ~LeftLine(i)
    BY <2>1 DEF LeftLine, Settled
  <2>6. ~(b < a)
    BY <2>1, <2>2, <2>3, <2>4, <2>5 DEF LaneInv, LaneInOrder
  <2>7. a < b
    BY <2>2, <2>3, <2>6
  <2>8. rows[i].status # "running"
    BY <2>1, <2>2, <2>3, <2>4, <2>5, <2>7 DEF LaneInv, LaneInOrder
  <2>9. QED
    BY <2>1, <2>2, <2>7, <2>8
<1>3. QED
  BY <1>1, <1>2 DEF First

LEMMA UnblockedIsFirst ==
  ASSUME IInv, QueueInv, NEW l \in UsedLanes, NEW m \in InLane(l),
         rows[m].status \in {"queued", "running"}, ~LaneBlocked(m)
  PROVE  First(l, m) /\ HeldOf(l) = {}
<1>1. m \in Waiting(l) /\ m \in Jobs /\ LaneOf[m] = l /\ l # NoLane
  BY DEF Waiting, InLane, UsedLanes
<1>2. HeldOf(l) = {}
  BY <1>1 DEF HeldOf, InLane, LaneBlocked
<1>3. ASSUME NEW i \in Waiting(l) \ {m} PROVE rows[m].id < rows[i].id
  <2>1. /\ i \in Jobs /\ LaneOf[i] = LaneOf[m] /\ i # m
        /\ rows[i].status \in {"queued", "running"}
    BY <1>1 DEF Waiting, InLane
  <2>2. ~(rows[i].id < rows[m].id)
    BY <1>1, <2>1 DEF LaneBlocked
  <2>3. rows[i].id \in Nat /\ rows[m].id \in Nat /\ rows[i].id # rows[m].id
    BY <1>1, <2>1 DEF IInv, TypeOK, Row, QueueInv, Numbered
  <2>4. QED
    BY <2>2, <2>3
<1>4. QED
  BY <1>1, <1>2, <1>3 DEF First

LEMMA FiniteLane == ASSUME NEW l PROVE IsFiniteSet(Waiting(l))
BY ConstantsAssumption, FS_Subset DEF Waiting, InLane

LEMMA LaneIds ==
  ASSUME IInv, NEW l
  PROVE  \A i \in Waiting(l) : i \in Jobs /\ [j \in Jobs |-> rows[j].id][i] = rows[i].id
                               /\ rows[i].id \in Nat
BY DEF IInv, TypeOK, Row, Waiting, InLane

(* The line, one step later: with the same jobs, or without its first. *)
LEMMA LineKept ==
  ASSUME NEW l, \A j \in Jobs : rows'[j].id = rows[j].id, Waiting(l)' = Waiting(l)
  PROVE  LineOf(l)' = LineOf(l)
<1>1. [j \in Jobs |-> rows'[j].id] = [j \in Jobs |-> rows[j].id]
  OBVIOUS
<1>2. QED
  BY <1>1 DEF LineOf

LEMMA LineFirst ==
  ASSUME IInv, NEW l \in UsedLanes, NEW m, First(l, m)
  PROVE  LineOf(l) # <<>> /\ Head(LineOf(l)) = m
<1>1. PICK id : id = [j \in Jobs |-> rows[j].id]
  OBVIOUS
<1>2. PICK U : U = Waiting(l)
  OBVIOUS
<1>3. m \in U /\ IsFiniteSet(U)
  BY <1>2, FiniteLane DEF First
<1>4. /\ \A i \in U : id[i] \in Nat
      /\ \A i \in U \ {m} : id[m] < id[i]
  BY <1>1, <1>2, <1>3, LaneIds DEF First
<1>5. ById(U, id) # <<>> /\ Head(ById(U, id)) = m
  BY <1>3, <1>4, LineTail, LineNonEmpty
<1>6. QED
  BY <1>1, <1>2, <1>5 DEF LineOf

LEMMA LineShortens ==
  ASSUME IInv, NEW l \in UsedLanes, NEW m, First(l, m),
         \A j \in Jobs : rows'[j].id = rows[j].id, Waiting(l)' = Waiting(l) \ {m}
  PROVE  LineOf(l)' = Tail(LineOf(l))
<1>1. PICK id : id = [j \in Jobs |-> rows[j].id]
  OBVIOUS
<1>2. [j \in Jobs |-> rows'[j].id] = id
  BY <1>1
<1>3. PICK U : U = Waiting(l)
  OBVIOUS
<1>4. m \in U /\ IsFiniteSet(U)
  BY <1>3, FiniteLane DEF First
<1>5. /\ \A i \in U : id[i] \in Nat
      /\ \A i \in U \ {m} : id[m] < id[i]
  BY <1>1, <1>3, <1>4, LaneIds DEF First
<1>6. ById(U \ {m}, id) = Tail(ById(U, id))
  BY <1>4, <1>5, LineTail
<1>7. LineOf(l)' = ById(U \ {m}, id)
  BY <1>2, <1>3 DEF LineOf
<1>8. LineOf(l) = ById(U, id)
  BY <1>1, <1>3 DEF LineOf
<1>9. QED
  BY <1>6, <1>7, <1>8

(* Whoever has left the line is not at its head. *)
LEMMA LineHead ==
  ASSUME IInv, QueueInv, NEW l \in UsedLanes, LineOf(l) # <<>>
  PROVE  Head(LineOf(l)) \in Waiting(l)
<1>1. PICK id : id = [j \in Jobs |-> rows[j].id]
  OBVIOUS
<1>2. PICK U : U = Waiting(l)
  OBVIOUS
<1>3. IsFiniteSet(U) /\ LineOf(l) = ById(U, id)
  BY <1>1, <1>2, FiniteLane DEF LineOf
<1>4. /\ \A i \in U : id[i] \in Nat
      /\ \A i, j \in U : id[i] = id[j] => i = j
  BY <1>1, <1>2, LaneIds DEF QueueInv, Numbered, Waiting
<1>5. QED
  BY <1>2, <1>3, <1>4, HeadOfLine

-----------------------------------------------------------------------------
(* Each step of a job is a step of its lane. *)

\* What the lanes of the instance read.
LEMMA LaneView ==
  ASSUME NEW l \in UsedLanes
  PROVE  /\ [k \in UsedLanes |-> LineOf(k)][l] = LineOf(l)
         /\ [k \in UsedLanes |-> HeldOf(k)][l] = HeldOf(l)
         /\ [k \in UsedLanes |-> DoingOf(k)][l] = DoingOf(l)
         /\ [k \in UsedLanes |-> StartsOf(k)][l] = StartsOf(l)
         /\ [k \in UsedLanes |-> InLane(k)][l] = InLane(l)
         /\ [k \in UsedLanes |-> LineOf(k)]'[l] = LineOf(l)'
         /\ [k \in UsedLanes |-> HeldOf(k)]'[l] = HeldOf(l)'
         /\ [k \in UsedLanes |-> DoingOf(k)]'[l] = DoingOf(l)'
         /\ [k \in UsedLanes |-> StartsOf(k)]'[l] = StartsOf(l)'
         /\ \A j \in InLane(l) : [i \in Jobs |-> Budget(i)][j] = Budget(j)
BY DEF InLane

(* The others of the lane stay where they are. *)
OthersKept(l, m) == \A i \in InLane(l) \ {m} : Kept(i)

LEMMA SameStarts ==
  ASSUME NEW l, \A j \in InLane(l) : rows'[j].att = rows[j].att
  PROVE  StartsOf(l)' = StartsOf(l)
BY DEF StartsOf, InLane

LEMMA LaneRests ==
  ASSUME NEW l \in UsedLanes, \A j \in Jobs : rows'[j].id = rows[j].id,
         \A j \in InLane(l) : Kept(j)
  PROVE  Lane!Rest(l)
<1>1. InLane(l)' = InLane(l)
  BY DEF InLane
<1>2. Waiting(l)' = Waiting(l) /\ HeldOf(l)' = HeldOf(l) /\ DoingOf(l)' = DoingOf(l)
  BY <1>1 DEF Waiting, HeldOf, DoingOf, Kept, PutBack
<1>3. StartsOf(l)' = StartsOf(l)
  BY SameStarts DEF Kept
<1>4. QED
  BY <1>2, <1>3, LineKept, LaneView DEF Lane!Rest, Lane!Unstarted

LEMMA LaneBegins ==
  ASSUME IInv, QueueInv, NEW l \in UsedLanes, NEW m \in InLane(l),
         \A j \in Jobs : rows'[j].id = rows[j].id, OthersKept(l, m), Begun(m)
  PROVE  Lane!Begin(l)
<1>0. InLane(l)' = InLane(l)
  BY DEF InLane
<1>1. First(l, m) /\ HeldOf(l) = {}
  BY UnblockedIsFirst DEF Begun
<1>2. Waiting(l)' = Waiting(l) /\ HeldOf(l)' = HeldOf(l)
  BY <1>0 DEF Waiting, HeldOf, OthersKept, Kept, PutBack, Begun
<1>3. LineOf(l)' = LineOf(l) /\ LineOf(l) # <<>> /\ Head(LineOf(l)) = m
  BY <1>1, <1>2, LineKept, LineFirst
<1>4. m \notin DoingOf(l) /\ DoingOf(l)' = DoingOf(l) \cup {m}
  BY <1>0 DEF DoingOf, OthersKept, Kept, Begun
<1>5. StartsOf(l)[m] < Budget(m) /\ StartsOf(l)' = [StartsOf(l) EXCEPT ![m] = @ + 1]
  BY <1>0 DEF StartsOf, OthersKept, Kept, Begun
<1>6. QED
  BY <1>1, <1>2, <1>3, <1>4, <1>5, LaneView DEF Lane!Begin, Lane!First

LEMMA LaneStops ==
  ASSUME NEW l \in UsedLanes, NEW m \in InLane(l),
         \A j \in Jobs : rows'[j].id = rows[j].id, OthersKept(l, m), Ended(m)
  PROVE  Lane!Stop(l)
<1>1. InLane(l)' = InLane(l)
  BY DEF InLane
<1>2. Waiting(l)' = Waiting(l) /\ HeldOf(l)' = HeldOf(l)
  BY <1>1 DEF Waiting, HeldOf, OthersKept, Kept, PutBack, Ended, Settled
<1>3. m \in DoingOf(l) /\ DoingOf(l)' = DoingOf(l) \ {m}
  BY <1>1 DEF DoingOf, OthersKept, Kept, Ended
<1>4. StartsOf(l)' = StartsOf(l)
  BY SameStarts DEF OthersKept, Kept, Ended
<1>5. QED
  BY <1>2, <1>3, <1>4, LineKept, LaneView DEF Lane!Stop, Lane!Unstarted

(* The first of the line leaves it, closed or with an unknown outcome. *)
LEMMA LaneHeadGoes ==
  ASSUME IInv, LaneInv, QueueInv, NEW l \in UsedLanes, NEW m \in InLane(l),
         \A j \in Jobs : rows'[j].id = rows[j].id, OthersKept(l, m),
         Closed(m) \/ Parked(m) \/ Forsaken(m)
  PROVE  Lane!Settle(l) \/ Lane!Hold(l) \/ Lane!GiveUp(l)
<1>0. InLane(l)' = InLane(l)
  BY DEF InLane
<1>1. rows[m].status = "running" /\ rows'[m].att = rows[m].att
  BY DEF Closed, Parked, Forsaken
<1>2. First(l, m)
  BY <1>1, RunningIsFirst
<1>3. LineOf(l) # <<>> /\ Head(LineOf(l)) = m
  BY <1>2, LineFirst
<1>4. StartsOf(l)' = StartsOf(l)
  BY <1>1, SameStarts DEF OthersKept, Kept
<1>5. StartsOf(l)[m] = rows[m].att /\ rows[m].att > 0
  BY <1>1 DEF StartsOf, QueueInv, Started, InLane
<1>6. Waiting(l)' = Waiting(l) \ {m}
  BY <1>0, <1>1 DEF Waiting, OthersKept, Kept, PutBack, Closed, Parked, Forsaken, Settled
<1>7. LineOf(l)' = Tail(LineOf(l))
  BY <1>2, <1>6, LineShortens
<1>8. Lane!HeadGoes(l)
  BY <1>3, <1>4, <1>5, <1>7, LaneView DEF Lane!HeadGoes, Lane!First, Lane!Unstarted
<1>9. CASE Closed(m)
  <2>1. HeldOf(l)' = HeldOf(l) /\ DoingOf(l)' = DoingOf(l) \ {m}
    BY <1>0, <1>9 DEF HeldOf, DoingOf, OthersKept, Kept, PutBack, Closed, Settled
  <2>2. QED
    BY <1>3, <1>8, <2>1, LaneView DEF Lane!Settle, Lane!First
<1>10. CASE Parked(m)
  <2>1. HeldOf(l)' = HeldOf(l) \cup {m} /\ DoingOf(l)' = DoingOf(l) \ {m}
    BY <1>0, <1>10 DEF HeldOf, DoingOf, OthersKept, Kept, PutBack, Parked
  <2>2. QED
    BY <1>3, <1>8, <2>1, LaneView DEF Lane!Hold, Lane!First
<1>11. CASE Forsaken(m)
  <2>1. HeldOf(l)' = HeldOf(l) /\ DoingOf(l)' = DoingOf(l) /\ m \in DoingOf(l)
    BY <1>0, <1>11 DEF HeldOf, DoingOf, OthersKept, Kept, PutBack, Forsaken, Settled
  <2>2. StartsOf(l)[m] >= Budget(m)
    BY <1>5, <1>11 DEF Forsaken
  <2>3. QED
    BY <1>3, <1>8, <2>1, <2>2, LaneView DEF Lane!GiveUp, Lane!First
<1>12. QED
  BY <1>9, <1>10, <1>11

LEMMA LaneHoldsLate ==
  ASSUME IInv, QueueInv, NEW l \in UsedLanes, NEW m \in InLane(l),
         \A j \in Jobs : rows'[j].id = rows[j].id, OthersKept(l, m), Reported(m)
  PROVE  Lane!HoldLate(l)
<1>0. InLane(l)' = InLane(l)
  BY DEF InLane
<1>1. Waiting(l)' = Waiting(l) /\ HeldOf(l)' = HeldOf(l) \cup {m}
  BY <1>0 DEF Waiting, HeldOf, OthersKept, Kept, PutBack, Reported
<1>2. m \in DoingOf(l) /\ DoingOf(l)' = DoingOf(l) \ {m}
  BY <1>0 DEF DoingOf, OthersKept, Kept, Reported
<1>3. LineOf(l) = <<>> \/ m # Head(LineOf(l))
  BY LineHead DEF Waiting, Reported
<1>4. StartsOf(l)' = StartsOf(l)
  BY SameStarts DEF OthersKept, Kept, Reported
<1>5. StartsOf(l)[m] >= Budget(m)
  BY DEF StartsOf, Reported
<1>6. QED
  BY <1>1, <1>2, <1>3, <1>4, <1>5, LineKept, LaneView
     DEF Lane!HoldLate, Lane!First, Lane!Unstarted

LEMMA LaneDecides ==
  ASSUME NEW l \in UsedLanes, NEW m \in InLane(l),
         \A j \in Jobs : rows'[j].id = rows[j].id, OthersKept(l, m), Decided(m)
  PROVE  Lane!Decide(l)
<1>0. InLane(l)' = InLane(l)
  BY DEF InLane
<1>1. Waiting(l)' = Waiting(l) /\ m \in HeldOf(l) /\ HeldOf(l)' = HeldOf(l) \ {m}
  BY <1>0 DEF Waiting, HeldOf, OthersKept, Kept, PutBack, Decided, Settled
<1>2. DoingOf(l)' = DoingOf(l)
  BY <1>0 DEF DoingOf, OthersKept, Kept, Decided
<1>3. StartsOf(l)' = StartsOf(l)
  BY SameStarts DEF OthersKept, Kept, Decided
<1>4. QED
  BY <1>1, <1>2, <1>3, LineKept, LaneView DEF Lane!Decide, Lane!Unstarted

LEMMA LaneSteps ==
  ASSUME IInv, LaneInv, QueueInv, NEW l \in UsedLanes, NEW m \in InLane(l),
         \A j \in Jobs : rows'[j].id = rows[j].id, OthersKept(l, m), JobStep(m)
  PROVE  \/ Lane!Begin(l) \/ Lane!Stop(l) \/ Lane!Settle(l) \/ Lane!Hold(l)
         \/ Lane!GiveUp(l) \/ Lane!HoldLate(l) \/ Lane!Decide(l) \/ Lane!Rest(l)
<1>1. CASE Kept(m)
  BY <1>1, LaneRests DEF OthersKept
<1>2. CASE Begun(m)
  BY <1>2, LaneBegins
<1>3. CASE Ended(m)
  BY <1>3, LaneStops
<1>4. CASE Closed(m) \/ Parked(m) \/ Forsaken(m)
  BY <1>4, LaneHeadGoes
<1>5. CASE Reported(m)
  BY <1>5, LaneHoldsLate
<1>6. CASE Decided(m)
  BY <1>6, LaneDecides
<1>7. QED
  BY <1>1, <1>2, <1>3, <1>4, <1>5, <1>6 DEF JobStep

(* An enqueued job joins the end of its lane. *)
LEMMA EnqueuedJoins ==
  ASSUME IInv, LaneInv, NEW j \in Jobs, Enqueue(j), NEW l \in UsedLanes
  PROVE  /\ HeldOf(l)' = HeldOf(l) /\ DoingOf(l)' = DoingOf(l) /\ StartsOf(l)' = StartsOf(l)
         /\ LineOf(l)' = IF LaneOf[j] = l THEN Append(LineOf(l), j) ELSE LineOf(l)
<1>1. /\ rows[j].status = "absent" /\ \A i \in Jobs \ {j} : rows'[i] = rows[i]
      /\ rows'[j].status = "queued" /\ rows'[j].id = lastId + 1 /\ rows'[j].att = 0 /\ run' = run
  BY EnqueueEffect
<1>2. \A i \in Jobs : rows[i].id \in Nat /\ rows[i].id <= lastId /\ lastId \in Nat
  BY DEF IInv, TypeOK, Row, LaneInv, Ids
<1>3. HeldOf(l)' = HeldOf(l) /\ DoingOf(l)' = DoingOf(l) /\ StartsOf(l)' = StartsOf(l)
  <2>1. rows[j].att = 0
    BY <1>1 DEF IInv, Tokens
  <2>2. \A i \in Jobs : /\ rows'[i].status = "needs_reconciliation"
                             <=> rows[i].status = "needs_reconciliation"
                        /\ rows'[i].att = rows[i].att
    BY <1>1, <2>1
  <2>3. HeldOf(l)' = HeldOf(l)
    BY <2>2 DEF HeldOf, InLane
  <2>4. DoingOf(l)' = DoingOf(l)
    BY <1>1 DEF DoingOf, Executed, InLane
  <2>5. StartsOf(l)' = StartsOf(l)
    BY <2>2, SameStarts DEF InLane
  <2>6. QED
    BY <2>3, <2>4, <2>5
<1>4. PICK id, key : /\ id = [i \in Jobs |-> rows[i].id]
                     /\ key = [i \in Jobs |-> rows'[i].id]
  OBVIOUS
<1>5. PICK U : U = Waiting(l)
  OBVIOUS
<1>6. U \subseteq Jobs \ {j} /\ IsFiniteSet(U)
  BY <1>1, <1>5, FiniteLane DEF Waiting, InLane
<1>7. \A i \in U : id[i] = key[i] /\ id[i] \in Nat /\ key[i] < key[j]
  BY <1>1, <1>2, <1>4, <1>6
<1>8. LineOf(l) = ById(U, id)
  BY <1>4, <1>5 DEF LineOf
<1>9. CASE LaneOf[j] = l
  <2>1. Waiting(l)' = U \cup {j}
    BY <1>1, <1>5, <1>9 DEF Waiting, InLane
  <2>2. key[j] \in Nat
    BY <1>1, <1>2, <1>4
  <2>3. ById(U \cup {j}, key) = Append(ById(U, id), j)
    BY <1>6, <1>7, <2>2, LineAppend
  <2>4. LineOf(l)' = ById(U \cup {j}, key)
    BY <1>4, <2>1 DEF LineOf
  <2>5. QED
    BY <1>3, <1>8, <1>9, <2>3, <2>4
<1>10. CASE LaneOf[j] # l
  <2>1. Waiting(l)' = U
    BY <1>1, <1>5, <1>10 DEF Waiting, InLane
  <2>2. ById(U, key) = ById(U, id)
    BY <1>7, SameLine
  <2>3. LineOf(l)' = ById(U, key)
    BY <1>4, <2>1 DEF LineOf
  <2>4. QED
    BY <1>3, <1>8, <1>10, <2>2, <2>3
<1>11. QED
  BY <1>9, <1>10

-----------------------------------------------------------------------------
LEMMA LanesMove ==
  ASSUME RunLimit < LeaseTime, IInv, Live, LaneInv, QueueInv, [Next]_vars
  PROVE  Lane!LaneNext
<1>1. CASE OneMoves
  <2>1. \A j \in Jobs : rows'[j].id = rows[j].id /\ JobStep(j)
    BY <1>1 DEF OneMoves, JobStep
  <2>2. {j \in Jobs : rows[j].status # "absent"} \subseteq {j \in Jobs : rows'[j].status # "absent"}
    BY <2>1, StepPresent
  <2>3. ASSUME NEW l \in UsedLanes
        PROVE  \/ \A j \in InLane(l) : Kept(j)
               \/ \E m \in InLane(l) : JobStep(m) /\ OthersKept(l, m)
    <3>1. CASE \E m \in Jobs : JobStep(m) /\ \A i \in Jobs \ {m} : Kept(i)
      BY <3>1 DEF OthersKept, InLane
    <3>2. CASE \A j \in Jobs : Kept(j) \/ (rows[j].status = "running" /\ JobStep(j))
      <4>1. SUFFICES ASSUME NEW m \in InLane(l), ~Kept(m)
                     PROVE  JobStep(m) /\ OthersKept(l, m)
        OBVIOUS
      <4>2. rows[m].status = "running" /\ JobStep(m)
        BY <3>2, <4>1 DEF InLane
      <4>3. ASSUME NEW i \in InLane(l) \ {m} PROVE rows[i].status # "running"
        BY <4>2, RunningIsFirst DEF Waiting
      <4>4. QED
        BY <3>2, <4>2, <4>3 DEF OthersKept, InLane
    <3>3. QED
      BY <1>1, <3>1, <3>2 DEF OneMoves
  <2>4. QED
    BY <2>1, <2>2, <2>3, LaneRests, LaneSteps DEF Lane!LaneNext
<1>2. ASSUME NEW j \in Jobs, Enqueue(j) PROVE Lane!LaneNext
  <2>1. /\ rows[j].status = "absent" /\ \A i \in Jobs \ {j} : rows'[i] = rows[i]
        /\ rows'[j].status = "queued"
    BY <1>2, EnqueueEffect
  <2>2. {i \in Jobs : rows[i].status # "absent"} \subseteq {i \in Jobs : rows'[i].status # "absent"}
    BY <2>1
  <2>3. ASSUME NEW l \in UsedLanes PROVE Lane!Join(l) \/ Lane!Rest(l)
    <3>1. CASE LaneOf[j] = l
      <4>1. j \in InLane(l)
        BY <3>1 DEF InLane
      <4>2. QED
        BY <1>2, <2>1, <3>1, <4>1, EnqueuedJoins, LaneView DEF Lane!Join, Lane!Unstarted
    <3>2. CASE LaneOf[j] # l
      BY <1>2, <3>2, EnqueuedJoins, LaneView DEF Lane!Rest, Lane!Unstarted
    <3>3. QED
      BY <3>1, <3>2
  <2>4. QED
    BY <2>2, <2>3 DEF Lane!LaneNext
<1>3. QED
  BY <1>1, <1>2, StepMoves

LEMMA LanesStart == Init => Lane!LaneInit
<1> SUFFICES ASSUME Init PROVE Lane!LaneInit
  OBVIOUS
<1>1. \A j \in Jobs : rows[j].status = "absent" /\ rows[j].att = 0
  BY DEF Init, NoRow
<1>2. ASSUME NEW l \in UsedLanes
      PROVE  /\ LineOf(l) = <<>> /\ HeldOf(l) = {} /\ DoingOf(l) = {}
             /\ StartsOf(l) = [j \in [k \in UsedLanes |-> InLane(k)][l] |-> 0]
  <2>1. Waiting(l) = {}
    BY <1>1 DEF Waiting, InLane
  <2>2. LineOf(l) = <<>>
    BY <2>1, FS_EmptySet DEF LineOf, ById
  <2>3. HeldOf(l) = {}
    BY <1>1 DEF HeldOf, InLane
  <2>4. DoingOf(l) = {}
    BY ConstantsAssumption DEF DoingOf, Executed, Init, Idle, InLane
  <2>5. StartsOf(l) = [j \in InLane(l) |-> 0]
    BY <1>1 DEF StartsOf, InLane
  <2>6. QED
    BY <2>2, <2>3, <2>4, <2>5
<1>3. QED
  BY <1>1, <1>2 DEF Lane!LaneInit

(* The ledger implements a FIFO queue per lane, executions included: only the
   first of the line is started, when nothing is held, and no more often than
   its kind allows; a job is executed beside it only if it was given up under
   its last attempt, and an outcome nobody knows holds the lane until it is
   settled.  This is so for every mix of jobs in a lane, the retry-safe agent
   jobs of the discovery lane included. *)
THEOREM LanesImplementQueues ==
  ASSUME RunLimit < LeaseTime PROVE Spec => LanesAreQueues
<1>1. Init => QueueInv
  BY DEF Init, QueueInv, Numbered, Started, NoRow
<1>2. IInv /\ Live /\ [Next]_vars => Live'
  BY LiveNext
<1>3. IInv /\ Live /\ LaneInv /\ [Next]_vars => LaneInv'
  BY LaneNext
<1>4. IInv /\ Live /\ LaneInv /\ QueueInv /\ [Next]_vars => QueueInv'
  BY QueueInvNext
<1>5. IInv /\ Live /\ LaneInv /\ QueueInv /\ [Next]_vars => [Lane!LaneNext]_(Lane!laneVars)
  BY LanesMove
<1>6. QED
  BY <1>1, <1>2, <1>3, <1>4, <1>5, LanesStart, LaneInit, LiveInit, InitIInv, NextIInv, PTL
     DEF Spec, LanesAreQueues, Lane!LaneSpec
=============================================================================
