--------------------------- MODULE EmbeddingOutbox ---------------------------
(***************************************************************************)
(* The embedding outbox of the memory store.  A write of a memory queues,  *)
(* in its own transaction, an embedding job per indexed generation of      *)
(* vectors; workers claim batches of jobs under a lease, call the provider *)
(* outside any transaction, and publish each vector in one transaction     *)
(* that reads the memory and the job again.  An administrator backfills a  *)
(* generation and activates it.                                            *)
(*                                                                         *)
(* A content stands for the content hash of a text.  last_event_sequence   *)
(* never changes while a memory's row lives, so the comparison of it that  *)
(* _matches also makes decides nothing and is left out.                    *)
(* A lease token is fresh for each claim and a job id for each insert.  A  *)
(* worker forgets its claims when its batch ends, so "same id and token"   *)
(* is: the row's owner is the worker, and it has held the job since.       *)
(***************************************************************************)
EXTENDS Integers, FiniteSets

CONSTANTS
  Memories,
  Contents, NoContent,
  Gens,          \* embedding generations: provider, model, revision, template
  Bootstrapped,  \* the generation the bridge activated when it opened the store
  Workers, NoWorker,
  GenOf,         \* the generation of a worker's provider
  MaxAttempts,   \* claims a job may have (3)
  BatchSize,     \* jobs a worker claims before it calls the provider (32)
  MaxOps         \* bound: writes of memories, registrations, backfills, activations

ASSUME ConstantsAssumption ==
  /\ NoContent \notin Contents /\ NoWorker \notin Workers
  /\ IsFiniteSet(Memories) /\ IsFiniteSet(Contents)
  /\ Bootstrapped \subseteq Gens /\ (\A g, h \in Bootstrapped : g = h)
  /\ GenOf \in [Workers -> Gens]
  /\ MaxAttempts \in Nat \ {0} /\ BatchSize \in Nat \ {0} /\ MaxOps \in Nat

VARIABLES
  mem,       \* memories: the text, and whether it is to be embedded
  gen,       \* embedding_generations.status
  jobs,      \* embedding_jobs, unique on memory, generation and content
  vec,       \* memory_embeddings, unique on memory and generation
  worker,    \* what each worker's batch holds
  backfill,  \* the records a backfill read, and what it has yet to schedule
  gate,      \* how far an activation's checks have come
  raced,     \* history: the memories written while a backfill or an activation
             \* was between its reads and its writes
  ops

vars == <<mem, gen, jobs, vec, worker, backfill, gate, raced, ops>>

Memory == [content : Contents \cup {NoContent}, embed : BOOLEAN]
NoMemory == [content |-> NoContent, embed |-> FALSE]

GenStatus == {"absent", "backfill", "active", "retired"}

\* due: a pending job is past its available_at, a running one past its lease.
Row == [status : {"absent", "pending", "running", "succeeded", "superseded", "dead_letter"},
        att : Nat, owner : Workers \cup {NoWorker}, due : BOOLEAN]
NoRow == [status |-> "absent", att |-> 0, owner |-> NoWorker, due |-> FALSE]
NewRow == [status |-> "pending", att |-> 0, owner |-> NoWorker, due |-> TRUE]

Vector == [status : {"absent", "ready", "stale"}, content : Contents \cup {NoContent}]
NoVector == [status |-> "absent", content |-> NoContent]

Key == Memories \X Contents
Batch == [phase : {"claiming", "checking", "embedding", "publishing", "failing"},
          claimed : SUBSET Key,    \* not yet compared with the memory
          mismatch : SUBSET Key,   \* compared, and about to be superseded
          prepared : SUBSET Key,
          lost : SUBSET Key]       \* the heartbeat found the lease gone
NoBatch == [phase |-> "claiming", claimed |-> {}, mismatch |-> {}, prepared |-> {}, lost |-> {}]

NoBackfill == [copy |-> [m \in Memories |-> NoMemory], todo |-> {}, cancel |-> {}, drop |-> {}]
NoGate == [passed |-> 0, gens |-> {}]

TypeOK ==
  /\ mem \in [Memories -> Memory]
  /\ gen \in [Gens -> GenStatus]
  /\ jobs \in [Memories -> [Gens -> [Contents -> Row]]]
  /\ vec \in [Memories -> [Gens -> Vector]]
  /\ worker \in [Workers -> Batch]
  /\ backfill \in [copy : [Memories -> Memory], todo : SUBSET (Memories \X Gens),
                   cancel : SUBSET Memories, drop : SUBSET Memories]
  /\ gate \in [passed : 0..2, gens : SUBSET Gens]
  /\ raced \subseteq Memories
  /\ ops \in Nat

\* bootstrap: each memory of the store it opens is embedded in the generation it activates.
Held == [Memories -> Contents \cup {NoContent}]
EmbeddedRow == [status |-> "succeeded", att |-> 1, owner |-> NoWorker, due |-> FALSE]

Init ==
  \E held \in Held :
    LET done(m, g) == g \in Bootstrapped /\ held[m] # NoContent
    IN  /\ mem = [m \in Memories |-> [content |-> held[m], embed |-> held[m] # NoContent]]
        /\ gen = [g \in Gens |-> IF g \in Bootstrapped THEN "active" ELSE "absent"]
        /\ jobs = [m \in Memories |-> [g \in Gens |-> [c \in Contents |->
                     IF done(m, g) /\ c = held[m] THEN EmbeddedRow ELSE NoRow]]]
        /\ vec = [m \in Memories |-> [g \in Gens |->
                    IF done(m, g) THEN [status |-> "ready", content |-> held[m]] ELSE NoVector]]
        /\ worker = [w \in Workers |-> NoBatch]
        /\ backfill = NoBackfill
        /\ gate = NoGate
        /\ raced = {}
        /\ ops = 0

-----------------------------------------------------------------------------
(* Scheduling a memory in one generation.                                  *)

Live(row) == row.status \in {"pending", "running"}

Closed(row, status) == [row EXCEPT !.status = status, !.owner = NoWorker, !.due = FALSE]

Superseded(row) == IF Live(row) THEN Closed(row, "superseded") ELSE row

UpToDate(v, c) == v.status = "ready" /\ v.content = c

ScheduledVector(v, c) ==
  IF v.status = "absent" \/ UpToDate(v, c) THEN v ELSE [v EXCEPT !.status = "stale"]

\* Mutant: INSERT OR IGNORE, a job that was there before is never reset.
ScheduledRowsOnce(v, rows, c) ==
  IF UpToDate(v, c) THEN rows
  ELSE [d \in Contents |-> IF d # c THEN Superseded(rows[d])
                           ELSE IF rows[d].status # "absent" THEN rows[d] ELSE NewRow]

\* A job that is live already is kept, with its attempts; a closed one starts anew.
ScheduledRows(v, rows, c) ==
  IF UpToDate(v, c) THEN rows
  ELSE [d \in Contents |-> IF d # c THEN Superseded(rows[d])
                           ELSE IF Live(rows[d]) THEN rows[d] ELSE NewRow]

Indexing == {g \in Gens : gen[g] \in {"active", "backfill"}}

\* upsert withdraws the vectors of retired generations before it schedules.
Withdrawn(m, g) ==
  IF gen[g] = "retired" /\ vec[m][g].status = "ready"
    THEN [vec[m][g] EXCEPT !.status = "stale"] ELSE vec[m][g]

VectorsAfter(m, r) ==
  [g \in Gens |-> IF ~r.embed THEN NoVector
                  ELSE IF g \in Indexing THEN ScheduledVector(vec[m][g], r.content)
                  ELSE Withdrawn(m, g)]

RowsAfter(m, r) ==
  [g \in Gens |-> IF ~r.embed THEN [c \in Contents |-> Superseded(jobs[m][g][c])]
                  ELSE IF g \in Indexing THEN ScheduledRows(vec[m][g], jobs[m][g], r.content)
                  ELSE jobs[m][g]]

-----------------------------------------------------------------------------
(* Writers of memories.  Each is one transaction.                          *)

Quiet == backfill = NoBackfill /\ gate = NoGate

Written(ms) == raced' = IF Quiet THEN raced ELSE raced \cup ms

Counted == ops < MaxOps /\ ops' = ops + 1

Upsert(m, c, embed) ==
  LET r == [content |-> c, embed |-> embed]
  IN  /\ Counted /\ Written({m})
      /\ mem' = [mem EXCEPT ![m] = r]
      /\ vec' = [vec EXCEPT ![m] = VectorsAfter(m, r)]
      /\ jobs' = [jobs EXCEPT ![m] = RowsAfter(m, r)]
      /\ UNCHANGED <<gen, worker, backfill, gate>>

\* The foreign keys take a memory's jobs and vectors along.
NoVectors == [g \in Gens |-> NoVector]
NoRows == [g \in Gens |-> [c \in Contents |-> NoRow]]

Delete(m) ==
  /\ Counted /\ Written({m})
  /\ mem[m] # NoMemory
  /\ mem' = [mem EXCEPT ![m] = NoMemory]
  /\ vec' = [vec EXCEPT ![m] = NoVectors]
  /\ jobs' = [jobs EXCEPT ![m] = NoRows]
  /\ UNCHANGED <<gen, worker, backfill, gate>>

\* A retention cycle deletes, archives or warms some memories, and rewrites
\* the whole table: every vector goes and every kept memory is scheduled anew.
Retained(m, gone, flipped) ==
  IF m \in gone THEN NoMemory
  ELSE IF m \in flipped THEN [mem[m] EXCEPT !.embed = ~@] ELSE mem[m]

RequeuedRows(r) ==
  [g \in Gens |-> [c \in Contents |->
     IF r.embed /\ g \in Indexing /\ c = r.content THEN NewRow ELSE NoRow]]

Retain(gone, flipped) ==
  /\ Counted /\ Written(Memories)
  /\ gone \cup flipped # {} /\ gone \cap flipped = {}
  /\ \A m \in gone \cup flipped : mem[m] # NoMemory
  /\ mem' = [m \in Memories |-> Retained(m, gone, flipped)]
  /\ vec' = [m \in Memories |-> NoVectors]
  /\ jobs' = [m \in Memories |-> RequeuedRows(Retained(m, gone, flipped))]
  /\ UNCHANGED <<gen, worker, backfill, gate>>

-----------------------------------------------------------------------------
(* Generations: registration, backfill, activation behind its two checks,  *)
(* and removal.  One administrator runs activations and prunes in turn.    *)

Register(g) ==
  /\ Counted
  /\ gen[g] \in {"absent", "retired"}
  /\ gen' = [gen EXCEPT ![g] = "backfill"]
  /\ UNCHANGED <<mem, jobs, vec, worker, backfill, gate, raced>>

\* The records are read before, and outside, the transactions that schedule them.
BackfillRead ==
  /\ Counted /\ backfill = NoBackfill
  /\ LET kept == {m \in Memories : mem[m].embed}
         rest == {m \in Memories : mem[m] # NoMemory} \ kept
     IN  /\ kept \X Indexing # {} \/ rest # {}
         /\ backfill' = [copy |-> mem, todo |-> kept \X Indexing, cancel |-> rest, drop |-> rest]
  /\ UNCHANGED <<mem, gen, jobs, vec, worker, gate, raced>>

Remaining(b) == IF b.todo = {} /\ b.drop = {} THEN NoBackfill ELSE b

\* The insert for a memory or generation that is gone by now fails, and the
\* exception ends the backfill.
BackfillSchedule(m, g) ==
  /\ <<m, g>> \in backfill.todo
  /\ IF mem[m] = NoMemory \/ gen[g] = "absent"
       THEN backfill' = NoBackfill /\ UNCHANGED <<jobs, vec>>
       ELSE LET c == backfill.copy[m].content
            IN  /\ vec' = [vec EXCEPT ![m][g] = ScheduledVector(@, c)]
                /\ jobs' = [jobs EXCEPT ![m][g] = ScheduledRows(vec[m][g], @, c)]
                /\ backfill' = Remaining([backfill EXCEPT !.todo = @ \ {<<m, g>>}])
  /\ UNCHANGED <<mem, gen, worker, gate, raced, ops>>

BackfillCancel(m) ==
  /\ m \in backfill.cancel
  /\ jobs' = [jobs EXCEPT ![m] = [g \in Gens |-> [c \in Contents |-> Superseded(jobs[m][g][c])]]]
  /\ backfill' = [backfill EXCEPT !.cancel = @ \ {m}]
  /\ UNCHANGED <<mem, gen, vec, worker, gate, raced, ops>>

BackfillDrop(m) ==
  /\ m \in backfill.drop \ backfill.cancel
  /\ vec' = [vec EXCEPT ![m] = NoVectors]
  /\ backfill' = Remaining([backfill EXCEPT !.drop = @ \ {m}])
  /\ UNCHANGED <<mem, gen, jobs, worker, gate, raced, ops>>

Ready(m, g) == vec[m][g].status = "ready"

\* Mutant: the share is taken of the vectors the generation has, not of the memories.
FullCoverageOfVectors(g) == \A m \in Memories : vec[m][g].status # "absent" => Ready(m, g)

\* SQLiteVectorIndex.coverage: 1.0 when nothing is to be embedded.
FullCoverage(g) == \A m \in Memories : mem[m].embed => Ready(m, g)

Outstanding(g) == {k \in Key : Live(jobs[k[1]][g][k[2]])}

CheckCoverage(g) ==
  /\ Counted /\ gate = NoGate
  /\ gen[g] # "absent" /\ FullCoverage(g)
  /\ gate' = [passed |-> 1, gens |-> {g}]
  /\ UNCHANGED <<mem, gen, jobs, vec, worker, backfill, raced>>

CheckOutstanding(g) ==
  /\ gate = [passed |-> 1, gens |-> {g}]
  /\ gate' = IF Outstanding(g) = {} THEN [gate EXCEPT !.passed = 2] ELSE NoGate
  /\ UNCHANGED <<mem, gen, jobs, vec, worker, backfill, raced, ops>>

Activate(g) ==
  /\ gate = [passed |-> 2, gens |-> {g}]
  /\ gen' = [h \in Gens |-> IF h = g THEN "active"
                            ELSE IF gen[h] = "active" THEN "retired" ELSE gen[h]]
  /\ gate' = NoGate
  /\ UNCHANGED <<mem, jobs, vec, worker, backfill, raced, ops>>

Prune(g) ==
  /\ gate = NoGate
  /\ gen[g] = "retired"
  /\ gen' = [gen EXCEPT ![g] = "absent"]
  /\ vec' = [m \in Memories |-> [vec[m] EXCEPT ![g] = NoVector]]
  /\ jobs' = [m \in Memories |-> [jobs[m] EXCEPT ![g] = [c \in Contents |-> NoRow]]]
  /\ UNCHANGED <<mem, worker, backfill, gate, raced, ops>>

-----------------------------------------------------------------------------
(* Leases and claims.                                                      *)

\* A running job past its lease, seen by any statement that looks at it.
Recovered(row) ==
  IF row.status = "running" /\ row.due
    THEN IF row.att >= MaxAttempts THEN Closed(row, "dead_letter")
         ELSE [row EXCEPT !.status = "pending", !.owner = NoWorker]
    ELSE row

Claimed(row, w) ==
  [row EXCEPT !.status = "running", !.att = @ + 1, !.owner = w, !.due = FALSE]

RowAt(w, k) == jobs[k[1]][GenOf[w]][k[2]]

SetRow(w, k, row) == jobs' = [jobs EXCEPT ![k[1]][GenOf[w]][k[2]] = row]

DueIn(w, status) == {k \in Key : RowAt(w, k).status = status /\ RowAt(w, k).due}

\* Mutant: expired leases are left for their owners.
ClaimablePending(w) == DueIn(w, "pending")

\* Pending jobs come first, then the running ones past their lease.
Claimable(w) ==
  IF DueIn(w, "pending") # {} THEN DueIn(w, "pending")
  ELSE {k \in DueIn(w, "running") : RowAt(w, k).att < MaxAttempts}

\* Jobs the same loop may dead-letter on its way, oldest lease first.
Exhausted(w) ==
  IF DueIn(w, "pending") # {} THEN {}
  ELSE {k \in DueIn(w, "running") : RowAt(w, k).att >= MaxAttempts}

\* The rows of w's generation after a claim of the jobs in taken.
RowsClaimed(w, taken, closed) ==
  [m \in Memories |-> [jobs[m] EXCEPT ![GenOf[w]] = [c \in Contents |->
     IF <<m, c>> \in taken THEN Claimed(@[c], w)
     ELSE IF <<m, c>> \in closed THEN Recovered(@[c]) ELSE @[c]]]]

Claim(w, k) ==
  /\ worker[w].phase = "claiming"
  /\ Cardinality(worker[w].claimed) < BatchSize
  /\ k \in Claimable(w)
  /\ \E closed \in SUBSET Exhausted(w) : jobs' = RowsClaimed(w, {k}, closed)
  /\ worker' = [worker EXCEPT ![w].claimed = @ \cup {k}]
  /\ UNCHANGED <<mem, gen, vec, backfill, gate, raced, ops>>

\* The batch is as long as it may be (max_jobs can make it shorter), or
\* there is nothing left to claim.
EndClaims(w) ==
  /\ worker[w].phase = "claiming"
  /\ \/ worker[w].claimed # {} /\ UNCHANGED jobs
     \/ /\ Claimable(w) = {} /\ Exhausted(w) # {}
        /\ jobs' = RowsClaimed(w, {}, Exhausted(w))
  /\ worker' = [worker EXCEPT ![w].phase = IF worker[w].claimed = {} THEN @ ELSE "checking"]
  /\ UNCHANGED <<mem, gen, vec, backfill, gate, raced, ops>>

\* Mutant: the lease's end is not looked at.
OwnsExpired(w, k) == RowAt(w, k).status = "running" /\ RowAt(w, k).owner = w

\* _owned_running
Owns(w, k) ==
  LET row == RowAt(w, k) IN row.status = "running" /\ row.owner = w /\ ~row.due

\* A statement for a job it does not own only recovers an expired lease.
Touch(w, k) == SetRow(w, k, Recovered(RowAt(w, k)))

\* Mutant: it is enough that the memory is still there.
MatchesAny(k) == mem[k[1]] # NoMemory

Matches(k) == mem[k[1]].content = k[2]

-----------------------------------------------------------------------------
(* The batch: every claimed job is compared with its memory, the provider  *)
(* is called for those that match, and each is published or failed.        *)

\* The batch with one job less to check: on to the provider, or to an end.
Checked(b) ==
  IF b.claimed # {} \/ b.mismatch # {} THEN b
  ELSE IF b.prepared = {} THEN NoBatch ELSE [b EXCEPT !.phase = "embedding"]

Compared(b, k) ==
  IF Matches(k) THEN [b EXCEPT !.claimed = @ \ {k}, !.prepared = @ \cup {k}]
                ELSE [b EXCEPT !.claimed = @ \ {k}, !.mismatch = {k}]

Check(w, k) ==
  /\ worker[w].phase = "checking" /\ worker[w].mismatch = {}
  /\ k \in worker[w].claimed
  /\ worker' = [worker EXCEPT ![w] = Checked(Compared(@, k))]
  /\ UNCHANGED <<mem, gen, jobs, vec, backfill, gate, raced, ops>>

\* LeaseLostError leaves the whole batch: its other jobs wait for their leases.
Supersede(w, k) ==
  /\ k \in worker[w].mismatch
  /\ IF Owns(w, k)
       THEN /\ SetRow(w, k, Closed(RowAt(w, k), "superseded"))
            /\ worker' = [worker EXCEPT ![w] = Checked([@ EXCEPT !.mismatch = {}])]
       ELSE /\ Touch(w, k)
            /\ worker' = [worker EXCEPT ![w] = NoBatch]
  /\ UNCHANGED <<mem, gen, vec, backfill, gate, raced, ops>>

\* A beat that extends a lease changes nothing here; one that cannot, because
\* the job is not the worker's or the database is busy, loses the job.
Beat(w, k) ==
  /\ worker[w].phase = "embedding"
  /\ k \in worker[w].prepared \ worker[w].lost
  /\ Touch(w, k) \/ UNCHANGED jobs
  /\ worker' = [worker EXCEPT ![w].lost = @ \cup {k}]
  /\ UNCHANGED <<mem, gen, vec, backfill, gate, raced, ops>>

EmbedEnds(w) ==
  /\ worker[w].phase = "embedding"
  /\ \E outcome \in {"publishing", "failing"} : worker' = [worker EXCEPT ![w].phase = outcome]
  /\ UNCHANGED <<mem, gen, jobs, vec, backfill, gate, raced, ops>>

Done(b, k) ==
  IF b.prepared = {k} THEN NoBatch
  ELSE [b EXCEPT !.prepared = @ \ {k}, !.lost = @ \ {k}]

\* One transaction: whatever it did for a job it does not own is rolled back.
Publish(w, k) ==
  /\ worker[w].phase = "publishing" /\ k \in worker[w].prepared
  /\ IF k \in worker[w].lost \/ ~Owns(w, k)
       THEN UNCHANGED <<jobs, vec>>
     ELSE IF Matches(k)
       THEN /\ vec' = [vec EXCEPT ![k[1]][GenOf[w]] = [status |-> "ready", content |-> k[2]]]
            /\ SetRow(w, k, Closed(RowAt(w, k), "succeeded"))
     ELSE SetRow(w, k, Closed(RowAt(w, k), "superseded")) /\ UNCHANGED vec
  /\ worker' = [worker EXCEPT ![w] = Done(@, k)]
  /\ UNCHANGED <<mem, gen, backfill, gate, raced, ops>>

\* A job that has attempts left waits for its backoff.
Failed(row) ==
  IF row.att >= MaxAttempts THEN Closed(row, "dead_letter") ELSE Closed(row, "pending")

Fail(w, k) ==
  /\ worker[w].phase = "failing" /\ k \in worker[w].prepared
  /\ IF k \in worker[w].lost THEN UNCHANGED jobs
     ELSE IF Owns(w, k) THEN SetRow(w, k, Failed(RowAt(w, k)))
     ELSE Touch(w, k)
  /\ worker' = [worker EXCEPT ![w] = Done(@, k)]
  /\ UNCHANGED <<mem, gen, vec, backfill, gate, raced, ops>>

\* The process dies, or an exception no handler names ends the batch.
Crash(w) ==
  /\ worker[w] # NoBatch
  /\ worker' = [worker EXCEPT ![w] = NoBatch]
  /\ UNCHANGED <<mem, gen, jobs, vec, backfill, gate, raced, ops>>

\* A lease ends that no beat extended, or a backoff does.
FallDue(m, g, c) ==
  /\ Live(jobs[m][g][c]) /\ ~jobs[m][g][c].due
  /\ jobs' = [jobs EXCEPT ![m][g][c].due = TRUE]
  /\ UNCHANGED <<mem, gen, vec, worker, backfill, gate, raced, ops>>

\* The administrator's process dies.
Abandon ==
  /\ ~Quiet
  /\ \/ backfill' = NoBackfill /\ UNCHANGED gate
     \/ gate' = NoGate /\ UNCHANGED backfill
  /\ UNCHANGED <<mem, gen, jobs, vec, worker, raced, ops>>

-----------------------------------------------------------------------------
Write ==
  \/ \E m \in Memories, c \in Contents, embed \in BOOLEAN : Upsert(m, c, embed)
  \/ \E m \in Memories : Delete(m)
  \/ \E gone, flipped \in SUBSET Memories : Retain(gone, flipped)

Administer ==
  \/ \E g \in Gens : Register(g) \/ CheckCoverage(g) \/ CheckOutstanding(g) \/ Activate(g) \/ Prune(g)
  \/ BackfillRead \/ Abandon
  \/ \E m \in Memories : BackfillCancel(m) \/ BackfillDrop(m)
  \/ \E m \in Memories, g \in Gens : BackfillSchedule(m, g)

Work(w) ==
  \/ EndClaims(w) \/ EmbedEnds(w)
  \/ \E k \in Key : Claim(w, k) \/ Check(w, k) \/ Supersede(w, k) \/ Publish(w, k) \/ Fail(w, k)

TimePasses == \E m \in Memories, g \in Gens, c \in Contents : FallDue(m, g, c)

Next ==
  \/ Write \/ Administer
  \/ \E w \in Workers : Work(w) \/ Crash(w) \/ \E k \in Key : Beat(w, k)
  \/ TimePasses

Spec == Init /\ [][Next]_vars

(* Worker processes are restarted and keep polling, the provider answers or *)
(* times out, and deadlines pass: while any of that is due, some of it       *)
(* happens.  Nothing is assumed of one worker beside another, of writers, of *)
(* the administrator, or of how often a worker crashes or a heartbeat fails. *)
Fairness == WF_vars(TimePasses \/ \E w \in Workers : Work(w))

FairSpec == Spec /\ Fairness

-----------------------------------------------------------------------------
(* Properties. *)

(* No search is ever answered from a vector of a text the memory no longer
   has: a ready vector, in whatever generation, is of the current content. *)
ReadyIsCurrent ==
  \A m \in Memories, g \in Gens :
    Ready(m, g) => mem[m] # NoMemory /\ vec[m][g].content = mem[m].content

(* A memory has at most one job outstanding in a generation, and none where
   its vector is ready: no two workers embed it, no finished work is redone. *)
OneLiveJob ==
  \A m \in Memories, g \in Gens :
    LET live == {c \in Contents : Live(jobs[m][g][c])}
    IN  /\ \A c, d \in live : c = d
        /\ Ready(m, g) => live = {} /\ jobs[m][g][vec[m][g].content].status = "succeeded"

(* No lost lease, crash or failure buys a job another claim: it is claimed
   MaxAttempts times at most, never waits with none left, and is given up
   only when it had them all. *)
AttemptBudget ==
  \A m \in Memories, g \in Gens, c \in Contents :
    LET row == jobs[m][g][c]
    IN  /\ row.att <= MaxAttempts
        /\ row.status = "pending" => row.att < MaxAttempts
        /\ row.status = "dead_letter" => row.att = MaxAttempts

(* A vector appears only under a live lease of the job for its content: a
   worker that lost its lease publishes nothing, however late it answers. *)
PublishedUnderLease ==
  [][\A m \in Memories, g \in Gens :
       ~Ready(m, g) /\ Ready(m, g)' =>
         LET c == vec'[m][g].content
             row == jobs[m][g][c]
         IN  /\ row.status = "running" /\ ~row.due
             /\ <<m, c>> \in worker[row.owner].prepared \ worker[row.owner].lost
             /\ GenOf[row.owner] = g]_vars

Settles(m, g) == Ready(m, g) \/ jobs[m][g][mem[m].content].status = "dead_letter"

Tracked(m, g) == Settles(m, g) \/ Live(jobs[m][g][mem[m].content])

Serves(m, g) == gen[g] = "active" /\ mem[m].embed

(* What the active generation cannot answer for yet, some job will make it
   answer for, or has been given up on: no memory is forgotten.  And a memory that
   is not to be embedded (archived, hot, sensitive or without a reader) has no vector
   and no job that would send its text to a provider. *)
Covered ==
  \A m \in Memories \ raced, g \in Gens :
    /\ Serves(m, g) => Tracked(m, g)
    /\ ~mem[m].embed => /\ vec[m][g] = NoVector
                         /\ \A c \in Contents : ~Live(jobs[m][g][c])

(* An activation hands over to a generation that answers for every memory. *)
ActivationIsComplete ==
  [][\A m \in Memories \ raced, g \in Gens :
       ~Serves(m, g) /\ gen[g] # "active" /\ Serves(m, g)' => Ready(m, g)']_vars

(* Every memory to be embedded is in the active generation in the end, or
   its job is given up after MaxAttempts, whatever workers crash or leases end. *)
EveryMemorySettles ==
  \A m \in Memories, g \in {GenOf[w] : w \in Workers} :
    Serves(m, g) ~> (m \in raced \/ ~Serves(m, g) \/ Settles(m, g))
=============================================================================
