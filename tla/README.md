# TLA+ models of the agent memory framework and the recommend-radio backend

TLA+ modules for the parts of this repository in which the order of steps
decides correctness, TLC configurations that check them on small instances, and
TLAPS proofs of their main theorems.  `PROJECT.json` holds the details: the
source lines every definition translates (`map`),
what each run checks (`runs`), for each checked property a plausible bug that
breaks it (`mutants`), the hazards of the code (`hazards`), the disagreements
between code and documents (`findings`), and the proved results (`theorems`).

Contents: 1 inventory, 2 plan, 3 durable jobs, 4 agent runs, 5 embedding outbox,
6 orchestration, 7 memory intake, 8 event stream and gateway, 9 dialogue page,
10 audio cache, 11 signed metadata, 12 runs and bounds, 13 fairness, 14 proofs,
15 findings, 16 what is not modelled, 17 how to run it.

## 1. Inventory

The repository has two halves.  `src/agent_memory_runtime` is a framework: durable
agent runs with tools and approvals, multi-agent orchestration, and a memory store
with intake, retrieval, embeddings, retention and audit.  `recommend-radio` is an
application over it: an HTTP backend, a durable job ledger with Celery workers, a
dialogue agent, recommendation and discovery, a gRPC bridge to the memory
runtime, an SSE gateway and a web front end.

### Components with state and concurrency

**Durable job ledger** (`recommend-radio/backend/durable_jobs.py`, `task_app.py`,
`outbox_dispatcher.py`, `job_admin.py`) - *modelled*.
State: the table `durable_jobs` (status, attempts, lease and token, publication
and availability times), the audit table of operator decisions, the broker's
messages, the tasks in the workers.  Operations: `enqueue`, `publish_pending`
(which begins with `recover_expired`), `execute_job` (`claim`, dispatch, `finish`),
`resolve`.  HTTP handlers enqueue; the dispatcher publishes row ids to the broker;
Celery delivers them, possibly twice or never; the worker claims, calls the
agent runtime or another service, and writes the outcome in a second transaction.
Hard: leases against long tasks, duplicate and lost messages, retries beside
recovery, serial lanes, outcomes nobody knows.  Correct when: no job without
retry safety is started twice, a lane is a FIFO queue worked on one job at a
time (but for a job closed under its last attempt), a late worker changes nothing, an operator's decision stands, and every
accepted job settles or waits for the operator.

**Durable agent run** (`src/agent_memory_runtime/agent/runtime.py`, `graph_driver.py`,
`tool_runtime.py`, `models.py`, `stores/sqlite.py`) - *modelled except what
section 4 lists*.  State: the run's row with its lease, the checkpoint (the
conversation), the journal of tool calls, approvals, LangGraph's own checkpoint,
the executions in memory.  Operations: run/resume (claim, heartbeat, the nodes
prepare, model, tool and finish), cancel, decide an approval, reconcile a call,
compensate.  Every store call is a transaction of its own; optimistic versions,
not locks, stand between overlapping executions.  Hard: takeovers, crashes
between the journal and the call, timeouts that interrupt a side effect, review
that races the run.  Correct when: side effects are not repeated and never come
before their approval, an unknown outcome is held until a reviewer answers, the
conversation loses and repeats nothing, and a run ends or waits for a reviewer.

**Embedding outbox** (`src/agent_memory_runtime/memory/embeddings/sqlite.py`,
`models.py`, `worker.py`, `memory/stores/sqlite.py`, the embedding commands of
`cli/app.py`) - *modelled except what section 5 lists*.  State: memories, generations of
vectors, jobs, vectors, the workers' batches.  Operations: upsert, delete and
replace of memories (each schedules or cancels jobs in its transaction),
backfill, registration, activation and prune of generations, claim, heartbeat,
publish, fail.  Hard: provider calls outside any transaction, lease loss, a
text that changes and comes back, backfills over stale reads, multi-step
activation.  Correct when: no vector of an old text is served, no late answer is
published, and no memory that should be searchable is forgotten.

**Memory intake** (`memory/intake/`, `memory/service.py`, `memory/write_policy.py`,
`memory/audit_replay.py`, `audit/stores/sqlite.py`) - *modelled except what section 7 lists*.  State: the event
log, the dream job, the checkpoint, memories, tombstones, the audit log, reviews.
Operations: schedule, claim, analyse, apply each proposal, complete, fail; save, revise,
archive, delete by a tool; replay; retention.  Hard: schedule resets a running job, completion
is not fenced, a proposal is looked up in one transaction and written in another, a
crash leaves a report half applied.  Correct when: the checkpoint passes no event that
was not handled, and the log rebuilds the table.

**Orchestration** (`agent/orchestration/`) - *modelled except what section 6 lists*.
State: the orchestration with version and lease, delegations, child runs, LangGraph's
snapshot, the nodes in memory.  Operations: claim, prepare, execute nodes, finish,
park; cancel, resume, decide an approval.  Hard: delegations are written under their
version but under no lease, takeover while a child runs, cancellation of a
tree, an interrupt that resumes in another process.  Correct when: no task starts before
what it depends on, a recorded result is the child's, a verdict is final, and every
orchestration ends or waits for a reviewer.

**Event stream** (`recommend-radio/backend/sse_event_client.py`, `sse-gateway/`) -
*modelled*.  State: the lane of "sse" jobs per task, the
gateway's event table, handlers, channels, the browser's `Last-Event-ID`.
Operations: publish, POST with retries, append and broadcast, prune, subscribe, replay, live.  Hard:
repeated POSTs, slow clients, restarts, the seam between replay and live events.
Correct when: a client sees the events of a task in order and every event it is owed.

**Dialogue session and its page** (`backend/dialogue_task_service.py`, the cards of
`dialogue_service.py`, `discovery_service.py`, `frontend/src/composables/useDialogueTasks.ts`,
`views/AgentDialogueView.vue`) - *modelled except what section 9 lists*.  State: the task's
job, the discovery's row and its job, the watch, the session's cards, the page.  Hard: events, the answer to the
POST, a poll, a card poll and a refresh race each other on the page; three writers fill one
card, whose discovery may be run again after it ended.  Correct when: the page shows nothing that was not so, stops waiting for what it asked
and ends up showing what the server has.

**Retention** (`governance/retention/`, the retention commands) - *modelled, in the intake*.  State:
none but a command's plan.  Operations: plan, apply, a worker's cycle.  Hard: the command plans
before its transaction, and the change has no entry in the memory log.  What it does to jobs and
vectors is `Retain` of the outbox.  The review queue is `Review` of the intake.

**Audio streams** (`backend/stream_service.py`) - *modelled*.  State: a cache under two
dictionaries, the flights, the requests.  Operations: look up, lead or join a flight, fetch,
store and prune, open the upstream, invalidate and refresh by force.  Hard: a lock that is
given up around each fetch, waiters without a timeout, addresses that die before they expire.
Correct when: the dictionaries agree within the limit, nothing dropped comes back, and every
request ends.

**Bilibili client** (`backend/bili_client.py`) - *partly*: its signing keys and metadata caches.
State: caches in least-recently-used order, one Future per key under way.  Operations: a cached
payload with its loader, the keys it is signed with, the attempts of a signed request.  Hard:
flights nest, keys are rotated while answers are out, several requests are refused at
once.  Correct when: one loader per payload, good keys stay, and refusals end.

**Profile update, profile cache, candidate pool** of the radio - not modelled yet (section 2).

### Components of pure functions, I/O or presentation

Retrieval, compression and ranking; context building; access control and
information flow; model gateway and LLM clients; built-in tools; configuration
and facades; HTTP routing, authentication, playback, library import; traces; schema and migrations; the web front end beyond the dialogue page; deployment.  They keep
no state that several actors share, or it is one transaction on one user's rows.
`PROJECT.json` lists each with its files and the reason it is left out.  Two
have algorithms worth stating as operators: rank fusion and access decisions.

### How the modelled parts meet

An agent job of the ledger drives one agent run: the task runs it and reads its
events, and turns a request for reconciliation into the outcome `reconcile`, a failed
or cancelled run into `permanent`, a completed one into `result`, and a run that
waits into `error`.  A child run of an orchestration is such a run seen from outside.  The
agent reads memories and its intake writes them (`Upsert` of the outbox).  A dialogue
task is a job of the ledger, and its events are "sse" jobs that the gateway stores and streams;
`EventStream` is the promise between the two: `EventGateway` implements it, `DialoguePage`
assumes no more than it.  A fetch of `AudioCache` is a call of the client whose signed requests
`SignedMetadata` models; each takes the other for something that answers or fails.  The bridge starts
with an empty store and an active generation (`Init` with `Bootstrapped`) and runs
embedding workers in its own process.

## 2. Plan

Order: what can do something twice comes first.

| # | module | states | status |
|---|---|---|---|
| 1 | `DurableJobs` | the ledger, dispatcher, broker, workers, operator | done |
| 2 | `LaneQueue`, `DurableJobsLanes` | abstract FIFO lane, and its refinement by 1 | done |
| 3 | `AgentRun` | one run under overlapping executions | done |
| 4 | `ToolLedger` | abstract ledger of tool calls, refined by 3 | done |
| 5 | `EmbeddingOutbox` | jobs, vectors, generations, workers | done |
| 6 | `Orchestration` | one orchestration, its delegations, nodes and child runs | done |
| 7 | `MemoryIntake` | event log, dream job, proposals, memories, audit log and replay, retention | done |
| 8 | `EventStream`, `EventGateway` | the abstract stream, and the lanes, gateway and EventSource that implement it | done |
| 9 | `DialoguePage` | a session's tasks, discovery, watch, and the page over `EventStream` | done |
| 10 | `AudioCache` | the radio's cache of audio addresses and its flights | done |
| 11 | `SignedMetadata` | the Bilibili client's keys and metadata caches | done |
| 12 | proofs for 1, 3, 5, 6, 7, 8, 10, 11 | section 14 | done |
| 13 | proofs for 9, over the stream of 8 | section 14 | done |
| 14 | `ProfileUpdate` | the thresholds that turn behaviour into profile memories, with its demotion outbox, under overlapping passes | next |
| 15 | `ProfileCache` | refresh and invalidation of projected profiles on both sides of the gRPC bridge | later |
| 16 | `DialoguePage` with undo, feedback and two tasks that have cards | exceeds TLC's time with every fault on | later |
| 17 | `RankFusion`, `AccessDecision` | pure operators against a reference | later |

Every safety property a passing run checks is proved, under the assumptions section 14 names.
Liveness stays with TLC; where a liveness property rests on a safety core that can be
stated (nobody waits in vain, the waiting page is watched), that core is proved.

## 3. Durable jobs

`DurableJobs` has one action per transaction or message.  `rows` is the table.
The deadlines `lease_until`, `next_publish_at`, `available_at` are kept as the time
left, which `Tick` counts down to `Past = -1`; the comparisons the code makes with
`now` are comparisons with 0, strict or not as in the code.  A claim's token is
the attempt number the same UPDATE writes, in place of a uuid.

| action | code |
|---|---|
| `Enqueue` | `enqueue`, with the capacity test; a repeated key changes nothing |
| `Poll` | the transaction of `publish_pending`: recover expired leases, reserve the due rows |
| `Publish`, `PassFails` | its publish loop, and an exception or death in it |
| `ClaimNothing`, `ClaimExhausted`, `ClaimLost`, `ClaimGranted` | the returns of `claim`, tests in the code's order |
| `Finish` | `finish` after dispatch returned, raised, or asked for reconciliation |
| `Crash` | a worker that dies, or is killed at Celery's hard limit |
| `Resolve` | `job_admin.resolve` |
| `Redeliver`, `LoseMessage` | the broker (external) |
| `Tick` | one unit of time, unless a task would outlive `RunLimit` |

`LaneQueue` is what a lane promises its users: a line per lane, the items held because their
outcome is unknown, the items somebody is executing, and how often each was started.  Only the
head is started, with nothing held, and no more often than it has tries; it leaves the line
settled or held.  One exception is written into it as an action of its own, `GiveUp`: the head
may be given up while its last try is executing, and the next item is then started beside it;
what that try still brings is nothing, or an unknown outcome (`HoldLate`).  `DurableJobsLanes`
maps a lane to its queued and running rows in id order (`ById`), its parked rows, the workers'
executions (`DoingOf`, read off the workers and not off the rows) and the attempts, and
`LanesAreQueues` says the ledger implements it, for lanes of every kind of job.  That the jobs of a
lane are executed one after another, which a document claims, is what `GiveUp` breaks
(section 15).

## 4. Agent runs

`AgentRun` models one run with several executions.  An execution is a program
counter (`pc`), the call it works on, its copies of the checkpoint and of the call's
record; each action is what happens between two store calls.  Versions are
abstracted: the code compares a version it read with the stored one, and never
uses one twice, so `runAt`, `convAt` and `callAt` keep which executions hold the
current version.  `Fence` is `_update_active_run`, `SaveConv` is `save_checkpoint`,
`Journal` is `update_tool_call`; each has the code's failure branch: a lost lease
ends the execution, a conflict on the checkpoint or a call fails the run
(`Fail`), by the lease the execution finds when it loads the row again.

| actions | code |
|---|---|
| `Claim`, `Begin`, `Lapse`, `Cancelled` | `claim_run`, `run`/`resume`, the lease and the heartbeat |
| `Prepare`, `Open`, `Ready` | prepare node |
| `Model`, `Compact`, `Compacted`, `Ask`, `Answer`, `Answered` | model node |
| `Tool`, `Requested`, `Block`, `Approve`, `Request`, `Wait`, `Reject`, `Start` | tool node up to the execution |
| `Execute`, `Return`, `Outlive`, `Unknown`, `Unwind`, `AppendResult`, `Appended` | `ReliableToolRuntime.execute` and `_append_tool_result` |
| `Finish`, `Complete` | finish node |
| `TimeOut`, `Interrupt`, `Crash` | run timeout, its effect on a call that is out, death |
| `Cancel`, `Decide`, `Reopen`, `Reconcile`, `Release`, `ReviewerDies`, `Compensate` | the callers; a decision is two transactions |

`invoked` counts calls made.  It is increased with the journal entry of the
attempt, as a death between the two cannot be told from a call.  `ToolLedger` is
the abstract view: calls asked for, made, answered, one at a time and in order.  Its action
`Again` is the one exception: a call that may be repeated and whose tool has a compensator may be
made again behind its own result, since the code takes a compensated record for one that has
yet to succeed.

Left out: structured output and its repair, evaluators, the turn journal, token
and cost budgets (a model step may be refused at any time), creation of the run.

## 5. Embedding outbox

`EmbeddingOutbox` keeps per memory and generation one vector and one job per
content; a content stands for a content hash.  `due` is "past its lease" or
"past its backoff".  `ScheduledRows` and `ScheduledVector` are `schedule_in_transaction`,
`Superseded` is the cancellation of live jobs.

| actions | code |
|---|---|
| `Upsert`, `Delete`, `Retain` | `upsert`, `delete`, `replace_all` (retention) |
| `Register`, `CheckCoverage`, `CheckOutstanding`, `Activate`, `Prune` | generations; activation is three transactions |
| `BackfillRead`, `BackfillSchedule`, `BackfillCancel`, `BackfillDrop` | `enqueue_embedding_backfill` |
| `Claim`, `EndClaims`, `Check`, `Supersede`, `EmbedEnds`, `Publish`, `Fail` | `claim_next` and the worker's batch |
| `Beat`, `FallDue`, `Crash`, `Abandon` | a heartbeat that fails, leases and backoffs that end, deaths |

`raced` is a history variable: the memories written while a backfill or an activation
was between its reads and its writes.  `Covered` and `ActivationIsComplete` except
them, since the code really loses them: a backfill that cancels the job of a write which came
after its read leaves a memory without vector and without job.

Left out: `run_once` (a batch of one), the command line's overrides of the
activation checks, Qdrant (its writes are not part of the SQLite transaction).

## 6. Orchestration

`Orchestration` models one orchestration: a DAG of delegated tasks, each with a child run.
A process that drives it has a program counter (`pc`) and one for each node it executes
(`node`); each action is what happens between two store calls.  `orchAt` and `delegAt` keep
who holds a current copy of the row and of each delegation, as `runAt` does in `AgentRun`.
A child run is `AgentRun` seen from outside: absent, open, waiting, ended.

| actions | code |
|---|---|
| `Claim`, `Begin`, `Prepare`, `Recover`, `Load` | `claim_run`, `_execute_existing`, `_ensure_delegations`, `_recover_stale_delegations`, the snapshot |
| `Enter`, `Mark`, `Announce`, `Call`, `Record`, `Forward` | a node up to its child's first event |
| `ChildStops`, `ChildInterrupted`, `ChildUnheard` | the child run while it is driven |
| `Settle`, `Report`, `Fail`, `Apologise`, `Quit`, `Release` | the outcome, and each `except` of `_execute_node` |
| `Finish`, `Conclude` | the verdict, and the last write of the row |
| `CancelRun` to `CallEnds`; `Resume`, `Decide`, `ResumeDelegation`, `ResumeRun` | `cancel`; `resume`, `decide_approval`, `_prepare_resume` |
| `Alarm`, `OrchLeaseEnds`, `ChildLeaseEnds`, `StallOrch`, `StallChild`, `Timeout`, `Crash` | heartbeat, leases, time and deaths |

LangGraph is outside the repository; the head of the module says what is taken from it.

Left out: creation behind the request id, identity checks, the in-memory store, outputs as
text; every child costs one unit of the token budget.

## 7. Memory intake

`MemoryIntake` models one scope: its event log, its dream job and checkpoint, the workers
that analyse the log, the tools that save, revise and forget, and `MemoryService` with the
audit log both write through, and the retention that ages records beside them.  What an event says and whether two texts are alike is data:
the analyzer's answer is any answer the code can give for the events after the checkpoint.

| actions | code |
|---|---|
| `Ingest`, `Schedule`, `Claim`, `Complete`, `Fail`, `Crash` | the log and the dream job |
| `Analyze` | `checkpoint_for`, the lists, and `analyze` on what they returned |
| `Lookup`, `ApplyStep`, `Review` | the worker's loop: `apply_proposal`'s lookup, its transaction, `append_review` |
| `Ask`, `Write` | a memory tool: what it reads and looks up, and its transaction |
| `Replay` | `replay_memory_audit` written back to the table |
| `RunCycle` | the retention worker: plan and `RetentionExecutor.apply` in one transaction |
| `PlanRetention`, `ApplyRetention` | the retention command, which plans before its transaction |

`raced` is a history variable: a proposal was written that the log already had, because two
writers passed the lookup together.  Then the log keeps the first entry and the table the
second, and `ReplayRebuilds` makes no promise.  `unlogged` is another: the memories retention
changed since their last entry.  Retention writes an envelope but no memory log, so a
replay takes its archiving and cooling back, and `ReplayRebuilds` excepts those memories.

Left out: promotions to the profile level and the reviews of contradicting state facts (two more
proposals of the same form), the rejection of malformed proposals, and the deletion of
sensitive records by retention, for which no write leaves a record: the policy sends a
sensitive label to a review.

## 8. Event stream and gateway

`EventStream` is what a page may expect: the events of a task arrive in the order they were
published, perhaps again, perhaps not at all, and never on a refused stream; only an event whose
job the ledger closed under its running POST (`late`) may arrive at any time.  `EventGateway` is
how it comes about, and `StreamKept` says it implements `EventStream` with `refused` read
off the connection.

| actions | code |
|---|---|
| `Emit`, `Post`, `LosePost`, `FailPost` | `SSEEventPublisher.publish`, and the ledger's worker in `publish_http` |
| `GiveUp` | `claim` closes the job under its last POST, on a duplicate message |
| `AppendEvent`, `Broadcast` | the two halves of the gateway's `publishEvent` |
| `Connect`, `Subscribe`, `List`, `Send`, `Skip`, `EndStream` | `streamEvents` with `LatestID` and `ListAfter` |
| `Prune` | the hourly deletion of the oldest events, as the mark `pruned` they lie below |
| `Disconnect`, `Refuse`, `Reopen`, `GatewayCrash` | EventSource and the page (external), a restart |

A task's lane posts one event at a time until `GiveUp` frees it; from then on POSTs of one task
run side by side, as those of two tasks do.  `posting` holds the jobs whose POST is out.
`Owed` is what the stream owes a client: what was stored after the cursor it started from, is not
deleted and was not overtaken.  `overtaken` is a history variable: the events whose id was given
before, and whose broadcast comes after, that of a later row (`PassedBy`), so that the stream
skips them.  `cut` is another: a replay was cut at its limit.

Left out: authentication (a guard), the table `agent_tasks` (nothing reads it), the text of the frames.

## 9. Dialogue page

`DialoguePage` EXTENDS `EventStream`: the service publishes by `Emit`, the page receives by
`Deliver` (and what was given up by `GiveUp` and `Deliver`), and nothing more is known of the stream.  A session is what became of each task's
reply: none, a card that waits for its discovery, or a settled one.

| actions | code |
|---|---|
| `StartJob`, `Reply`, `PublishSession`, `EnqueueWatch`, `PublishDone`, `FinishJob`, `JobRaises`, `JobCrashes` | `DialogueTaskService._run` under the ledger |
| `StartDiscovery`, `CompleteDiscovery`, `FailDiscovery` | `DiscoveryService._run_job`: the row of the discovery |
| `FinishDiscovery`, `DiscoveryDies`, `CloseDiscovery` | the end of its durable job, a death or exception after any of its steps, an exhausted close |
| `WatchRead`, `WatchWrite`, `WatchTell`, `WatchEnd`, `WatchCrashes` | `_watch_discovery` with `refresh_recommendation_card` |
| `Submit`, `Answer`, `AnswerLost`, `Receive`, `ReceiveLate` | `sendMessage`, its answer, `handleStreamEvent` |
| `PollStatus`, `PollFetch`, `PollApply` | `armTaskReconciliation` |
| `CardRead`, `CardWrite`, `CardApply` | `reconcileDiscovery` |
| `Reload`, `ReloadApply`, `StreamRefused` | the refresh button, `connectEventStream`, a stream that gave up |

The reads of a poll or a refresh and the use of what they returned are separate actions, so
whatever comes in between makes them stale.

A discovery has two states: its row (`disc`), which `_run_job` writes, and its durable job
(`ledger`), which the worker ends later.  A worker that dies in between leaves a row that says
completed under a job that is run again, and the next attempt writes running over it.

`CardsAreTrue` says that whatever way a session took to the page, what it shows of a task was so: a
card shown pending has a discovery, the songs of one shown filled were found (`found`, a history
variable), one shown failed was tried.  It does not say that a filled card stays so: a refresh
during the second attempt puts it back to pending (section 15).
`TaskEnds` and `PageCatchesUp` say that the page stops waiting and ends up with the reply.

Left out: what `send_message` says, undo, feedback, several sessions; the page cannot leave a
session while it is sending.

## 10. Audio cache

`AudioCache` models `StreamService` for one account.  Every step is one critical section of its
lock or one call outside it; a track is an alias key, a fetch is known by its number, and
every fetch signs its address anew.

| actions | code |
|---|---|
| `Request`, `Lookup`, `Enter`, `Recheck` | `proxy_stream` and `get_audio_info` up to the fetch |
| `Fetched`, `FetchFails`, `Put`, `Finish` | `get_audio_stream`, the store with `_prune_cache_locked`, `_finish_flight` |
| `Opened`, `OpenFails`, `Refused`, `Invalidate` | `_open_audio_upstream` with its one forced refresh |
| `Expire`, `Tick` | the upstream, and time |

`latest` and `dropped` are history variables: the last fetch stored per track, and the fetches
that left the cache.  A forced refresh may join a flight that brings the very address that was
refused; the request then fails, which no document excludes.

Left out: ranges, bytes and their counters, the second address of a stream.

## 11. Signed metadata

`SignedMetadata` models `_cached_metadata_payload` with the two caches that nest: the player's
payloads, whose loader signs its request, and the keys it signs with, known by the rotation
they belong to.

| actions | code |
|---|---|
| `Request`, `Hit`, `Miss` (`Lead`, `Join`) | the lookup, and who loads |
| `LoadKeys`, `Store`, `Settle`, `Pop` | `_get_wbi_keys`, the store, the Future's result and its removal |
| `Accepted`, `Refused`, `RiskControl`, `Fails`, `Rejected`, `Refresh` | the two attempts of `_get_player_info_payload` and `_space_wbi_get` |
| `Rotate`, `Age` | the upstream, and expiry |

`Settle` and `Pop` are two steps, so a request that was refused with the keys of a settled flight
can be given them by it again; `Recovers` says that this does not go on.

Left out: the detail cache (the same mechanism without keys), search, favourites, guest cookies.

## 12. Runs, bounds, and what they show

| run | specification and bounds | shows |
|---|---|---|
| `lanes` | 2 jobs (one retry-safe) in one lane, both may ask for reconciliation, 2 workers, 2 attempts, lease 2 > task limit 1, 2 messages per job, user limit 2, fair | a lane is a FIFO queue, executions included (refinement), the attempt budget, single execution, lease ownership, decisions that stand, and that every job settles or waits for the operator |
| `agent_calls` | 2 calls, one not repeatable, the other repeatable and compensable, 2 executions, 2 attempts, 2 faults | effects once, the model told the truth, unknown outcomes held, the conversation loses and repeats nothing, a completed run has every answer, refinement of `ToolLedger` |
| `agent_settles` | 4 calls of every kind, of which a run makes 2, 1 execution, 2 attempts, 2 faults, fair | approval first, the run ends or waits for a reviewer |
| `agent_cancelled` | 1 call | violation, section 15 |
| `intake` | 2 memories that may be duplicates, 2 events, 2 dream workers, a tool caller, 2 schedules, 2 calls, 1 retention, 1 fault | the checkpoint passes nothing over, the log rebuilds the memories |
| `intake_saved` | 1 memory, 3 calls | violation, section 15 |
| `embed_outbox` | 1 memory, 2 texts, 2 generations, 2 workers, 2 attempts, batches of 2, 3 operations, fair, on a store that the bridge's start left | no stale vector, nothing late published, nothing forgotten or left for a hidden memory, activation complete; every memory gets its vector or its job is given up |
| `orchestration` | a task and one that depends on it, 2 processes, budget 1, 1 review, 1 call of a caller, 1 fault, fair | dependencies first, true records, complete results, verdicts that stay, and that it ends or waits |
| `stream` | 1 task, 3 events, channels of 1, replays of 2, 2 attempts, 2 faults, fair | no gap, the order kept (refinement of `EventStream`), every owed event arrives |
| `page` | 1 task with or without a card, 2 discovery attempts, 1 fault or 1 refresh (both, when the fault is a refused stream), fair | the page shows no card that was not so, stops waiting for its message, and ends up showing the finished reply |
| `audio` | 2 requests, 2 tracks with 2 identities, a cache of 1 entry that lives 1 clock step, 3 fetches, fair | dictionaries and limit, nothing dropped comes back, stores in order, every request ends |
| `signed` | 2 requests for 2 videos or a space, caches of 1 entry, keys rotated twice, fair | one loader, good keys stay, every request ends, refusals end once the keys stand still |

Why the bounds are enough to meet the hazards:

* *Jobs.*  Two jobs are an overtaker and an overtaken one; two workers a stale owner
  and a new one; two attempts a first and a last; two messages a message and its
  duplicate.  As in the code (270 s against 330 s) tasks are killed before their leases
  end.  That a task which outlived its lease would change nothing is left to the proofs
  (`StaleFinishIsHarmless`, `BudgetKept`), which assume nothing of the two.
* *Runs.*  Two executions overlap; a third would only take over from the second as
  the second did from the first.  Each takeover costs a lapse or a crash, so two
  faults allow a takeover and then a crash or timeout of the new owner.  With one
  call the model goes through every status; two are needed for order only.
  Several non-repeatable calls with two executions exceed what TLC finishes
  quickly; there `EffectOnce` and `ApprovedFirst` rest on the proofs.
* *Embeddings.*  Two texts are needed to change and come back.  The run begins with any
  store that bootstrap can leave, every memory present embedded in the first generation, so
  three operations are registration, backfill and activation of a second generation, or
  write, hide and write again.  With
  several memories the steps on different memories touch different rows, except
  batches, retention and coverage, which the proofs cover for any number.
* *Orchestrations.*  Two tasks in a chain are a task and what depends on it; two processes a
  stale owner and a new one.  One fault is a stall, a crash or a timeout at any await, which
  gives a takeover; one call is a cancellation, a resumption or a decision at any
  moment.  One review in all (`MaxWaits`) is enough for a child that waits, is decided
  and is resumed by another process.  The budget of one child is exceeded by the second.
* *Intake.*  Two events let a checkpoint stop between them; two schedules put a job
  back under a running worker, and two workers can write one proposal twice.  A retention
  runs at any moment of these, with a plan that may be old by then.  More than one caller and
  retention are left to the proofs, which hold for any number.
* *Stream.*  With a channel of one and replays of two, the third event overflows the first
  and is cut from the second; two faults are a lost POST and a broken connection.
  The oldest events may be deleted at any moment, the table emptied included.
  A job closed under its POST takes both attempts and one fault more, so it meets one lost POST.
  Its one task is overtaken by itself only, through a job closed under its POST; POSTs of several
  tasks are left to the proofs (`StreamIsKept`, `NothingIsSkipped`), which hold for any number.
* *Page.*  Every event of a task, its watch, its discovery with a second attempt, one fault
  of any kind at any step, and a refresh at any step.  The stream needs no fault to lose
  events: it need not deliver; an event that comes a second time or late counts as a fault.
  `Mixed = FALSE` keeps a fault and a refresh apart, but for a refused stream that is refreshed;
  with both at any step the run takes longer than five minutes, and the proofs about the page
  hold for either value, and for any number of tasks.

* *Audio.*  Two requests are a leader and a waiter, or a request that is refused and one that
  fetches meanwhile; with a cache of one entry the second track pushes the first out.  Three
  fetches are a first, its forced refresh and one that comes late.  More requests than two wait
  just as the second does; the proofs hold for any number.
* *Keys.*  Two rotations let keys be replaced while an answer with the ones before is out, and
  again when they are stored.  A video for each request, or one for both, or a space.

The remaining bounds are `MaxCopies` (the broker drops further copies, which
`LoseMessage` does as well), `MaxFaults` (crashes, stalls, timeouts) and `MaxOps`
(writes and administration).  They stop the state space, not the actors: worker
crashes of the outbox and of the jobs are unbounded.

Deadlock is checked for the jobs, whose clock never stops, and for the two caches, which can always
be asked again.  It is not for the others: a
run or an orchestration that ended or waits has no step left, the outbox, the intake
and the stream are idle once their bounds are used up, the page when all is shown.

The runs use symmetry of workers only where no liveness property is checked.

## 13. Fairness

* *Jobs* (`FairSpec`).  Weak fairness of `Poll` and `Tick`: the dispatcher is a loop
  with a sleep of one second, and time passes.  Strong fairness of publishing
  each row and receiving each job: the publish step of a pass can be cut short by an
  exception and a message can be lost, but not for ever; this is the assumption that the
  broker is eventually reachable.  Weak fairness of ending a task: Celery kills
  it at its hard limit.  Nothing is assumed of callers or the operator, so
  `EverySettles` allows a job to wait for an operator who never comes.
* *Runs.*  Weak fairness of each execution's own steps (awaits have timeouts), of
  `Claim` (a caller resumes a run that can be claimed: the job ledger's retry),
  of `Lapse` without a fault (the lease of a dead owner ends), and of the second
  transaction of a reviewer's request.  The reviewer need not come.
* *Embeddings.*  Weak fairness of one action, that a worker works or a deadline passes:
  while something is due, something is done about it, by whichever worker.
  Crashes and failing heartbeats may go on for ever; the attempt budget makes the
  property hold all the same.
* *Orchestrations.*  Weak fairness of each process, nodes included (its awaits have
  timeouts, and a caller runs what is claimable), and of one action, that a caller goes on
  with what it began or a lease ends.  Nobody has to call or to review.
* *Stream* (`FairGatewaySpec`).  Weak fairness of the gateway's handlers and of the stream's
  steps, among them EventSource's own reconnection.  Nothing need be published.
* *Page.*  Weak fairness of the jobs' workers taken together (the ledger's promise), and of
  the page's own steps taken together: the answer to the POST (fetch ends) and its timers.  Nothing is assumed of the
  stream, the watch or the user.

* *Audio and keys.*  Weak fairness of each request's own steps: threads are scheduled, and every
  call to the upstream has a timeout.  Nobody need ask, and nothing need expire or rotate.

## 14. What is proved

Each proof module EXTENDS its component and TLAPS and holds for every value of
the constants that satisfies the component's named assumption.

`DurableJobs_proof`: `TypeCorrect`, `BudgetKept` (`ExecutionBudget`), `StaleFinishIsHarmless`.
The budget is not inductive: `Finish` writes the status from the attempt number it
was claimed with.  The invariant adds `Tokens`: a row's token is 0 or its
number of attempts, and an execution's token is between 1 and that number.
So an execution that owns the token is the last claim's.

Its second part proves `OneWorkerPerJob`, `ClaimsAreLive`, `LanesInOrder`,
`LanesImplementQueues` (`LanesAreQueues`) and `ResolutionsStand`.  These assume in addition
`RunLimit < LeaseTime` (Celery's hard limit of 270 s against leases of 330 s), and nothing of
the jobs of a lane.  `LiveClaims` is the inductive core: whoever
executes holds a lease with at least `LeaseTime - age` left, so recovery never finds
an expired lease with a task beneath it, so a claim never meets a second worker.
`LaneInOrder` speaks of rows that may be closed while they are executed, so `LaneInv` says that
whatever an earlier row of a lane is, it has left the line for good: a row closed under its last
attempt can only be written by that attempt's worker (`FinishLeft`), which makes it completed,
failed or parked, never queued (`LeftStays`).  For the refinement of `LaneQueue`, `QueueInv` adds
that present rows carry distinct ids (`Numbered`) and that a running row was claimed (`Started`).
`JobStep` lists what a step may do to one job, row and workers together (`Kept`, `Begun`, `Ended`,
`Closed`, `Parked`, `Forsaken`, `Reported`, `Decided`), and `OneMoves` that a step does it to one
job, but for a recovery, which may do it to several running ones.  `LaneSteps` turns each kind into an action of `LaneQueue`, since a running row is the first
of its line (`RunningIsFirst`) and so is a claimable one (`UnblockedIsFirst`); `LineAppend` and
`LineTail` say what joining and leaving make of the order by ids.
`CompletedForGood` (`CompletedIsFinal`): a completed job is not started or overwritten again, as
nobody executes it (`LiveRow`) and a claim refuses it.  Of failed jobs this is false: a row closed
as exhausted may have its last worker still at work.

`AgentRun_proof`: `TypeCorrect`, `EffectsAreBounded` (`EffectOnce`), `ApprovalComesFirst`
(`ApprovedFirst`), `UnknownIsHeld` (`UnknownHeld`).  The argument: attempts are
counted in the journal, `invoked` equals that count, only an execution whose copy of
the record is the stored version (`callAt`) can journal, and its copy then equals
the record.  `RowsOK` says what an execution's place in the tool node tells of its
call (exposed, approved, rejected), `CopiesOK` that a current copy is the journal's
record, `CallsOK` what the journal tells of calls made: their number, their bound,
their approval.  An approval once granted stays, so the steps between `Approve`
and the call carry it.

The conversation is a second invariant, `CInv`: `ResultsAreKnown` (`KnownResult`),
`CallsAreAnswered` (`EveryCallAnswered`), `ConversationOnlyGrows` (`ConversationGrows`) and
`CallsGoInOrder` (`CallsInOrder`: the run implements `ToolLedger`).  `CurrentOK`: a copy of the
checkpoint that is still current (`convAt`) is the stored one, and an execution about to ask, to
conclude or to report has found it so.  `WorksOK`: an execution in the tool node works on a call
that was reached, so it is the head of the pending ones or has its result; what its
place knows of the call (it was refused, it is settled) is true of the journal.  `RecordsOK` ties
each record to the calls made, `ConvOK` the results and pending calls to one another and to
the journal, `EndOK` the answer to the completed run.  None of the four is inductive
without the others: a stale execution may fail the run, compensate or journal, and only the
versions keep it from the conversation.  From `CInv`, the lemma `Effects` reduces every step
to one of three: the conversation and the calls stay, one turn is made, or one call is made.
That call is the head of the pending ones (`AsksAreTold`), or one that may be repeated, was
compensated, and is made again behind its result, which is the ledger's `Again`.  Nothing is
assumed of which tools have compensators.
`CompletionIsFinal` (`CompletedStays`) is the part of `TerminalIsFinal` that the code keeps.  Its
invariant `EndInv`: whoever knows the row of a completed run is at the prepare node or the finish
node, since the checkpoint of such a run is final (`EndOK`), so no other node loads it; and only who
knows the row writes it.  A failed or cancelled run may have an unfinished checkpoint, and a tool
or finish node then parks or completes it: TLC shows both.

`EmbeddingOutbox_proof`: `TypeCorrect`, `NoStaleVector` (`ReadyIsCurrent`), `OneJobAtATime`
(`OneLiveJob`), `BudgetKept` (`AttemptBudget`), `NothingLateIsPublished`
(`PublishedUnderLease`).  The invariant is local to a cell, the vector and
jobs of one memory in one generation (`CellOK`), with `TextsOK`: a memory that exists,
and every record a backfill is to schedule, has a text.  Each action is a map
over cells, so one lemma per operation on a cell serves all actions.

`NoMemoryForgotten` (`Covered`) and `ActivationsAreComplete` (`ActivationIsComplete`) rest on a
second invariant, `CoverInv`, about `Known`, the memories no race touched.  `CellCovered` adds to
the property that the live job of a cell in the active generation is of the memory's present text.
`PlanOK` says that what a backfill has read and what an activation has checked is still so: a write in
between takes its memory out of `Known`, and one at any other time finds nothing planned.
`MismatchOK` carries what a worker found between its comparison and its `Supersede`: a job of
another text is not in the active generation, or no longer the worker's, because the write that
changed the text superseded it and only a claim gives a row to a worker (`NoGrab`).  Without it
a slow worker could close the only job of a memory.

`EventGateway_proof`: `GatewayTypes` (`GatewayTypeOK`), `StreamIsKept` (`StreamKept`: the
gateway implements `EventStream`) and `NothingIsSkipped` (`NoGap`), for any number of tasks,
events, faults and any size of channels and replays.  A step may only move `last` forward, but
for late events, so the invariant has to know the order of what waits for the browser.
`LanesOK`: what is being posted is the head of its lane, or was closed before and is late.
`HandlersOK`: a handler its publisher waits for has a POST that is out, one per event, and a
committed handler's entry is in the log.  `LogOK`: the numbers of a task never fall along the
log, but for late ones, and none is above its lane's head plus one.  `ConnOK`: what is queued or
to be replayed is in the log, `last[t]` is 0 or the number of an event stored at or before the
browser's `cursor`, and `cursor` is not after what was sent, so whatever is sent next has a higher
id and does not fall behind it.

`GapInv` is the other direction.  `Missing` are the stored events the stream owes and has not
given.  None of them is at or before the cursor or what the connection has sent.  Nothing that
will be sent comes before one of them that is not itself to be sent first (`InOrder`), and one
that was broadcast is in the open channel or in the listing (`HeardOffered`).  An event whose
handler has yet to broadcast it may be passed by a later row; the step that does so puts it into
`overtaken`.

Its second part puts the page on that stream: `Page` is `DialoguePage` over the gateway's
`emitted` and `last`, refused when the connection is.  `PageTypes` (`TypeOK`),
`PageShowsTheTruth` (`CardsAreTrue`) and `PageIsNotForgotten` (`WaitingIsWatched`) hold for
any number of tasks, faults, attempts and refreshes, where TLC has one task; `PageAssumption` is
their hypothesis, as an instance gives its assumptions.  `CardsAreTrue` speaks of the page alone and is not inductive:
a view is read, kept, written back and shown by others.  `Held` names every view
somebody holds (the session, a reply, a watch, an event, the page and its reads), and
`ViewsOK` says of each that it tells the truth.  `StatusOK` says the same of a discovery's
status between its reading and the writing of the card, and `JobsOK` ties the row of a discovery to
its durable job and its attempts: a row that says completed is in `found`, also after it was
overwritten.  What is told stays true: a discovery that was queued is never forgotten, `found` and
the attempts only grow (`Progress`).  `WaitingIsWatched` is the safety core of `TaskEnds`: until
somebody clicks refresh, no step leaves a waiting page without an answer to come or a poll.

`MemoryIntake_proof`: `TypeCorrect`, `NoEventIsSkipped` (`NothingSkipped`), `LogRebuildsMemories`
(`ReplayRebuilds`), for any log and any number of workers and tools.  Neither is
inductive.  A worker that lost its job may move the checkpoint to the end of its own report, so
`PlansOK` says of every report, stale or not: each event up to its end is handled, or the
report still holds the proposal for it.  An analyzer passes over an event that some memory
names as a source, so `RecordsOK` says that sources, in the table and in the log, are
handled events.  For the replay, `LastOK` gives a memory the log knows a last entry, and an
append makes the new entry the last of its memory and of no other.  Retention changes
neither sources nor log, only whom `ReplayRebuilds` speaks of.

`AudioCache_proof`: `TypeCorrect`, `CacheIsSound` (`CacheKept`), `SingleFlight` (`OneFlight`),
`DroppedForGood` (`DroppedStaysOut`), `OrderedStores` (`StoredInOrder`), for any number of requests,
tracks and entries.  The core is `LeadersOK`: a call past `Enter` is the one its track's flight
names, so a track has one at a time.  `NumbersOK` and `PutsOK` follow what that leader holds: what it
is about to store is newer than what its track stored last, is in no entry and was never
dropped, and no two leaders hold the same fetch.
`NoDeadlock` (`NobodyWaitsInVain`): a call that waits waits for a flight of its own track, and its
leader goes on.  `FlightsHeld` is the converse of `LeadersOK`: a flight is led by a call in one of
the leading places, for its track; `WaitersHeld`: whoever waits finds its flight there.

`SignedMetadata_proof`: `TypeCorrect`, `LoadedOnce` (`OneLoader`), `GoodKeysAreKept`
(`GoodKeysStay`), for any number of requests, videos, rotations and entries.  A request may hold
two flights at once, its video's and inside it the keys'.  `LeadersOK` says which it holds at each
place, and that a flight names whoever holds it, so a request that takes or gives up a flight
(`FlightStep`) disturbs no other, and the rest only go on with what they hold (`QuietStep`).
`CallsOK` adds that no request has keys newer than the upstream's, and one that is about to
discard some has older ones; `LoadingOK` that nothing is cached while the keys are loaded.
Hence a store replaces nothing, and a refusal discards nothing that is good.  The entries of
the keys' cache are for one account, so there is one at most (`CachesOK`).
`NoDeadlock` (`NobodyWaitsInVain`): whoever waits waits for a Future without an outcome whose
holder goes on, or waits for the keys, and the keys' loader waits for nobody.  So the nested flights
form no circle.  The invariant adds that every flight is held by the request it names
(`FlightsHeld`, the converse of `LeadersOK`), that a request waits only for a flight that is
there and has no outcome (`WaitersOK`), and that one about to be taken off has it (`PopsOK`).

`Orchestration_proof`: `TypeCorrect`, `DependenciesComeFirst` (`DependenciesFirst`),
`NoResultIsInvented` (`RecordsAreTrue`), `OutputsAreComplete` (`CompletedIsComplete`), `VerdictIsFinal`
(`VerdictStays`), for every graph of tasks that has layers.  A completed child stays completed
(`Kept`), so what anybody learnt of a completion remains true however stale its copy of the
record is.  The invariant says where such knowledge is kept: `NodeOK` (a node that carries
"completed" or "replayed" tells the truth, and one that works has its dependencies completed),
`PcOK` (a process that is to write the verdict "completed" has all children completed) and
`OrchOK` (a live lease means a running row with an owner, and a caller's copy of the row is
current only while the row waits).  Hence nothing that can write the row ever meets one that
has ended, which is `VerdictIsFinal`.

Only model-checked: `EverySettles` of jobs, runs and orchestrations,
`EveryMemorySettles`, `EventsArrive`, `EveryRequestEnds`, `EveryCallEnds`, `Recovers`,
`TaskEnds` and `PageCatchesUp`.  The other way round, the type invariants and
`StaleFinishHarmless`, `CompletedIsFinal`, `CompletedStays`, `OneLiveJob`, `OneFlight`,
`WaitingIsWatched` and the two `NobodyWaitsInVain` are proved for all constants and take no run.  Liveness and ENABLED are beyond the prover.

## 15. Where the code and its documents disagree

Two are shown by a run:

1. `TerminalIsFinal` (`agent_cancelled`): the finish node loads a cancelled run,
   finds no lease token, skips the lease test and completes the run.  A completed run is
   safe (`CompletionIsFinal`).
2. `SavedIsVisible` (`intake_saved`): every record has the last sequence 0 and every deletion the
   watermark 1, so a memory that is saved again after a deletion has an active record that
   each read filters out as deleted.

Others follow from the model and are listed as hazards with a note:

* `claim` closes an exhausted row before it looks at its status and lease
  (`durable_jobs.py:125-130`), so a duplicate message fails the row and frees the lane under the
  running last attempt: the next job of the lane is executed beside it.
  `doc/production-reliability-fixes-2026-09-15.md:29` says that such lanes are executed serially.
* `doc/production-reliability-fixes-2026-09-15.md:32` has an interrupted discovery go to
  `needs_reconciliation` and not be replayed; `discovery_service.py:96-103` enqueues it
  `retry_safe`.  An attempt that dies after the row was set to completed is followed by one that
  writes running over it, and a refresh meanwhile puts the filled card back to pending.
* The journal's version does not know the lease, so an execution that lost it and the new
  owner may have one idempotent call out at once.
* A call is marked before its run, and a reviewer who answers in between leaves a run that
  waits for nothing.
* The refresh button on a refused stream clears the poll of the task under way, and the new
  stream starts after the task's last event: the page can wait for ever (`PollForgotten`).
* A repeatable call that was compensated before the run was told of it is made again behind
  its result.
* A backfill cancels the job of a write that came after its read.
* The gateway numbers an event in one step and broadcasts it in another: of two events that are
  posted side by side (of two tasks, or of one whose job was closed under its POST) the later id
  may be sent first, and the earlier event is then skipped.
* An event whose job was closed under its POST may be stored and sent after later ones of its task.
* A dream job whose worker died stays running until somebody schedules it again.
* Retention changes records without a memory log, so a replay of the log takes it back; and for
  the same last sequence 0 it counts a record just written as old as the whole log.

The passing properties are stated so as to hold beside these, each with the exception as narrow as
the code allows: `LanesAreQueues` lets a head be given up under its last try, `CallsInOrder` has
`Again`, `StreamKept` excepts late events, `NoGap` those overtaken, `TaskEnds` a forgotten poll,
`Covered` raced memories; `CardsAreTrue` does not say that a filled card stays filled, and
`EffectOnce` counts attempts and does not mind overlap.

## 16. Not modelled

Section 1 and `PROJECT.json` say what is left out and why.  In the modelled
components: what a dispatched job computes (an outcome class), what a model answers (a
choice of calls or an answer), what a provider returns, texts, prompts, scores,
logging, metrics, and the Qdrant index.  The starvation of the dispatcher behind
hundreds of rows that cannot be claimed (a hazard) needs more rows than TLC can take.

## 17. How to run it

    tlc -workers 2 -config MCDurableJobs_lanes.cfg MCDurableJobs
    tlapm EmbeddingOutbox_proof.tla

The `MC` modules give the constants of the configurations their values.  The slowest
passing runs (`agent_calls`, 2.0 million states; `intake`, 1.6 million; `page`, `audio` and
`stream`, 470 000, 490 000 and 430 000, with liveness; `orchestration`, 380 000) take two to four
minutes; each proof module takes one to four minutes from nothing.
