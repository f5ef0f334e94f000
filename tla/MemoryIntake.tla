---------------------------- MODULE MemoryIntake ----------------------------
(***************************************************************************)
(* How a user's memories are written: Auto Dream workers that analyse the  *)
(* event log behind a checkpoint, the memory tools an agent calls, the     *)
(* proposals both hand to MemoryService, its audit log, the review queue,  *)
(* the tombstones, the replay and the retention of old memories.  One      *)
(* scope (tenant, user, agent, session), so one dream job and checkpoint.  *)
(*                                                                         *)
(* Every store call is a transaction of its own; apply_proposal looks for  *)
(* the proposal in the audit log first and writes in a second transaction. *)
(* Similarity, confidence and labels are data: what an event says is given *)
(* (Kind, About), which records count as duplicates is given, and whether  *)
(* a text is similar to a memory is a choice.  Time is left out: a failed  *)
(* job is claimable again at any later moment.                             *)
(***************************************************************************)
EXTENDS Integers, Sequences, FiniteSets

CONSTANTS
  Memories, NoMemory,  \* ids: the identity and key of a memory
  Kept, Duplicate,     \* two memories of one identity and key, the better one first
  Last,                \* events have the sequences 1..Last
  Kind, About,         \* what an event says, and of which memory
  Risky,               \* memories whose content needs a review
  Fading,              \* memories below the profile level, which retention archives
  ArchiveAfter, CoolAfter,  \* RetentionPolicy, in sequences of the log
  Requests,            \* tool calls, each with an idempotency key
  Asks, Of,            \* what a tool call asks for, and of which memory
  Workers, Callers,
  MaxAttempts,         \* DreamJob.max_attempts
  MaxSchedules,        \* bound: how often the job is scheduled
  MaxCalls,            \* bound: tool calls, repeated ones included
  MaxFaults,           \* bound: crashes and errors
  MaxCycles            \* bound: runs of the retention

Events == 1..Last
ASSUME ConstantsAssumption ==
  /\ Last \in Nat /\ NoMemory \notin Memories /\ Risky \subseteq Memories
  /\ Fading \subseteq Memories /\ ArchiveAfter \in Nat /\ CoolAfter \in Nat /\ MaxCycles \in Nat
  /\ Kept \in Memories /\ Duplicate \in Memories /\ Kept # Duplicate
  /\ Kind \in [Events -> {"remember", "revise", "forget", "typed", "chat"}]
  /\ About \in [Events -> Memories]
  /\ Asks \in [Requests -> {"save", "revise", "replace", "archive", "delete"}]
  /\ Of \in [Requests -> Memories]
  /\ MaxAttempts \in Nat \ {0} /\ MaxSchedules \in Nat /\ MaxCalls \in Nat /\ MaxFaults \in Nat

VARIABLES
  events,      \* how many events the log holds
  job,         \* dream_jobs
  checkpoint,  \* dream_checkpoints: last_processed_sequence
  mem,         \* memories
  tomb,        \* memory_tombstones
  log,         \* memory_audit_logs
  reviews,     \* memory_proposal_reviews: the proposals' ids
  worker,      \* the dream workers
  caller,      \* the callers of the memory tools
  retention,   \* the plan of the retention command under way
  raced,       \* history: a proposal was written that the log already had
  unlogged,    \* history: memories retention changed after their last entry in the log
  schedules, calls, faults, cycles

tables == <<mem, tomb, log, raced, unlogged>>
queue == <<job, checkpoint>>
keeper == <<retention, cycles>>
bounds == <<schedules, calls, faults>>
vars == <<events, queue, tables, reviews, worker, caller, keeper, bounds>>

Record == [status : {"absent", "active", "archived", "superseded"}, version : Nat,
           sources : SUBSET Events]
Absent == [status |-> "absent", version |-> 0, sources |-> {}]

\* Where a proposal comes from, as its id says: an event, a memory of the pair or a call.
Ids == [from : {"event"}, what : Events, action : {"create", "merge", "supersede", "ignore"},
        target : Memories \cup {NoMemory}]
       \cup [from : {"pair"}, what : Memories, action : {"create", "merge", "ignore"}, target : Memories]
       \cup [from : {"tool"}, what : Requests, action : {"create", "merge", "supersede", "delete"},
             target : Memories]
\* "exp" is the version it was made for (0 for any), "status" what it makes of a record.
Proposal == [id : Ids, of : Memories, exp : Nat, status : {"active", "archived"},
             sources : SUBSET Events]
Nothing == [id |-> "nothing"]

\* A report's proposals: one place for each event, then two for the pair.
Places == 1..(Last + 2)
Report == [Places -> Proposal \cup {Nothing}]
Worker == [pc : {"out", "claimed", "next", "checked", "review"}, attempts : Nat, upto : 0..Last,
           plan : Report]
Out == [pc |-> "out", attempts |-> 0, upto |-> 0, plan |-> [i \in Places |-> Nothing]]

\* A RetentionPlan says what becomes of each memory.
Retention == [Memories -> {"keep", "archive", "cool"}]
NoPlan == [m \in Memories |-> "keep"]

\* The variables hold what the tables and the processes can hold.
TypeOK ==
  /\ events \in 0..Last /\ checkpoint \in 0..events
  /\ job \in [status : {"absent", "pending", "running", "succeeded", "dead_letter"},
              attempts : 0..MaxAttempts]
  /\ mem \in [Memories -> Record] /\ tomb \subseteq Memories
  /\ log \in Seq([id : Ids, of : Memories, after : Record])
  /\ reviews \subseteq Ids
  /\ worker \in [Workers -> Worker]
  /\ caller \in [Callers -> Proposal \cup {Nothing}]
  /\ retention \in Retention /\ cycles \in 0..MaxCycles
  /\ raced \in BOOLEAN /\ unlogged \subseteq Memories
  /\ schedules \in 0..MaxSchedules /\ calls \in 0..MaxCalls /\ faults \in 0..MaxFaults

Init ==
  /\ events = 0 /\ checkpoint = 0
  /\ job = [status |-> "absent", attempts |-> 0]
  /\ mem = [m \in Memories |-> Absent] /\ tomb = {} /\ log = <<>> /\ reviews = {}
  /\ worker = [w \in Workers |-> Out] /\ caller = [c \in Callers |-> Nothing]
  /\ retention = NoPlan /\ cycles = 0 /\ raced = FALSE /\ unlogged = {}
  /\ schedules = 0 /\ calls = 0 /\ faults = 0

-----------------------------------------------------------------------------
(* MemoryService: one transaction that reads, decides and writes. *)

Active(r) == r.status = "active"
Logged(id) == \E i \in DOMAIN log : log[i].id = id

\* MemoryWritePolicy: the version first, then the risk.
Decides(p) ==
  IF mem[p.of] # Absent /\ p.exp # 0 /\ p.exp # mem[p.of].version THEN "conflict"
  ELSE IF p.of \in Risky THEN "needs_review" ELSE "allowed"

\* What a proposal makes of the record: a delete removes it, a supersede needs
\* it, anything else updates it or creates it.
After(p) ==
  CASE p.id.action = "delete" -> Absent
    [] p.id.action = "supersede" ->
         [mem[p.of] EXCEPT !.status = "superseded", !.version = @ + 1]
    [] OTHER -> [status |-> p.status, version |-> mem[p.of].version + 1,
                 sources |-> mem[p.of].sources \cup p.sources]

Answer(p) ==
  IF Decides(p) # "allowed" THEN Decides(p)
  ELSE IF p.id.action \in {"delete", "supersede"} /\ mem[p.of] = Absent THEN "not_found"
  ELSE "succeeded"

LogsBefore(p) ==  \* mutant: the entry shows the record as it was, not as it is written
  log' = IF Logged(p.id) THEN log ELSE Append(log, [id |-> p.id, of |-> p.of, after |-> mem[p.of]])
\* INSERT OR IGNORE: the first entry of a proposal stays.
Logs(p) ==
  log' = IF Logged(p.id) THEN log ELSE Append(log, [id |-> p.id, of |-> p.of, after |-> After(p)])

Apply(p) ==
  IF Answer(p) # "succeeded" THEN UNCHANGED tables
  ELSE /\ mem' = [mem EXCEPT ![p.of] = After(p)]
       /\ tomb' = IF p.id.action = "delete" THEN tomb \cup {p.of} ELSE tomb
       /\ Logs(p)
       /\ raced' = (raced \/ Logged(p.id))
       /\ unlogged' = unlogged \ {p.of}

-----------------------------------------------------------------------------
(* The tools: save_memory, revise_memory, forget_memory. *)

Verb(ask) ==
  CASE ask = "save" -> "create" [] ask = "delete" -> "delete"
    [] ask = "replace" -> "supersede" [] OTHER -> "merge"

Asked(r) ==
  [id |-> [from |-> "tool", what |-> r, action |-> Verb(Asks[r]), target |-> Of[r]],
   of |-> Of[r], exp |-> IF Asks[r] = "save" THEN 0 ELSE mem[Of[r]].version,
   status |-> IF Asks[r] = "archive" THEN "archived" ELSE "active", sources |-> {}]

\* The tool builds its proposal from the record it reads (forget_memory needs
\* one), and apply_proposal looks for it in the audit log.
Ask(c, r) ==
  /\ calls < MaxCalls /\ calls' = calls + 1
  /\ caller[c] = Nothing /\ ~Logged(Asked(r).id)
  /\ Asks[r] \in {"archive", "delete"} => mem[Of[r]] # Absent
  /\ caller' = [caller EXCEPT ![c] = Asked(r)]
  /\ UNCHANGED <<events, queue, tables, reviews, worker, keeper, schedules, faults>>

Write(c) ==
  /\ caller[c] # Nothing
  /\ Apply(caller[c])
  /\ caller' = [caller EXCEPT ![c] = Nothing]
  /\ UNCHANGED <<events, queue, reviews, worker, keeper, bounds>>

-----------------------------------------------------------------------------
(* Auto Dream: the event log, the job, the analysis. *)

\* ingest appends with the next sequence.
Ingest ==
  /\ events < Last /\ events' = events + 1
  /\ UNCHANGED <<queue, tables, reviews, worker, caller, keeper, bounds>>

\* schedule resets whatever the job was doing.
Schedule ==
  /\ schedules < MaxSchedules /\ schedules' = schedules + 1
  /\ job' = [status |-> "pending", attempts |-> 0]
  /\ UNCHANGED <<events, checkpoint, tables, reviews, worker, caller, keeper, calls, faults>>

Claim(w) ==
  /\ worker[w].pc = "out" /\ job.status = "pending"
  /\ job' = [status |-> "running", attempts |-> job.attempts + 1]
  /\ worker' = [worker EXCEPT ![w] = [Out EXCEPT !.pc = "claimed", !.attempts = job.attempts + 1]]
  /\ UNCHANGED <<events, checkpoint, tables, reviews, caller, keeper, bounds>>

\* _proposal: made for the active memory the event is about, if there is one.
EventProposal(e, action) ==
  LET m == About[e]
  IN [id |-> [from |-> "event", what |-> e, action |-> action,
              target |-> IF Active(mem[m]) THEN m ELSE NoMemory],
      of |-> m, exp |-> IF Active(mem[m]) THEN mem[m].version ELSE 0,
      status |-> "active", sources |-> {e}]

\* _message_proposal: the marker in the text, and whether the text is like the memory.
Said(e) ==
  CASE Kind[e] = "remember" -> IF Active(mem[About[e]]) THEN {"merge", "ignore"} ELSE {"create"}
    [] Kind[e] = "revise" -> IF Active(mem[About[e]]) THEN {"supersede"} ELSE {"ignore"}
    [] Kind[e] = "forget" -> {"ignore"}
    [] OTHER -> {}

\* _missing_derivation_proposal: a typed event no memory names as its source.
Missing(e) ==
  IF Kind[e] # "typed" \/ \E m \in Memories : e \in mem[m].sources THEN {}
  ELSE IF Active(mem[About[e]]) THEN {"merge", "supersede", "ignore"} ELSE {"create"}

Proposes(e) == {EventProposal(e, action) : action \in Said(e) \cup Missing(e)}

PairProposal(target, source, action, status) ==
  [id |-> [from |-> "pair", what |-> source, action |-> action, target |-> target],
   of |-> target, exp |-> mem[target].version, status |-> status, sources |-> mem[source].sources]

\* _merge_group: alike, the duplicate is archived; else both stay, or a person decides.
Grouped ==
  IF ~(Active(mem[Kept]) /\ Active(mem[Duplicate])) THEN {<<Nothing, Nothing>>}
  ELSE {<<PairProposal(Kept, Duplicate, "merge", "active"),
          PairProposal(Duplicate, Kept, "merge", "archived")>>,
        <<PairProposal(Duplicate, Kept, "ignore", "active"), Nothing>>,
        <<PairProposal(Duplicate, Kept, "create", "active"), Nothing>>}

AnalysesLater(e) ==  \* mutant: the first event after the checkpoint is left out
  IF e \in (checkpoint + 2)..events /\ Proposes(e) # {} THEN Proposes(e) ELSE {Nothing}
\* What the report may say of an event: only those after the checkpoint count.
Analyses(e) ==
  IF e \in (checkpoint + 1)..events /\ Proposes(e) # {} THEN Proposes(e) ELSE {Nothing}

\* checkpoint_for, list_events, list_records and analyze.
Analyze(w) ==
  /\ worker[w].pc = "claimed"
  /\ \E pair \in Grouped, said \in [Events -> UNION {Analyses(e) : e \in Events}] :
       /\ \A e \in Events : said[e] \in Analyses(e)
       /\ worker' = [worker EXCEPT ![w] =
            [@ EXCEPT !.pc = "next", !.upto = events,
                      !.plan = [i \in Places |-> IF i \in Events THEN said[i] ELSE pair[i - Last]]]]
  /\ UNCHANGED <<events, queue, tables, reviews, caller, keeper, bounds>>

\* The proposals are handled in the report's order: i is the place of the next one.
Todo(w) == {i \in Places : worker[w].plan[i] # Nothing}
NextPlace(w) == {i \in Todo(w) : \A j \in Todo(w) : i <= j}
Onward(w, i) == worker' = [worker EXCEPT ![w] = [@ EXCEPT !.pc = "next", !.plan[i] = Nothing]]

\* A proposal that waits for a person is only reviewed; one the log has is done;
\* any other goes on to its transaction.
Lookup(w) ==
  /\ worker[w].pc = "next"
  /\ \E i \in NextPlace(w) :
       LET p == worker[w].plan[i]
       IN /\ p.id.action # "ignore"
          /\ IF Logged(p.id) THEN Onward(w, i) ELSE worker' = [worker EXCEPT ![w].pc = "checked"]
  /\ UNCHANGED <<events, queue, tables, reviews, caller, keeper, bounds>>

ApplyStep(w) ==
  /\ worker[w].pc = "checked"
  /\ \E i \in NextPlace(w) :
       LET p == worker[w].plan[i]
       IN /\ Apply(p)
          /\ IF Answer(p) = "succeeded" THEN Onward(w, i)
             ELSE worker' = [worker EXCEPT ![w].pc = "review"]
  /\ UNCHANGED <<events, queue, reviews, caller, keeper, bounds>>

\* append_review: pending_review, or what the transaction answered.
Review(w) ==
  /\ worker[w].pc \in {"next", "review"}
  /\ \E i \in NextPlace(w) :
       LET p == worker[w].plan[i]
       IN /\ worker[w].pc = "next" => p.id.action = "ignore"
          /\ reviews' = reviews \cup {p.id}
          /\ Onward(w, i)
  /\ UNCHANGED <<events, queue, tables, caller, keeper, bounds>>

\* complete and fail write the worker's copy of the job, whoever holds it now.
Complete(w) ==
  /\ worker[w].pc = "next" /\ Todo(w) = {}
  /\ job' = [status |-> "succeeded", attempts |-> worker[w].attempts]
  /\ checkpoint' = worker[w].upto
  /\ worker' = [worker EXCEPT ![w] = Out]
  /\ UNCHANGED <<events, tables, reviews, caller, keeper, bounds>>

Fail(w) ==
  /\ faults < MaxFaults /\ faults' = faults + 1
  /\ worker[w].pc # "out"
  /\ job' = [status |-> IF worker[w].attempts < MaxAttempts THEN "pending" ELSE "dead_letter",
             attempts |-> worker[w].attempts]
  /\ worker' = [worker EXCEPT ![w] = Out]
  /\ UNCHANGED <<events, checkpoint, tables, reviews, caller, keeper, schedules, calls>>

\* The process dies; what is running stays so, claim_next takes pending jobs only.
Crash(w) ==
  /\ faults < MaxFaults /\ faults' = faults + 1
  /\ worker[w].pc # "out"
  /\ worker' = [worker EXCEPT ![w] = Out]
  /\ UNCHANGED <<events, queue, tables, reviews, caller, keeper, schedules, calls>>

\* replay_memory_audit: the log's entries, in their order, and the deletes among them.
Entries(m) == {i \in DOMAIN log : log[i].of = m}
Replayed ==
  [m \in Memories |->
     IF Entries(m) = {} THEN Absent
     ELSE log[CHOOSE i \in Entries(m) : \A j \in Entries(m) : j <= i].after]
Deleted == {log[i].of : i \in {j \in DOMAIN log : log[j].id.action = "delete"}}

Replay ==
  /\ mem' = Replayed /\ tomb' = Deleted /\ unlogged' = {}
  /\ UNCHANGED <<events, queue, log, raced, reviews, worker, caller, keeper, bounds>>

-----------------------------------------------------------------------------
(* Retention: the worker's cycle, one transaction, and the command, which      *)
(* plans before the transaction that applies.                                  *)

\* RetentionPlanner.plan: the age of an active record is that of the log, since the
\* last sequence of every record is 0; whether one is hot is a choice.
Expired(m) ==
  IF ~Active(mem[m]) THEN {"keep"}
  ELSE IF m \in Fading /\ events >= ArchiveAfter THEN {"archive"}
  ELSE IF events >= CoolAfter THEN {"keep", "cool"} ELSE {"keep"}
Plans == {p \in Retention : \A m \in Memories : p[m] \in Expired(m)}

\* RetentionExecutor.apply: by id, whatever the record has become; the log of the
\* memories gets no entry.
Touched(p) == {m \in Memories : p[m] # "keep" /\ mem[m] # Absent}
Retains(p) ==
  /\ mem' = [m \in Memories |->
       IF m \notin Touched(p) THEN mem[m]
       ELSE [mem[m] EXCEPT !.version = @ + 1, !.status = IF p[m] = "archive" THEN "archived" ELSE @]]
  /\ unlogged' = unlogged \cup Touched(p)
  /\ UNCHANGED <<tomb, log, raced>>

RunCycle ==
  /\ cycles < MaxCycles /\ cycles' = cycles + 1
  /\ \E p \in Plans : Retains(p)
  /\ UNCHANGED <<events, queue, reviews, worker, caller, retention, bounds>>

PlanRetention ==
  /\ cycles < MaxCycles /\ cycles' = cycles + 1
  /\ retention = NoPlan /\ retention' \in Plans
  /\ UNCHANGED <<events, queue, tables, reviews, worker, caller, bounds>>

ApplyRetention ==
  /\ retention # NoPlan /\ retention' = NoPlan
  /\ Retains(retention)
  /\ UNCHANGED <<events, queue, reviews, worker, caller, cycles, bounds>>

Next ==
  \/ Ingest \/ Schedule \/ Replay \/ RunCycle \/ PlanRetention \/ ApplyRetention
  \/ \E c \in Callers : Write(c) \/ \E r \in Requests : Ask(c, r)
  \/ \E w \in Workers : \/ Claim(w) \/ Analyze(w) \/ Lookup(w) \/ ApplyStep(w) \/ Review(w)
                        \/ Complete(w) \/ Fail(w) \/ Crash(w)

Spec == Init /\ [][Next]_vars

-----------------------------------------------------------------------------
(* Properties. *)

\* An event that says something is never passed over: when the checkpoint is
\* past it, a proposal of its is in the audit log or waits in the reviews,
\* whatever crashed, failed or ran twice in between (AutoDreamWorker.run_once).
Handled(e) ==
  \/ \E i \in DOMAIN log : log[i].id.from = "event" /\ log[i].id.what = e
  \/ \E id \in reviews : id.from = "event" /\ id.what = e
NothingSkipped == \A e \in 1..checkpoint : Kind[e] # "chat" => Handled(e)

\* The audit log rebuilds the memories and the tombstones (replay_memory_audit), but
\* for what retention, which writes no entry, made of a memory since its last one,
\* and unless two writers passed the lookup of one proposal together.
ReplayRebuilds ==
  ~raced => (\A m \in Memories \ unlogged : mem[m] = Replayed[m]) /\ tomb = Deleted

\* _record_is_tombstoned: every record has the last sequence 0 and every tombstone
\* the watermark 1, so a tombstone hides whatever record has its id.
Tombstoned(m) == m \in tomb

\* A memory that was saved after it had been forgotten is shown again
\* (runtime.py: "A tombstone is the authoritative deletion watermark").
SavedIsVisible == \A m \in Memories : Active(mem[m]) => ~Tombstoned(m)
=============================================================================
