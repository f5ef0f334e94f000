------------------------------ MODULE AgentRun ------------------------------
(***************************************************************************)
(* One durable run of BusinessAgentRuntime: its row, checkpoint, tool call *)
(* journal and approvals in the SQLite store, the executions that drive it *)
(* (run or resume, in any process), the reviewer, and the tools' effects.  *)
(*                                                                         *)
(* Every store call is a transaction of its own, so an execution is a      *)
(* sequence of steps with a program counter.  A row carries a version and  *)
(* a write names the version it read; versions are never used again, so    *)
(* the model keeps, instead of numbers, the set of the executions whose    *)
(* copy is the stored version: runAt, convAt, callAt.  A lease token is    *)
(* its owner: an execution that has ended never comes back with its token. *)
(*                                                                         *)
(* Time is left out: a lease may end at any moment (its owner was stalled  *)
(* for longer than the lease, or its renewals failed), a timeout may fire  *)
(* at any await.  Requests carry no output contract, there are no          *)
(* evaluators, and the token, cost and step budgets are one choice: a      *)
(* model step may be refused.  The turn journal only feeds those budgets.  *)
(* LangGraph and the tools are outside the repository.                     *)
(***************************************************************************)
EXTENDS Integers, Sequences, FiniteSets

CONSTANTS
  Calls, NoCall,       \* the tool calls the model may ask for
  Once,                \* calls with side effects that are not idempotent
  Blocking,            \* calls whose handler runs in a thread
  Gated,               \* calls that need an approval
  Unexposed,           \* calls of tools the run may not use
  Compensable,         \* calls of tools with a compensator
  Invalid,             \* calls with arguments that do not fit their schema
  Workers, NoWorker,   \* executions of the run
  MaxAttempts,         \* policy.tool_max_attempts
  MaxCalls,            \* policy.max_tool_calls
  MaxFaults            \* bound: crashes, stalls and timeouts

ASSUME ConstantsAssumption ==
  /\ IsFiniteSet(Calls) /\ NoCall \notin Calls /\ NoWorker \notin Workers
  /\ Once \subseteq Calls /\ Blocking \subseteq Calls /\ Gated \subseteq Calls
  /\ Compensable \subseteq Calls /\ Unexposed \subseteq Calls /\ Invalid \subseteq Calls
  /\ MaxAttempts \in Nat \ {0} /\ MaxCalls \in Nat /\ MaxFaults \in Nat

VARIABLES
  run,        \* agent_runs: status, owner of the lease, is the lease live
  conv,       \* agent_checkpoints
  journal,    \* agent_tool_calls
  approval,   \* agent_approvals, per call
  worker,     \* the executions
  runAt, convAt, callAt,   \* executions whose copy of the row is current
  paused,     \* LangGraph's record: the tool node stands at an interrupt
  reviewer,   \* what decide_approval or reconcile_tool_call has yet to do
  invoked,    \* how often each tool call was really made
  faults      \* crashes, stalls and timeouts so far

store == <<run, conv, journal, approval>>
current == <<runAt, convAt, callAt>>
around == <<paused, reviewer, invoked, faults>>
vars == <<store, worker, current, around>>

Terminal == {"completed", "failed", "cancelled"}
Parked == {"waiting_approval", "needs_reconciliation"}
RunStatus == {"pending", "running"} \cup Parked \cup Terminal
CallStatus == {"absent", "pending", "waiting_approval", "executing", "succeeded",
               "blocked", "failed", "rejected", "reconciliation_required",
               "compensated", "compensation_failed"}
Approval == {"none", "pending", "approved", "rejected"}

Record == [status : CallStatus, att : Nat]
NoRecord == [status |-> "absent", att |-> 0]
Conversation == [saved : BOOLEAN, pending : Seq(Calls), final : BOOLEAN,
                 results : Seq(Calls \X CallStatus)]
Unsaved == [saved |-> FALSE, pending |-> <<>>, final |-> FALSE, results |-> <<>>]

Steps == {"out", "begin", "prepare", "open", "ready",
          "model", "ask", "compacted", "turn", "asking", "answered",
          "tool", "requested", "block", "approve", "request", "wait", "reject",
          "start", "execute", "calling", "unknown", "unwind", "append",
          "appended", "finish", "complete"}
Worker == [pc : Steps, call : Calls \cup {NoCall}, copy : Conversation,
           rec : Record, resumed : BOOLEAN]
Out == [pc |-> "out", call |-> NoCall, copy |-> Unsaved, rec |-> NoRecord,
        resumed |-> FALSE]

\* The variables hold what the tables and the executions can hold.
TypeOK ==
  /\ run \in [status : RunStatus, owner : Workers \cup {NoWorker}, live : BOOLEAN]
  /\ conv \in Conversation
  /\ journal \in [Calls -> Record]
  /\ approval \in [Calls -> Approval]
  /\ worker \in [Workers -> Worker]
  /\ runAt \subseteq Workers /\ convAt \subseteq Workers /\ callAt \subseteq Workers
  /\ paused \in BOOLEAN
  /\ reviewer \in {"idle", "reopen", "release"}
  /\ invoked \in [Calls -> Nat]
  /\ faults \in 0..MaxFaults

Init ==
  /\ run = [status |-> "pending", owner |-> NoWorker, live |-> FALSE]
  /\ conv = Unsaved
  /\ journal = [c \in Calls |-> NoRecord]
  /\ approval = [c \in Calls |-> "none"]
  /\ worker = [w \in Workers |-> Out]
  /\ runAt = {} /\ convAt = {} /\ callAt = {}
  /\ paused = FALSE
  /\ reviewer = "idle"
  /\ invoked = [c \in Calls |-> 0]
  /\ faults = 0

-----------------------------------------------------------------------------
(* The store's compare-and-swap writes. *)

AtStep(w, p) == worker[w].pc = p

\* _next_run_version: only a running row keeps its lease.
Stored(status) ==
  IF status = "running" THEN [run EXCEPT !.status = status]
                        ELSE [status |-> status, owner |-> NoWorker, live |-> FALSE]

\* update_run's tests: the version, and the lease when the copy has a token.
MayWrite(w) == w \in runAt /\ (run.owner # NoWorker => run.live)

\* The execution is over, or its node is: the next one loads everything again.
Leave(w, next) ==
  /\ worker' = [worker EXCEPT ![w] = next]
  /\ runAt' = runAt \ {w} /\ convAt' = convAt \ {w} /\ callAt' = callAt \ {w}

\* AgentLeaseLostError and AgentCancelledError end it without a trace.
Withdraw(w) == Leave(w, Out) /\ UNCHANGED <<store, around>>

\* _update_active_run that only publishes an event: the version moves on.
Fence(w, next) ==
  \/ /\ MayWrite(w)
     /\ runAt' = {w}
     /\ worker' = [worker EXCEPT ![w].pc = next]
     /\ UNCHANGED <<store, convAt, callAt, around>>
  \/ ~MayWrite(w) /\ Withdraw(w)

Entering(node) == [Out EXCEPT !.pc = node]

Route(c) ==
  IF c.final THEN "finish" ELSE IF c.pending # <<>> THEN "tool" ELSE "model"

\* The last _update_active_run of a node; the copy of the checkpoint says where next.
EndNode(w) ==
  \/ /\ MayWrite(w)
     /\ worker' = [worker EXCEPT ![w] = Entering(Route(worker[w].copy))]
     /\ runAt' = {} /\ convAt' = convAt \ {w} /\ callAt' = callAt \ {w}
     /\ paused' = FALSE
     /\ UNCHANGED <<store, reviewer, invoked, faults>>
  \/ ~MayWrite(w) /\ Withdraw(w)

\* _mark_failed, _mark_pending, _mark_reconciliation_required: they load the
\* row again and write with the token they find, whoever holds it.
Mark(w, status) ==
  /\ worker' = [worker EXCEPT ![w] = Out]
  /\ convAt' = convAt \ {w} /\ callAt' = callAt \ {w}
  /\ IF run.status = "running" /\ run.live THEN run' = Stored(status) /\ runAt' = {}
                                           ELSE run' = run /\ runAt' = runAt \ {w}
  /\ UNCHANGED <<conv, journal, approval, paused, reviewer, invoked>>

Fail(w) == Mark(w, "failed") /\ UNCHANGED faults

\* update_tool_call by w on the call it works on; a conflict is not a lost
\* lease to the code: it fails the run.
CallAlwaysCurrent(w) == w = w  \* mutant: the version is not compared
CallCurrent(w) == w \in callAt
CallConflict(w) == ~CallCurrent(w) /\ Fail(w)

Others(c) == {v \in callAt : worker[v].call # c}

Journal(w, record, next) ==
  /\ CallCurrent(w)
  /\ journal' = [journal EXCEPT ![worker[w].call] = record]
  /\ callAt' = Others(worker[w].call) \cup {w}
  /\ worker' = [worker EXCEPT ![w].rec = record, ![w].pc = next]
  /\ UNCHANGED <<run, conv, approval, runAt, convAt, paused, reviewer, faults>>

SetStatus(w, status, next) ==
  \/ Journal(w, [worker[w].rec EXCEPT !.status = status], next) /\ UNCHANGED invoked
  \/ CallConflict(w)

\* save_checkpoint, with the version of the copy.
ConvAlwaysCurrent(w) == w = w  \* mutant: the version is not compared
ConvCurrent(w) == w \in convAt

SaveConv(w, new, next) ==
  \/ /\ ConvCurrent(w)
     /\ conv' = new /\ convAt' = {w}
     /\ worker' = [worker EXCEPT ![w].copy = new, ![w].pc = next]
     /\ UNCHANGED <<run, journal, approval, runAt, callAt, around>>
  \/ ~ConvCurrent(w) /\ Fail(w)

Goto(w, next) ==
  /\ worker' = [worker EXCEPT ![w].pc = next]
  /\ UNCHANGED <<store, current, around>>

\* state(): a node begins by loading the run, with whatever lease it now has,
\* and the checkpoint.  If the run's row moves on between the two reads the
\* next write fails, as it does when the row moves on just after them.
Load(w, next) ==
  /\ runAt' = runAt \cup {w} /\ convAt' = convAt \cup {w}
  /\ worker' = [worker EXCEPT ![w].pc = next, ![w].copy = conv]
  /\ UNCHANGED <<store, callAt, around>>

Reroute(w) == worker' = [worker EXCEPT ![w] = Entering(Route(conv))]
              /\ UNCHANGED <<store, current, around>>

-----------------------------------------------------------------------------
(* Claiming the run, the heartbeat, and the prepare node. *)

ClaimablePending == run.status = "pending"  \* mutant: no takeover
Claimable == run.status = "pending" \/ (run.status = "running" /\ ~run.live)
Claim(w) ==
  /\ AtStep(w, "out")
  /\ Claimable
  /\ run' = [status |-> "running", owner |-> w, live |-> TRUE]
  /\ runAt' = {w}
  /\ worker' = [worker EXCEPT ![w] = [Out EXCEPT !.pc = "begin"]]
  /\ UNCHANGED <<conv, journal, approval, convAt, callAt, around>>

\* LangGraph resumes at the node it last recorded.  The nodes look at the
\* checkpoint again, so that is the prepare node or where the checkpoint leads.
\* A tool node that had paused starts over, and its next interrupt() returns;
\* its pause may not have been recorded.
Begin(w) ==
  /\ AtStep(w, "begin")
  /\ \/ ~MayWrite(w) /\ Withdraw(w)
     \/ /\ MayWrite(w)
        /\ \E node \in {"prepare"} \cup (IF conv.saved THEN {Route(conv)} ELSE {}) :
           \E resumed \in IF node = "tool" THEN {FALSE, paused} ELSE {FALSE} :
             worker' = [worker EXCEPT ![w] = [Out EXCEPT !.pc = node, !.resumed = resumed]]
        /\ runAt' = {}
        /\ UNCHANGED <<store, convAt, callAt, around>>

Prepare(w) == AtStep(w, "prepare") /\ Load(w, IF conv.saved THEN "ready" ELSE "open")

\* The projection of the memory may raise.
Open(w) ==
  /\ AtStep(w, "open")
  /\ SaveConv(w, [Unsaved EXCEPT !.saved = TRUE], "ready") \/ Fail(w)

Ready(w) == AtStep(w, "ready") /\ EndNode(w)

Driving(w) == worker[w].pc \notin {"out", "begin"}

\* _heartbeat: renew_run is refused, and the cancellation token is set, at some
\* time after the lease is lost and for good.  Where the token is looked at the
\* execution may end.
Cancelled(w) ==
  /\ ~(run.status = "running" /\ run.owner = w /\ run.live)
  /\ Withdraw(w)

-----------------------------------------------------------------------------
(* The model node. *)

Model(w) ==
  /\ AtStep(w, "model")
  /\ Cancelled(w) \/ (IF Route(conv) = "model" THEN Load(w, "ask") ELSE Reroute(w))

\* The messages may be compacted, which changes nothing the model keeps but
\* the version.
Compact(w) == AtStep(w, "ask") /\ SaveConv(w, worker[w].copy, "compacted")

Compacted(w) == AtStep(w, "compacted") /\ Fence(w, "turn")

\* The budget refuses the step, or the turn is announced.
Ask(w) ==
  /\ AtStep(w, "ask") \/ AtStep(w, "turn")
  /\ Fail(w) \/ Fence(w, "asking")

Journaled == {c \in Calls : journal[c].status # "absent"}

\* The gateway raises, or it answers for good, or it asks for calls.  Call ids
\* are the model's; it does not use one again that the conversation has seen.
Asked(seen) ==
  {s \in UNION {[1..n -> Calls \ seen] : n \in 1..2} :
     \A i, k \in DOMAIN s : s[i] = s[k] => i = k}

Answer(w) ==
  /\ AtStep(w, "asking")
  /\ LET old == worker[w].copy
         seen == {old.results[i][1] : i \in DOMAIN old.results}
     IN  \/ Cancelled(w)
         \/ Fail(w)
         \/ SaveConv(w, [old EXCEPT !.final = TRUE], "answered")
         \/ \E s \in Asked(seen) :
              \/ /\ Cardinality(Journaled \cup {s[i] : i \in DOMAIN s}) <= MaxCalls
                 /\ SaveConv(w, [old EXCEPT !.pending = s], "answered")
              \/ /\ Cardinality(Journaled \cup {s[i] : i \in DOMAIN s}) > MaxCalls
                 /\ Fail(w)

\* The counters are written; what they now are may be over the budget.
Answered(w) ==
  /\ AtStep(w, "answered")
  /\ EndNode(w) \/ (MayWrite(w) /\ Fail(w))

-----------------------------------------------------------------------------
(* The tool node: the first pending call. *)

LastPending(c) == c.pending[Len(c.pending)]  \* mutant: a stack
NextCall(c) == Head(c.pending)

Tool(w) ==
  /\ AtStep(w, "tool")
  /\ \/ conv.pending = <<>> /\ Reroute(w)
     \/ conv.pending # <<>> /\ Cancelled(w)
     \/ /\ conv.pending # <<>>
        /\ LET c == NextCall(conv)
               rec == IF c \in Journaled THEN journal[c] ELSE [NoRecord EXCEPT !.status = "pending"]
           IN  \/ c \notin Journaled /\ Cardinality(Journaled) >= MaxCalls /\ Fail(w)
               \/ /\ c \in Journaled \/ Cardinality(Journaled) < MaxCalls
                  /\ runAt' = runAt \cup {w} /\ convAt' = convAt \cup {w}
                  /\ callAt' = callAt \cup {w}
                  /\ journal' = [journal EXCEPT ![c] = rec]
                  /\ worker' = [worker EXCEPT ![w] = [@ EXCEPT
                       !.pc = "requested", !.call = c, !.copy = conv, !.rec = rec]]
                  /\ UNCHANGED <<run, conv, approval, around>>

Requested(w) ==
  /\ AtStep(w, "requested")
  /\ Fence(w, IF worker[w].call \in Unexposed THEN "block" ELSE "approve")

Block(w) ==
  /\ AtStep(w, "block")
  /\ IF worker[w].rec.status \in {"blocked", "failed", "rejected"}
       THEN Goto(w, "append") ELSE SetStatus(w, "blocked", "append")

NeedsApprovalUnlessOnce(c) == c \in Gated \ Once  \* mutant: side effects forgotten
NeedsApproval(c) == c \in Gated

\* requires_approval, then what get_approval_for_call returns.
Approve(w) ==
  /\ AtStep(w, "approve")
  /\ LET c == worker[w].call
         waiting == worker[w].rec.status = "waiting_approval"
     IN  CASE ~NeedsApproval(c) -> Goto(w, "start")
           [] NeedsApproval(c) /\ approval[c] = "none" ->
                IF waiting THEN Goto(w, "request") ELSE SetStatus(w, "waiting_approval", "request")
           [] NeedsApproval(c) /\ approval[c] = "pending" -> Goto(w, "wait")
           [] NeedsApproval(c) /\ approval[c] = "rejected" -> Goto(w, "reject")
           [] NeedsApproval(c) /\ approval[c] = "approved" ->
                IF waiting THEN SetStatus(w, "pending", "start") ELSE Goto(w, "start")

\* create_approval returns the row that is there already.
Request(w) ==
  /\ AtStep(w, "request")
  /\ \/ approval[worker[w].call] # "none" /\ Goto(w, "approve")
     \/ /\ approval[worker[w].call] = "none"
        /\ approval' = [approval EXCEPT ![worker[w].call] = "pending"]
        /\ worker' = [worker EXCEPT ![w].pc = "wait"]
        /\ UNCHANGED <<run, conv, journal, current, around>>

\* The run is parked and interrupt() ends the execution, unless a resumed
\* node meets it: then it returns at once and the tool node runs again.
Pause(w, status) ==
  \/ ~MayWrite(w) /\ Withdraw(w)
  \/ /\ MayWrite(w)
     /\ run' = Stored(status)
     /\ runAt' = {} /\ convAt' = convAt \ {w} /\ callAt' = callAt \ {w}
     /\ worker' = [worker EXCEPT ![w] = IF @.resumed THEN Entering("tool") ELSE Out]
     /\ paused' = ~worker[w].resumed
     /\ UNCHANGED <<conv, journal, approval, reviewer, invoked, faults>>

Wait(w) == AtStep(w, "wait") /\ Pause(w, "waiting_approval")

Reject(w) ==
  /\ AtStep(w, "reject")
  /\ IF worker[w].rec.status = "rejected"
       THEN Goto(w, "append") ELSE SetStatus(w, "rejected", "append")

Start(w) == AtStep(w, "start") /\ Fence(w, "execute")

-----------------------------------------------------------------------------
(* ReliableToolRuntime.execute on the copy of the record. *)

AttemptsOf(c) == IF c \in Once THEN 1 ELSE MaxAttempts

\* An attempt is journaled before the tool is called; a death in between
\* counts as a call, as nobody can tell it from one.
Attempt(w) ==
  \/ /\ Journal(w, [status |-> "executing", att |-> worker[w].rec.att + 1], "calling")
     /\ invoked' = [invoked EXCEPT ![worker[w].call] = @ + 1]
  \/ CallConflict(w)

\* An earlier attempt was journaled and nobody saw its end.
NeverUnknown(rec, c) == rec.status = "executing" /\ c \notin Calls  \* mutant
Unobserved(rec, c) == rec.status = "executing" /\ c \in Once

Execute(w) ==
  /\ AtStep(w, "execute")
  /\ LET c == worker[w].call
         rec == worker[w].rec
     IN  CASE rec.status = "succeeded" -> Goto(w, "append")
           [] rec.status = "reconciliation_required" -> Goto(w, "unwind")
           [] rec.status \notin {"succeeded", "reconciliation_required"} ->
                IF c \in Invalid THEN SetStatus(w, "blocked", "append")
                ELSE IF Unobserved(rec, c)
                  THEN SetStatus(w, "reconciliation_required", "unknown")
                ELSE IF rec.att >= AttemptsOf(c) THEN Goto(w, "append")
                ELSE Cancelled(w) \/ Attempt(w)

\* The tool returned and its result is journaled; or it raised, or it ran out
\* of time at an await, or the result could not be journaled.
Return(w) ==
  /\ AtStep(w, "calling")
  /\ LET c == worker[w].call IN
       \/ Journal(w, [worker[w].rec EXCEPT !.status = "succeeded"], "append") /\ UNCHANGED invoked
       \/ c \in Once /\ SetStatus(w, "reconciliation_required", "unknown")
       \/ /\ c \notin Once /\ worker[w].rec.att < AttemptsOf(c)
          /\ Goto(w, "execute")
       \/ /\ c \notin Once /\ worker[w].rec.att >= AttemptsOf(c)
          /\ SetStatus(w, "failed", "append")

\* A handler's thread outlives tool_timeout_seconds: AgentReconciliationRequired.
Outlive(w) ==
  /\ AtStep(w, "calling") /\ worker[w].call \in Blocking
  /\ SetStatus(w, "reconciliation_required", "unwind")

Unknown(w) == AtStep(w, "unknown") /\ Pause(w, "needs_reconciliation")

Unwind(w) ==
  /\ AtStep(w, "unwind")
  /\ Mark(w, "needs_reconciliation") /\ UNCHANGED faults

AppendKept(w) ==  \* mutant: the call stays pending
  /\ AtStep(w, "append")
  /\ SaveConv(w, [worker[w].copy EXCEPT
                    !.results = Append(@, <<worker[w].call, worker[w].rec.status>>)], "appended")

\* _append_tool_result.
AppendResult(w) ==
  /\ AtStep(w, "append")
  /\ LET old == worker[w].copy IN
       SaveConv(w, [old EXCEPT !.pending = Tail(@),
                               !.results = Append(@, <<worker[w].call, worker[w].rec.status>>)],
                "appended")

Appended(w) == AtStep(w, "appended") /\ EndNode(w)

-----------------------------------------------------------------------------
(* The finish node, timeouts, and death. *)

Finish(w) == AtStep(w, "finish") /\ Load(w, "complete")

Complete(w) ==
  /\ AtStep(w, "complete")
  /\ \/ ~MayWrite(w) /\ Withdraw(w)
     \/ /\ MayWrite(w)
        /\ run' = Stored("completed")
        /\ worker' = [worker EXCEPT ![w] = Out]
        /\ runAt' = {} /\ convAt' = convAt \ {w} /\ callAt' = callAt \ {w}
        /\ UNCHANGED <<conv, journal, approval, around>>

Fault == faults < MaxFaults /\ faults' = faults + 1

\* run_timeout_seconds: the run may be resumed only if some call is executing
\* and every such call may be repeated.
TimeOut(w) ==
  /\ Driving(w) /\ Fault
  /\ AtStep(w, "calling") => worker[w].call \notin Once \cup Blocking
  /\ LET executing == {c \in Calls : journal[c].status = "executing"} IN
       Mark(w, IF executing # {} /\ executing \cap Once = {} THEN "pending" ELSE "failed")

\* It interrupts a call that may not be repeated or cannot be stopped.  The
\* record is marked first; whether LangGraph then hands on the tool node's
\* AgentReconciliationRequired (Unwind) or the TimeoutError (TimeOut) is its own affair.
Interrupt(w) ==
  /\ AtStep(w, "calling") /\ worker[w].call \in Once \cup Blocking
  /\ SetStatus(w, "reconciliation_required", "unwind")

Crash(w) ==
  /\ worker[w].pc # "out" /\ Fault
  /\ Leave(w, Out)
  /\ UNCHANGED <<store, paused, reviewer, invoked>>

\* The lease ends: its owner is gone, or stalls for as long as that.
Lapse ==
  /\ run.status = "running" /\ run.live
  /\ IF AtStep(run.owner, "out") THEN UNCHANGED faults ELSE Fault
  /\ run' = [run EXCEPT !.live = FALSE]
  /\ UNCHANGED <<conv, journal, approval, worker, current, paused, reviewer, invoked>>

-----------------------------------------------------------------------------
(* The caller who cancels, the reviewer, and compensation.                 *)
(* decide_approval and reconcile_tool_call make two transactions each.     *)

Cancel ==
  /\ run.status \notin Terminal
  /\ run' = Stored("cancelled") /\ runAt' = {}
  /\ UNCHANGED <<conv, journal, approval, worker, convAt, callAt, around>>

\* A decision that is repeated changes nothing, and the call goes on to Reopen:
\* that is of interest while the run waits.
Decide(c, decision) ==
  /\ reviewer = "idle"
  /\ \/ approval[c] = "pending"
     \/ approval[c] = decision /\ run.status = "waiting_approval"
  /\ approval' = [approval EXCEPT ![c] = decision]
  /\ reviewer' = "reopen"
  /\ UNCHANGED <<run, conv, journal, worker, current, paused, invoked, faults>>

\* The run goes back to pending if it is in the status the request is about.
PutBack(request, status) ==
  /\ reviewer = request
  /\ reviewer' = "idle"
  /\ IF run.status = status THEN run' = Stored("pending") /\ runAt' = {}
                            ELSE UNCHANGED <<run, runAt>>
  /\ UNCHANGED <<conv, journal, approval, worker, convAt, callAt, paused, invoked, faults>>

Reopen == PutBack("reopen", "waiting_approval")

Reconcile(c, status) ==
  /\ reviewer = "idle"
  /\ journal[c].status = "reconciliation_required"
  /\ journal' = [journal EXCEPT ![c].status = status]
  /\ callAt' = Others(c)
  /\ reviewer' = "release"
  /\ UNCHANGED <<run, conv, approval, worker, runAt, convAt, paused, invoked, faults>>

Release == PutBack("release", "needs_reconciliation")

ReviewerDies ==
  /\ reviewer # "idle" /\ Fault
  /\ reviewer' = "idle"
  /\ UNCHANGED <<store, worker, current, paused, invoked>>

\* The compensator runs between a read and this write.
Compensate(c, status) ==
  /\ c \in Compensable /\ journal[c].status = "succeeded"
  /\ journal' = [journal EXCEPT ![c].status = status]
  /\ callAt' = Others(c)
  /\ UNCHANGED <<run, conv, approval, worker, runAt, convAt, around>>

-----------------------------------------------------------------------------
Step(w) ==
  \/ Begin(w) \/ Prepare(w) \/ Open(w) \/ Ready(w)
  \/ Model(w) \/ Compact(w) \/ Compacted(w) \/ Ask(w) \/ Answer(w) \/ Answered(w)
  \/ Tool(w) \/ Requested(w) \/ Block(w) \/ Approve(w) \/ Request(w) \/ Wait(w)
  \/ Reject(w) \/ Start(w) \/ Execute(w) \/ Return(w) \/ Outlive(w) \/ Unknown(w)
  \/ Unwind(w) \/ AppendResult(w) \/ Appended(w) \/ Finish(w) \/ Complete(w)

Review ==
  \/ Reopen \/ Release \/ ReviewerDies
  \/ \E c \in Calls : \/ \E d \in {"approved", "rejected"} : Decide(c, d)
                      \/ \E s \in {"succeeded", "failed"} : Reconcile(c, s)

Next ==
  \/ \E w \in Workers : Claim(w) \/ Step(w) \/ Interrupt(w)
                        \/ TimeOut(w) \/ Crash(w)
  \/ Lapse \/ Cancel \/ Review
  \/ \E c \in Calls : \E s \in {"compensated", "compensation_failed"} : Compensate(c, s)

Spec == Init /\ [][Next]_vars
-----------------------------------------------------------------------------
(* Safety. *)

Told == {conv.results[i] : i \in DOMAIN conv.results}

\* A side effect that may not be repeated happens at most once and any other at
\* most tool_max_attempts times, however often the run is crashed, taken over
\* and resumed (tool_runtime.py: the attempt is journaled before the call).
EffectOnce == \A c \in Calls : invoked[c] <= AttemptsOf(c)

\* A call that needs an approval is made only once the reviewer has approved
\* it, and a tool the run may not use, or with bad arguments, never.
ApprovedFirst ==
  \A c \in Calls : invoked[c] > 0 =>
    /\ c \in Gated => approval[c] = "approved"
    /\ c \notin Unexposed \cup Invalid

\* A call that has succeeded, or whose outcome is unknown, is not made again by any
\* execution, and only the reviewer's answer settles an unknown one.
UnknownHeld ==
  [][\A c \in Calls :
       /\ journal[c].status \in {"succeeded", "reconciliation_required"} => invoked'[c] = invoked[c]
       /\ journal[c].status = "reconciliation_required" /\ journal'[c] # journal[c]
            => reviewer' = "release"]_vars

\* What the model is told of a call that may not be repeated is settled, and agrees
\* with what was done: it succeeded only if it was made, it was refused only if not.
KnownResult ==
  \A t \in Told : t[1] \in Once =>
    /\ t[2] \in {"succeeded", "failed", "blocked", "rejected", "compensated", "compensation_failed"}
    /\ t[2] \in {"succeeded", "compensated", "compensation_failed"} => invoked[t[1]] = 1
    /\ t[2] \in {"rejected", "blocked"} => invoked[t[1]] = 0

\* Executions that overlap do not lose or repeat each other's messages: the
\* conversation only grows, a saved turn is never replaced, a final answer stays.
ConversationGrows ==
  [][/\ conv.saved => conv'.saved
     /\ conv.final => conv' = conv
     /\ conv.pending # <<>> =>
          \/ conv'.pending = conv.pending /\ conv'.results = conv.results
          \/ /\ conv'.pending = Tail(conv.pending)
             /\ SubSeq(conv'.results, 1, Len(conv.results)) = conv.results
     /\ conv.pending = <<>> => conv'.results = conv.results]_vars

\* Every call has one result at most, after the request; and a run that is completed has
\* its answer, given with the result of every call that was ever journaled.
EveryCallAnswered ==
  /\ \A i, k \in DOMAIN conv.results : conv.results[i][1] = conv.results[k][1] => i = k
  /\ \A i \in DOMAIN conv.pending : \A t \in Told : t[1] # conv.pending[i]
  /\ run.status = "completed" =>
       /\ conv.final /\ conv.pending = <<>>
       /\ \A c \in Journaled : \E t \in Told : t[1] = c

\* The run implements the ledger of tool calls: one call at a time, in the order the model
\* asked for them, and none behind its result but one that may be repeated and can be
\* compensated (AgentFunctionTool allows both): an execution that loads the compensated record
\* makes the call again (ReliableToolRuntime.execute), when another may have told its result.
Ledger == INSTANCE ToolLedger WITH
  MayMake <- AttemptsOf,
  Undoable <- Compensable \ Once,
  asked <- [i \in 1..Len(conv.results) |-> conv.results[i][1]] \o conv.pending,
  told <- Len(conv.results),
  made <- invoked,
  closed <- conv.final

CallsInOrder == Ledger!Spec

\* A completed run stays completed, with its answer: no execution that lost its lease and no
\* node that loads the row anew fails, parks or reopens it.  (A failed or cancelled one may be
\* completed or parked: a node that loads it finds no lease to check.)
CompletedStays == [][run.status = "completed" => run'.status = "completed"]_vars

-----------------------------------------------------------------------------
(* What the code or its documents say and the code does not keep. *)

\* models.py: TERMINAL_RUN_STATUSES.  A terminal status stays.
TerminalIsFinal == [][run.status \in Terminal => run'.status = run.status]_vars

-----------------------------------------------------------------------------
(* Liveness: the callers resume a run that can be claimed, its executions   *)
(* get on, and leases of the dead run out.  The reviewer may never come.    *)

FairSpec ==
  /\ Spec
  /\ \A w \in Workers : WF_vars(Step(w)) /\ WF_vars(Claim(w))
  /\ WF_vars(Lapse /\ UNCHANGED faults)
  /\ WF_vars(Reopen \/ Release)

\* Every run settles: it ends, or it waits for the reviewer.
EverySettles == <>[](run.status \in Terminal \cup Parked)
=============================================================================
