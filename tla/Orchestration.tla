---------------------------- MODULE Orchestration ----------------------------
(***************************************************************************)
(* One durable orchestration of AgentOrchestrator: a DAG of delegated      *)
(* tasks, each executed by a child run of another agent.  Its row has a    *)
(* version and a lease, a delegation has a version and no lease, LangGraph *)
(* remembers which nodes have returned and which stand at an interrupt.    *)
(* Any process may drive the graph; a caller cancels or resumes it.        *)
(*                                                                         *)
(* As in AgentRun, versions are never used again, so the model keeps who   *)
(* holds a current copy: orchAt, delegAt.  Time is left out: a lease may   *)
(* end when its owner stalls, a timeout may fire at any await.  A child    *)
(* run is AgentRun seen from outside: absent, open (claimable, or under    *)
(* its driver's lease), waiting for a reviewer, or ended.  Every child     *)
(* costs the same: the token budget counts them.                           *)
(*                                                                         *)
(* LangGraph is outside the repository.  The model takes from it that it   *)
(* runs the graph in layers, keeps a node's return or interrupt at once    *)
(* (its saver does so in the background), cancels the other nodes when one *)
(* raises, and answers the next interrupt() of a node that it resumes with *)
(* the value of Command(resume), which may only stand for one interrupt.   *)
(***************************************************************************)
EXTENDS Integers, FiniteSets

CONSTANTS
  Tasks,
  DependsOn,           \* the graph: the tasks a task depends on
  Layer,               \* LangGraph's superstep of a task
  Budget,              \* policy.max_total_tokens, in children
  Workers, NoWorker,   \* processes that drive the graph
  MaxWaits,            \* bound: how often children ask for a review
  MaxCalls,            \* bound: cancellations, resumptions and decisions
  MaxFaults            \* bound: crashes, stalls and timeouts

\* _validate_acyclic, and the edges drive_dag gives to LangGraph.
ASSUME ConstantsAssumption ==
  /\ IsFiniteSet(Tasks) /\ Tasks # {}
  /\ NoWorker \notin Workers /\ "caller" \notin Workers
  /\ DependsOn \in [Tasks -> SUBSET Tasks] /\ Layer \in [Tasks -> Nat]
  /\ \A t \in Tasks : \A d \in DependsOn[t] : Layer[d] < Layer[t]
  /\ \A t \in Tasks : Layer[t] > 0 => \E d \in DependsOn[t] : Layer[d] + 1 = Layer[t]
  /\ Budget \in Nat /\ MaxWaits \in Nat /\ MaxCalls \in Nat /\ MaxFaults \in Nat

VARIABLES
  orch,      \* agent_orchestrations: status, owner of the lease, is it live
  deleg,     \* agent_delegations: status, is the child's id there, its tokens
  child,     \* the child runs' rows
  driver,    \* whose lease a child run is under
  saved,     \* LangGraph: the nodes that have returned
  stopped,   \* LangGraph: the nodes that stand at an interrupt
  pc,        \* where each process is
  node,      \* and each node it executes
  resumed,   \* the nodes of a process whose next interrupt() returns
  token,     \* the processes whose cancellation token is set
  caller,    \* what a cancellation or a resumption has yet to do
  orchAt, delegAt,   \* whose copies are current
  waits, calls, faults

graph == <<saved, stopped>>
children == <<child, driver>>
process == <<pc, node, resumed, token>>
bounds == <<waits, calls, faults>>
vars == <<orch, deleg, children, graph, process, caller, orchAt, delegAt, bounds>>

Ended == {"completed", "failed", "cancelled"}
OrchStatus == {"pending", "running", "waiting"} \cup Ended
DelegStatus == OrchStatus \cup {"absent"}
ChildStatus == {"absent", "open", "waiting"} \cup Ended

\* What a child's event says to its parent: "started" goes on, "again" is busy,
\* lease_lost or timed_out, "replayed" an older completion told again.
Event == {"none", "started", "again", "waiting", "replayed"} \cup Ended
Step == {"stale", "idle", "mark", "announce", "child", "record", "forward", "driving",
         "settle", "report", "failing", "apologise", "quitting", "ended", "interrupted"}
At(step) == [step |-> step, event |-> "none"]
Inactive == {"idle", "ended", "interrupted"}

NoCall == [doing |-> "nothing", todo |-> {}, at |-> {}]

\* The variables hold what the tables, LangGraph and the processes can hold.
TypeOK ==
  /\ orch \in [status : OrchStatus, owner : Workers \cup {NoWorker}, live : BOOLEAN]
  /\ deleg \in [Tasks -> [status : DelegStatus, linked : BOOLEAN, paid : BOOLEAN]]
  /\ child \in [Tasks -> ChildStatus]
  /\ driver \in [Tasks -> Workers \cup {NoWorker}]
  /\ saved \subseteq Tasks /\ stopped \subseteq Tasks
  /\ pc \in [Workers -> {"out", "begin", "prepare", "recover", "drive", "completed",
                         "failed", "cancelled", "park", "lost", "timeout", "error"}]
  /\ node \in [Workers -> [Tasks -> [step : Step, event : Event]]]
  /\ resumed \in [Workers -> SUBSET Tasks] /\ token \subseteq Workers
  /\ caller \in [doing : {"nothing", "list", "cancel", "mark", "resume"},
                  todo : SUBSET Tasks, at : SUBSET Tasks]
  /\ orchAt \subseteq Workers \cup {"caller"}
  /\ delegAt \subseteq (Workers \cup {"caller"}) \X Tasks
  /\ waits \in 0..MaxWaits /\ calls \in 0..MaxCalls /\ faults \in 0..MaxFaults

Init ==
  /\ orch = [status |-> "pending", owner |-> NoWorker, live |-> FALSE]
  /\ deleg = [t \in Tasks |-> [status |-> "absent", linked |-> FALSE, paid |-> FALSE]]
  /\ child = [t \in Tasks |-> "absent"] /\ driver = [t \in Tasks |-> NoWorker]
  /\ saved = {} /\ stopped = {}
  /\ pc = [w \in Workers |-> "out"]
  /\ node = [w \in Workers |-> [t \in Tasks |-> At("idle")]]
  /\ resumed = [w \in Workers |-> {}] /\ token = {}
  /\ caller = NoCall
  /\ orchAt = {} /\ delegAt = {}
  /\ waits = 0 /\ calls = 0 /\ faults = 0

-----------------------------------------------------------------------------
(* Writes of the store, and what they do to the copies. *)

\* _next_run_version: only a running row keeps its lease.
Stored(status) ==
  IF status = "running" THEN orch
  ELSE [status |-> status, owner |-> NoWorker, live |-> FALSE]

MayWriteToken(w) == orch.owner \in {w, NoWorker}  \* mutant: the token alone, where there is one

\* update_run's tests for a process that has claimed: version, token, lease.
MayWrite(w) == w \in orchAt /\ orch.live

\* _update_run: the row moves on under the version and the lease, or the copy
\* is stale and a conflict is raised.
Stores(w, status) == MayWrite(w) /\ orch' = Stored(status) /\ orchAt' = {w}
Conflicts(w) == ~MayWrite(w) /\ UNCHANGED <<orch, orchAt>>

Holds(a, t) == <<a, t>> \in delegAt
Others(t) == {x \in delegAt : x[2] # t}

\* update_delegation with a copy that is current: no lease is tested.
Records(a, t, row) ==
  /\ Holds(a, t)
  /\ deleg' = [deleg EXCEPT ![t] = row]
  /\ delegAt' = Others(t) \cup {<<a, t>>}

Status(t, s) == [deleg[t] EXCEPT !.status = s]

\* A node keeps its child's event for as long as it has to pass it on.
Carrying == {"record", "forward", "driving", "settle", "report"}
Goto(w, t, step) ==
  node' = [node EXCEPT ![w][t] = [step |-> step,
                                 event |-> IF step \in Carrying THEN @.event ELSE "none"]]

\* The execution is over; whoever comes next loads everything again.
Leave(w) ==
  /\ pc' = [pc EXCEPT ![w] = "out"]
  /\ node' = [node EXCEPT ![w] = [t \in Tasks |-> At("idle")]]
  /\ resumed' = [resumed EXCEPT ![w] = {}] /\ token' = token \ {w}
  /\ delegAt' = {x \in delegAt : x[1] # w}

\* An exception out of the graph: LangGraph cancels the nodes that still run.
Abort(w, why) == pc' = [pc EXCEPT ![w] = why]

-----------------------------------------------------------------------------
(* An execution: claim, prepare, drive, finish or park. *)

ClaimablePending == orch.status = "pending"  \* mutant: a running row is somebody's
Claimable == orch.status = "pending" \/ (orch.status = "running" /\ ~orch.live)

\* claim_run.
Claim(w) ==
  /\ pc[w] = "out" /\ Claimable
  /\ orch' = [status |-> "running", owner |-> w, live |-> TRUE]
  /\ orchAt' = {w}
  /\ pc' = [pc EXCEPT ![w] = "begin"]
  /\ UNCHANGED <<deleg, children, graph, node, resumed, token, caller, delegAt, bounds>>

\* _execute_existing publishes orchestration.started.
Begin(w) ==
  /\ pc[w] = "begin"
  /\ \/ Stores(w, "running") /\ Abort(w, "prepare")
     \/ Conflicts(w) /\ Abort(w, "lost")
  /\ UNCHANGED <<deleg, children, graph, node, resumed, token, caller, delegAt, bounds>>

\* _ensure_delegations, and the list that _recover_stale_delegations reads.
Prepare(w) ==
  /\ pc[w] = "prepare"
  /\ deleg' = [t \in Tasks |-> IF deleg[t].status = "absent" THEN Status(t, "pending") ELSE deleg[t]]
  /\ LET stale == {t \in Tasks : deleg[t].status = "running"}
     IN /\ node' = [node EXCEPT ![w] = [t \in Tasks |-> At(IF t \in stale THEN "stale" ELSE "idle")]]
        /\ delegAt' = delegAt \cup ({w} \X stale)
  /\ Abort(w, "recover")
  /\ UNCHANGED <<orch, children, graph, resumed, token, caller, orchAt, bounds>>

Recover(w, t) ==
  /\ pc[w] = "recover" /\ node[w][t].step = "stale"
  /\ \/ /\ Records(w, t, Status(t, "pending"))
        /\ Goto(w, t, "idle") /\ UNCHANGED pc
     \/ /\ ~Holds(w, t) /\ Abort(w, "lost")
        /\ Goto(w, t, "idle") /\ UNCHANGED <<deleg, delegAt>>
  /\ UNCHANGED <<orch, children, graph, resumed, token, caller, orchAt, bounds>>

\* drive_dag loads LangGraph's snapshot.  One resume value cannot answer two
\* interrupts: LangGraph raises.
Load(w) ==
  /\ pc[w] = "recover" /\ \A t \in Tasks : node[w][t].step # "stale"
  /\ node' = [node EXCEPT ![w] = [t \in Tasks |-> At(IF t \in saved THEN "ended" ELSE "idle")]]
  /\ resumed' = [resumed EXCEPT ![w] = stopped]
  /\ delegAt' = {x \in delegAt : x[1] # w}
  /\ Abort(w, IF Cardinality(stopped) > 1 THEN "error" ELSE "drive")
  /\ UNCHANGED <<orch, deleg, children, graph, token, caller, orchAt, bounds>>

\* LangGraph starts a layer when the layers below have returned.
Ready(w, t) == \A u \in Tasks : Layer[u] < Layer[t] => node[w][u].step = "ended"
Settled(w) == \A t \in Tasks : node[w][t].step \in Inactive
Stuck(w) == \A t \in Tasks : node[w][t].step = "idle" => ~Ready(w, t)

OverBudget == Cardinality({t \in Tasks : deleg[t].paid}) > Budget
AllRecorded(s) == \A t \in Tasks : deleg[t].status = s
SomeRecorded(s) == \E t \in Tasks : deleg[t].status = s

VerdictWithoutCheck ==  \* mutant: what has not failed has completed
  IF SomeRecorded("cancelled") THEN "cancelled"
  ELSE IF SomeRecorded("failed") \/ OverBudget THEN "failed" ELSE "completed"

\* finish: what the records say of the orchestration.
Verdict ==
  IF SomeRecorded("cancelled") THEN "cancelled"
  ELSE IF SomeRecorded("failed") \/ OverBudget THEN "failed"
  ELSE IF AllRecorded("completed") THEN "completed"
  ELSE "error"   \* Incomplete graph without an interrupt or terminal failure

\* finish reads the records; drive_dag reads the snapshot after the last layer.
Finish(w) ==
  /\ pc[w] = "drive" /\ Settled(w) /\ Stuck(w)
  /\ Abort(w, IF \A t \in Tasks : node[w][t].step = "ended" THEN Verdict
              ELSE IF stopped # {} THEN "park" ELSE "lost")
  /\ UNCHANGED <<orch, deleg, children, graph, node, resumed, token, caller,
                 orchAt, delegAt, bounds>>

\* How an execution ends: the last write of the row, under its lease.  A
\* conflict ends it without a trace; lease_lost and cancelled write nothing.
Written == [completed |-> "completed", failed |-> "failed", cancelled |-> "cancelled",
            park |-> "waiting", timeout |-> "pending", error |-> "failed"]
Conclude(w) ==
  /\ pc[w] \in DOMAIN Written \cup {"lost"} /\ Settled(w)
  /\ \/ pc[w] \in DOMAIN Written /\ MayWrite(w) /\ orch' = Stored(Written[pc[w]]) /\ orchAt' = {}
     \/ (pc[w] = "lost" \/ ~MayWrite(w)) /\ orchAt' = orchAt \ {w} /\ UNCHANGED orch
  /\ Leave(w)
  /\ UNCHANGED <<deleg, children, graph, caller, bounds>>

-----------------------------------------------------------------------------
(* A node of the graph: make_node and _execute_node. *)

Driving(w, t, step) == pc[w] = "drive" /\ node[w][t].step = step

\* The node returns, and LangGraph never runs it again.
Return(w, t) ==
  /\ saved' = saved \cup {t} /\ stopped' = stopped \ {t}
  /\ Goto(w, t, "ended")

\* A node whose outcome is WAITING calls interrupt(), which raises, or returns
\* at once in a node that LangGraph resumes.
Outcome(w, t, s) ==
  IF s = "waiting" /\ t \notin resumed[w]
  THEN stopped' = stopped \cup {t} /\ Goto(w, t, "interrupted") /\ UNCHANGED <<saved, resumed>>
  ELSE Return(w, t) /\ resumed' = [resumed EXCEPT ![w] = @ \ {t}]

SkipsDone(t) == deleg[t].status = "completed" \/ OverBudget  \* mutant: dependencies have returned, so go on

\* A node passes without work: done before, or something before it has failed.
Skips(t) ==
  \/ deleg[t].status = "completed" \/ OverBudget
  \/ \E d \in DependsOn[t] : deleg[d].status # "completed"

\* The node tests the token, reads the records and keeps its own.
Enter(w, t) ==
  /\ Driving(w, t, "idle") /\ Ready(w, t)
  /\ \/ w \in token /\ Abort(w, "lost") /\ UNCHANGED <<graph, node, delegAt>>
     \/ w \notin token /\ Skips(t) /\ Return(w, t) /\ UNCHANGED <<pc, delegAt>>
     \/ /\ w \notin token /\ ~Skips(t) /\ Goto(w, t, "mark")
        /\ delegAt' = delegAt \cup {<<w, t>>} /\ UNCHANGED <<graph, pc>>
  /\ UNCHANGED <<orch, deleg, children, resumed, token, caller, orchAt, bounds>>

\* A step that writes the record, or fails on a conflict.
NodeRecords(w, t, row, next) ==
  /\ \/ Records(w, t, row) /\ Goto(w, t, next)
     \/ ~Holds(w, t) /\ Goto(w, t, "failing") /\ UNCHANGED <<deleg, delegAt>>
  /\ UNCHANGED <<orch, children, graph, pc, resumed, token, caller, orchAt, bounds>>

\* A step that publishes an event, or fails on a conflict.
NodePublishes(w, t, nexts) ==
  /\ \/ Stores(w, "running") /\ \E s \in nexts : Goto(w, t, s)
     \/ Conflicts(w) /\ Goto(w, t, "failing")
  /\ UNCHANGED <<deleg, children, graph, pc, resumed, token, caller, delegAt, bounds>>

Mark(w, t) == Driving(w, t, "mark") /\ NodeRecords(w, t, Status(t, "running"), "announce")

\* delegation.started; then _child_request, whose dependency outputs may be too long.
Announce(w, t) ==
  /\ Driving(w, t, "announce")
  /\ NodePublishes(w, t, {"child"} \cup (IF DependsOn[t] = {} THEN {} ELSE {"failing"}))

\* BusinessAgentRuntime.run: claims, replays, or is busy.
ChildClaimable(t) == child[t] \in {"absent", "open"} /\ driver[t] = NoWorker

FirstEventOfEnded(t) ==  \* mutant: every run that has ended replays a completion
  IF child[t] \in Ended THEN "replayed" ELSE IF child[t] = "waiting" THEN "waiting"
  ELSE IF ChildClaimable(t) THEN "started" ELSE "again"

FirstEvent(t) ==
  IF child[t] = "completed" THEN "replayed"
  ELSE IF child[t] \in {"failed", "cancelled", "waiting"} THEN child[t]
  ELSE IF ChildClaimable(t) THEN "started" ELSE "again"

Call(w, t) ==
  /\ Driving(w, t, "child")
  /\ \/ w \in token /\ Goto(w, t, "quitting") /\ UNCHANGED children
     \/ /\ w \notin token
        /\ node' = [node EXCEPT ![w][t] =
                     [step |-> IF deleg[t].linked THEN "forward" ELSE "record", event |-> FirstEvent(t)]]
        /\ IF FirstEvent(t) = "started"
           THEN child' = [child EXCEPT ![t] = "open"] /\ driver' = [driver EXCEPT ![t] = w]
           ELSE UNCHANGED children
  /\ UNCHANGED <<orch, deleg, graph, pc, resumed, token, caller, orchAt, delegAt, bounds>>

\* The child's id, at its first event ever.
Record(w, t) ==
  /\ Driving(w, t, "record")
  /\ NodeRecords(w, t, [deleg[t] EXCEPT !.status = "running", !.linked = TRUE], "forward")

\* delegation.child_event, and what follows it.
After(event) ==
  CASE event = "started" -> "driving" [] event = "again" -> "child" [] OTHER -> "settle"
Forward(w, t) ==
  Driving(w, t, "forward") /\ NodePublishes(w, t, {After(node[w][t].event)})

\* The child run goes on in this process until it ends, waits, was cancelled, or
\* is given up because its lease or this process's token is gone.
Tell(w, t, event) ==
  /\ node' = [node EXCEPT ![w][t] = [step |-> "forward", event |-> event]]
  /\ UNCHANGED <<orch, deleg, graph, pc, resumed, token, caller, orchAt, delegAt, calls, faults>>

ChildStops(w, t) ==
  /\ Driving(w, t, "driving") /\ child[t] = "open" /\ driver[t] = w
  /\ \E s \in {"completed", "failed", "waiting"} :
       /\ s = "waiting" => waits < MaxWaits
       /\ waits' = IF s = "waiting" THEN waits + 1 ELSE waits
       /\ child' = [child EXCEPT ![t] = s]
       /\ Tell(w, t, s)
  /\ driver' = [driver EXCEPT ![t] = NoWorker]

ChildInterrupted(w, t) ==
  /\ Driving(w, t, "driving")
  /\ \/ child[t] = "cancelled" /\ Tell(w, t, "cancelled")
     \/ child[t] # "cancelled" /\ (driver[t] # w \/ w \in token) /\ Tell(w, t, "again")
  /\ UNCHANGED <<children, waits>>

\* An event of the child on its way cannot be published.
ChildUnheard(w, t) ==
  /\ Driving(w, t, "driving") /\ Conflicts(w) /\ Goto(w, t, "failing")
  /\ UNCHANGED <<deleg, children, graph, pc, resumed, token, caller, delegAt, bounds>>

Told(e) == IF e = "replayed" THEN "completed" ELSE e

\* The record of an outcome.  A replayed completion carries no token counts.
OutcomeRow(t, e) ==
  [Status(t, Told(e)) EXCEPT !.paid = IF Told(e) = "completed" THEN e = "completed" ELSE @]

\* The outcome is recorded, then published; that of a cancelled child is not published.
Settle(w, t) ==
  LET e == node[w][t].event
      row == OutcomeRow(t, e)
  IN /\ Driving(w, t, "settle")
     /\ \/ e # "cancelled" /\ NodeRecords(w, t, row, "report")
        \/ /\ e = "cancelled" /\ Holds(w, t) /\ Return(w, t)
           /\ deleg' = [deleg EXCEPT ![t] = row] /\ delegAt' = Others(t)
           /\ UNCHANGED <<orch, children, pc, resumed, token, caller, orchAt, bounds>>
        \/ /\ e = "cancelled" /\ ~Holds(w, t) /\ Goto(w, t, "failing")
           /\ UNCHANGED <<orch, deleg, children, graph, pc, resumed, token, caller, orchAt,
                          delegAt, bounds>>

Report(w, t) ==
  /\ Driving(w, t, "report")
  /\ \/ /\ Stores(w, "running") /\ Outcome(w, t, node[w][t].event)
        /\ delegAt' = delegAt \ {<<w, t>>}
     \/ Conflicts(w) /\ Goto(w, t, "failing") /\ UNCHANGED <<graph, resumed, delegAt>>
  /\ UNCHANGED <<deleg, children, pc, token, caller, bounds>>

\* except Exception: _best_effort_delegation_status writes FAILED with the copy
\* it has, or takes over what somebody else has written.
Fail(w, t) ==
  /\ Driving(w, t, "failing")
  /\ \/ /\ Holds(w, t)
        /\ deleg' = [deleg EXCEPT ![t].status = "failed"] /\ delegAt' = Others(t)
        /\ node' = [node EXCEPT ![w][t] = [step |-> "apologise", event |-> "failed"]]
     \/ /\ ~Holds(w, t) /\ UNCHANGED <<deleg, delegAt>>
        /\ node' = [node EXCEPT ![w][t] = [step |-> "apologise",
                      event |-> IF deleg[t].status = "waiting" THEN "waiting" ELSE "none"]]
  /\ UNCHANGED <<orch, children, graph, pc, resumed, token, caller, orchAt, bounds>>

\* delegation.failed; a conflict here is raised out of the graph.
Apologise(w, t) ==
  /\ Driving(w, t, "apologise")
  /\ \/ Stores(w, "running") /\ Outcome(w, t, node[w][t].event) /\ UNCHANGED pc
     \/ Conflicts(w) /\ Goto(w, t, "idle") /\ Abort(w, "lost") /\ UNCHANGED <<graph, resumed>>
  /\ UNCHANGED <<deleg, children, token, caller, delegAt, bounds>>

\* _best_effort_delegation_status with CANCELLED: over whatever has not ended.
CancelledRecords(t) ==
  IF deleg[t].status \in Ended THEN UNCHANGED <<deleg, delegAt>>
  ELSE deleg' = [deleg EXCEPT ![t].status = "cancelled"] /\ delegAt' = Others(t)

\* except AgentCancelledError: the node returns, and is done.
Quit(w, t) ==
  /\ Driving(w, t, "quitting")
  /\ CancelledRecords(t) /\ Return(w, t)
  /\ UNCHANGED <<orch, children, pc, resumed, token, caller, orchAt, bounds>>

\* except asyncio.CancelledError: PENDING with the copy it has.  A write that is
\* under way in its thread may win instead.
UnderWay(t, n) ==
  CASE n.step = "mark" -> {Status(t, "running")}
    [] n.step = "record" -> {[deleg[t] EXCEPT !.linked = TRUE]}
    [] n.step = "settle" -> {OutcomeRow(t, n.event)}
    [] OTHER -> {}
Release(w, t) ==
  /\ pc[w] \in {"lost", "timeout", "error"} /\ node[w][t].step \notin Inactive
  /\ \/ \E row \in {Status(t, "pending")} \cup UnderWay(t, node[w][t]) : Records(w, t, row)
     \/ ~Holds(w, t) /\ UNCHANGED <<deleg, delegAt>>
  /\ Goto(w, t, "idle")
  /\ UNCHANGED <<orch, children, graph, pc, resumed, token, caller, orchAt, bounds>>

-----------------------------------------------------------------------------
(* Callers, reviewers, time and faults. *)

Called == caller = NoCall /\ calls < MaxCalls /\ calls' = calls + 1

\* cancel: the row, then each delegation that has not ended: its child, its record.
CancelRun ==
  /\ Called
  /\ IF orch.status \in Ended THEN UNCHANGED <<orch, orchAt>>
     ELSE orch' = Stored("cancelled") /\ orchAt' = {}
  /\ caller' = [NoCall EXCEPT !.doing = "list"]
  /\ UNCHANGED <<deleg, children, graph, process, delegAt, waits, faults>>

ListDelegations ==
  /\ caller.doing = "list"
  /\ caller' = [NoCall EXCEPT !.doing = "cancel",
                  !.todo = {t \in Tasks : deleg[t].status \notin Ended \cup {"absent"}}]
  /\ UNCHANGED <<orch, deleg, children, graph, process, orchAt, delegAt, bounds>>

CancelChild(t) ==
  /\ caller.doing = "cancel" /\ t \in caller.todo
  /\ IF child[t] \in Ended \cup {"absent"} THEN UNCHANGED children
     ELSE child' = [child EXCEPT ![t] = "cancelled"] /\ driver' = [driver EXCEPT ![t] = NoWorker]
  /\ caller' = [doing |-> "mark", todo |-> caller.todo \ {t}, at |-> {t}]
  /\ UNCHANGED <<orch, deleg, graph, process, orchAt, delegAt, bounds>>

CancelDelegation(t) ==
  /\ caller.doing = "mark" /\ t \in caller.at
  /\ CancelledRecords(t)
  /\ caller' = [caller EXCEPT !.doing = "cancel", !.at = {}]
  /\ UNCHANGED <<orch, children, graph, process, orchAt, bounds>>

CallEnds ==
  /\ caller.doing = "cancel" /\ caller.todo = {} /\ caller' = NoCall
  /\ UNCHANGED <<orch, deleg, children, graph, process, orchAt, delegAt, bounds>>

\* _prepare_resume reads the row and the records.
Resuming ==
  LET waiting == {t \in Tasks : deleg[t].status = "waiting"}
  IN /\ caller' = [doing |-> "resume", todo |-> waiting, at |-> {}]
     /\ orchAt' = orchAt \cup {"caller"} /\ delegAt' = delegAt \cup ({"caller"} \X waiting)

Resume ==
  /\ Called /\ orch.status = "waiting" /\ Resuming
  /\ UNCHANGED <<orch, deleg, children, graph, process, waits, faults>>

\* decide_approval or reconcile_tool_call: the child goes on, and so does an
\* orchestration that was waiting when it was looked at.
Decide(t) ==
  /\ Called /\ child[t] = "waiting" /\ deleg[t].linked
  /\ child' = [child EXCEPT ![t] = "open"]
  /\ IF orch.status = "waiting" THEN Resuming ELSE UNCHANGED <<caller, orchAt, delegAt>>
  /\ UNCHANGED <<orch, deleg, driver, graph, process, waits, faults>>

CallerGone ==
  /\ caller' = NoCall /\ orchAt' = orchAt \ {"caller"}
  /\ delegAt' = {x \in delegAt : x[1] # "caller"}

ResumeDelegation(t) ==
  /\ caller.doing = "resume" /\ t \in caller.todo
  /\ \/ /\ Records("caller", t, Status(t, "pending"))
        /\ caller' = [caller EXCEPT !.todo = @ \ {t}] /\ UNCHANGED orchAt
     \/ ~Holds("caller", t) /\ CallerGone /\ UNCHANGED deleg
  /\ UNCHANGED <<orch, children, graph, process, bounds>>

ResumeRun ==
  /\ caller.doing = "resume" /\ caller.todo = {}
  /\ IF "caller" \in orchAt
     THEN /\ orch' = Stored("pending") /\ orchAt' = {} /\ caller' = NoCall
          /\ delegAt' = {x \in delegAt : x[1] # "caller"}
     ELSE CallerGone /\ UNCHANGED orch
  /\ UNCHANGED <<deleg, children, graph, process, bounds>>

\* _heartbeat: the lease is not renewed any more.
Alarm(w) ==
  /\ pc[w] # "out" /\ w \notin token /\ ~(orch.owner = w /\ orch.live)
  /\ token' = token \cup {w}
  /\ UNCHANGED <<orch, deleg, children, graph, pc, node, resumed, caller, orchAt, delegAt, bounds>>

\* Leases whose owner is gone end by themselves.
OrchLeaseEnds ==
  /\ orch.live /\ pc[orch.owner] = "out"
  /\ orch' = [orch EXCEPT !.live = FALSE]
  /\ UNCHANGED <<deleg, children, graph, process, caller, orchAt, delegAt, bounds>>
Drives(w, t) ==
  /\ pc[w] = "drive" /\ node[w][t].step \in {"record", "forward", "driving"}
  /\ node[w][t].event = "started"
ChildLeaseEnds(t) ==
  /\ driver[t] # NoWorker /\ ~Drives(driver[t], t)
  /\ driver' = [driver EXCEPT ![t] = NoWorker]
  /\ UNCHANGED <<orch, deleg, child, graph, process, caller, orchAt, delegAt, bounds>>

Fault == faults < MaxFaults /\ faults' = faults + 1

\* The owner of a lease stalls.
StallOrch ==
  /\ Fault /\ orch.live /\ orch' = [orch EXCEPT !.live = FALSE]
  /\ UNCHANGED <<deleg, children, graph, process, caller, orchAt, delegAt, waits, calls>>
StallChild(t) ==
  /\ Fault /\ driver[t] # NoWorker /\ driver' = [driver EXCEPT ![t] = NoWorker]
  /\ UNCHANGED <<orch, deleg, child, graph, process, caller, orchAt, delegAt, waits, calls>>

\* asyncio.timeout around the graph.
Timeout(w) ==
  /\ Fault /\ pc[w] = "drive" /\ Abort(w, "timeout")
  /\ UNCHANGED <<orch, deleg, children, graph, node, resumed, token, caller, orchAt, delegAt, waits, calls>>

Crash(w) ==
  /\ Fault /\ pc[w] # "out" /\ Leave(w) /\ orchAt' = orchAt \ {w}
  /\ UNCHANGED <<orch, deleg, children, graph, caller, waits, calls>>

-----------------------------------------------------------------------------
ExecutionStep(w) ==
  \/ Claim(w) \/ Begin(w) \/ Prepare(w) \/ Load(w) \/ Finish(w) \/ Conclude(w) \/ Alarm(w)
  \/ \E t \in Tasks : Recover(w, t)
NodeStep(w, t) ==
  \/ Enter(w, t) \/ Mark(w, t) \/ Announce(w, t) \/ Call(w, t) \/ Record(w, t) \/ Forward(w, t)
  \/ ChildStops(w, t) \/ ChildInterrupted(w, t) \/ ChildUnheard(w, t)
  \/ Settle(w, t) \/ Report(w, t) \/ Fail(w, t) \/ Apologise(w, t) \/ Quit(w, t) \/ Release(w, t)
ProcessStep(w) ==
  \/ ExecutionStep(w)
  \/ pc[w] \in {"drive", "lost", "timeout", "error"} /\ \E t \in Tasks : NodeStep(w, t)
CallerStep ==
  \/ ListDelegations \/ CallEnds \/ ResumeRun
  \/ \E t \in Tasks : CancelChild(t) \/ CancelDelegation(t) \/ ResumeDelegation(t)
Calls == CancelRun \/ Resume \/ \E t \in Tasks : Decide(t)
Passing == OrchLeaseEnds \/ \E t \in Tasks : ChildLeaseEnds(t)
Faults ==
  \/ StallOrch \/ \E t \in Tasks : StallChild(t)
  \/ \E w \in Workers : Timeout(w) \/ Crash(w)

Next ==
  \/ \E w \in Workers : ProcessStep(w)
  \/ CallerStep \/ Calls \/ Passing \/ Faults

Spec == Init /\ [][Next]_vars

\* A process goes on with what it does, and some process runs what is claimable;
\* leases end.  Nobody has to call, review or fail.
FairSpec ==
  /\ Spec
  /\ \A w \in Workers : WF_vars(ProcessStep(w))
  /\ WF_vars(CallerStep \/ Passing)

-----------------------------------------------------------------------------
(* What the orchestrator promises. *)

\* No child run starts before the children it depends on have completed, however
\* often the graph was resumed, taken over or cancelled.
DependenciesFirst ==
  \A t \in Tasks : child[t] # "absent" => \A d \in DependsOn[t] : child[d] = "completed"

\* A delegation is recorded as completed only when its child has completed: no
\* stale owner, caller or late answer can invent a result.
RecordsAreTrue ==
  \A t \in Tasks : deleg[t].status = "completed" => child[t] = "completed"

\* An orchestration that reports its outputs has them all.
CompletedIsComplete ==
  orch.status = "completed" => \A t \in Tasks : child[t] = "completed"

\* An orchestration that has ended keeps its verdict: no execution that lost its
\* lease, no resumption and no cancellation writes the row again.
VerdictStays == [][orch.status \in Ended => orch'.status = orch.status]_vars

\* It does not stay pending or running: it ends, or waits for a reviewer.
EverySettles == []<>(orch.status \in Ended \cup {"waiting"})
=============================================================================
