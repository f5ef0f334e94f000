------------------------- MODULE Orchestration_proof -------------------------
(***************************************************************************)
(* Proofs about Orchestration, for every graph of tasks, any number of     *)
(* processes, reviews, calls and faults, and every budget.                 *)
(*                                                                         *)
(* The argument: a child run that has completed stays so, and whatever a   *)
(* process or a record says of a completion was true when it was learnt.   *)
(* The row is only written under a live lease, by a claim, or by a caller  *)
(* whose copy was read while it was waiting: none of them can meet a row   *)
(* that has ended.                                                         *)
(***************************************************************************)
EXTENDS Orchestration, TLAPS

Tells == {"completed", "replayed"}
Outcomes == {"completed", "failed", "cancelled", "waiting", "replayed"}
Busy == Step \ (Inactive \cup {"stale"})
Pcs == {"out", "begin", "prepare", "recover", "drive", "completed", "failed", "cancelled",
        "park", "lost", "timeout", "error"}
Orch == [status : OrchStatus, owner : Workers \cup {NoWorker}, live : BOOLEAN]
Row == [status : DelegStatus, linked : BOOLEAN, paid : BOOLEAN]
Actors == Workers \cup {"caller"}

\* A node that works on t, when the children are as in kids.
NodeOK(t, n, kids) ==
  /\ n \in [step : Step, event : Event]
  /\ n.event \in Tells => kids[t] = "completed"
  /\ n.step \in {"record", "forward"} => n.event # "none"
  /\ n.step = "settle" => n.event \in Outcomes
  /\ n.step \in Busy => \A d \in DependsOn[t] : kids[d] = "completed"

OrchOK ==
  /\ orch \in Orch /\ orchAt \subseteq Actors
  /\ orch.live => orch.status = "running" /\ orch.owner \in Workers
  /\ "caller" \in orchAt => orch.status = "waiting"
  /\ CompletedIsComplete

RecordsOK ==
  /\ deleg \in [Tasks -> Row] /\ delegAt \subseteq Actors \X Tasks
  /\ RecordsAreTrue

ChildrenOK ==
  /\ child \in [Tasks -> ChildStatus] /\ driver \in [Tasks -> Workers \cup {NoWorker}]
  /\ DependenciesFirst

NodesOK ==
  /\ node \in [Workers -> [Tasks -> [step : Step, event : Event]]]
  /\ \A w \in Workers, t \in Tasks : NodeOK(t, node[w][t], child)

PcOK ==
  /\ pc \in [Workers -> Pcs]
  /\ \A w \in Workers : pc[w] = "completed" => \A t \in Tasks : child[t] = "completed"

GraphOK == saved \subseteq Tasks /\ stopped \subseteq Tasks
DriveOK == resumed \in [Workers -> SUBSET Tasks] /\ token \subseteq Workers
CallerOK == caller \in [doing : {"nothing", "list", "cancel", "mark", "resume"},
                        todo : SUBSET Tasks, at : SUBSET Tasks]
BoundsOK == waits \in 0..MaxWaits /\ calls \in 0..MaxCalls /\ faults \in 0..MaxFaults

\* The inductive invariant.
IInv ==
  /\ OrchOK /\ RecordsOK /\ ChildrenOK /\ NodesOK /\ PcOK
  /\ GraphOK /\ DriveOK /\ CallerOK /\ BoundsOK

-----------------------------------------------------------------------------
(* Completions stay. *)

Kept == \A t \in Tasks : child[t] = "completed" => child'[t] = "completed"

LEMMA KeptSame ==
  ASSUME child' = child
  PROVE  Kept
  BY DEF Kept

LEMMA Names ==
  /\ "caller" \notin Workers /\ NoWorker \notin Workers
  /\ \A t \in Tasks : DependsOn[t] \subseteq Tasks
  /\ MaxWaits \in Nat /\ MaxCalls \in Nat /\ MaxFaults \in Nat
  BY ConstantsAssumption

-----------------------------------------------------------------------------
(* The row of the orchestration. *)

LEMMA StoredRow ==
  ASSUME OrchOK, NEW s \in OrchStatus
  PROVE  /\ Stored(s) \in Orch
         /\ s # "running" => Stored(s).status = s /\ ~Stored(s).live
         /\ s = "running" => Stored(s) = orch
  BY DEF Stored, Orch, OrchOK

LEMMA OrchSame ==
  ASSUME OrchOK, orch' = orch, Kept, orchAt' \subseteq Actors,
         "caller" \in orchAt' => "caller" \in orchAt
  PROVE  OrchOK'
<1>1. CompletedIsComplete'
  BY DEF OrchOK, CompletedIsComplete, Kept
<1> QED BY <1>1 DEF OrchOK

\* A write that ends the lease, or keeps the row.
LEMMA OrchStored ==
  ASSUME OrchOK, Kept, NEW s \in OrchStatus, orch' = Stored(s),
         orchAt' \subseteq Workers,
         s = "completed" => \A t \in Tasks : child[t] = "completed"
  PROVE  OrchOK'
<1>1. "caller" \notin orchAt' /\ orchAt' \subseteq Actors
  BY Names DEF Actors
<1>2. CASE s = "running"
  <2>1. orch' = orch
    BY <1>2, StoredRow
  <2> QED BY <1>1, <2>1, OrchSame
<1>3. CASE s # "running"
  <2>1. orch' \in Orch /\ orch'.status = s /\ ~orch'.live
    BY <1>3, StoredRow
  <2>2. CompletedIsComplete'
    BY <2>1 DEF CompletedIsComplete, Kept
  <2> QED BY <1>1, <2>1, <2>2 DEF OrchOK
<1> QED BY <1>2, <1>3

LEMMA OrchPublishes ==
  ASSUME OrchOK, Kept, NEW w \in Workers, Stores(w, "running") \/ Conflicts(w)
  PROVE  OrchOK'
<1>1. CASE Stores(w, "running")
  BY <1>1, OrchStored DEF Stores, OrchStatus
<1>2. CASE Conflicts(w)
  <2>1. orch' = orch /\ orchAt' = orchAt /\ orchAt \subseteq Actors
    BY <1>2 DEF Conflicts, OrchOK
  <2> QED BY <2>1, OrchSame
<1> QED BY <1>1, <1>2

-----------------------------------------------------------------------------
(* The records. *)

LEMMA RecordsSame ==
  ASSUME RecordsOK, Kept, deleg' = deleg, delegAt' \subseteq Actors \X Tasks
  PROVE  RecordsOK'
  BY DEF RecordsOK, RecordsAreTrue, Kept

LEMMA RecordsWrite ==
  ASSUME RecordsOK, Kept, NEW t \in Tasks, NEW row \in Row,
         row.status = "completed" => child[t] = "completed",
         deleg' = [deleg EXCEPT ![t] = row], delegAt' \subseteq Actors \X Tasks
  PROVE  RecordsOK'
<1>1. deleg' \in [Tasks -> Row]
  BY DEF RecordsOK
<1>2. ASSUME NEW u \in Tasks, deleg'[u].status = "completed"
      PROVE  child'[u] = "completed"
  <2>1. CASE u = t
    BY <1>2, <2>1 DEF RecordsOK, Kept
  <2>2. CASE u # t
    BY <1>2, <2>2 DEF RecordsOK, RecordsAreTrue, Kept
  <2> QED BY <2>1, <2>2
<1> QED BY <1>1, <1>2 DEF RecordsOK, RecordsAreTrue

LEMMA StatusRow ==
  ASSUME RecordsOK, NEW t \in Tasks, NEW s \in DelegStatus
  PROVE  Status(t, s) \in Row /\ Status(t, s).status = s
  BY DEF RecordsOK, Status, Row

LEMMA OutcomeRows ==
  ASSUME RecordsOK, NEW t \in Tasks, NEW e \in Outcomes
  PROVE  /\ OutcomeRow(t, e) \in Row
         /\ OutcomeRow(t, e).status = "completed" => e \in Tells
<1>1. Told(e) \in DelegStatus /\ (Told(e) = "completed" => e \in Tells)
  BY DEF Told, Outcomes, Tells, DelegStatus, OrchStatus, Ended
<1>2. Status(t, Told(e)) \in Row /\ Status(t, Told(e)).status = Told(e)
  BY <1>1, StatusRow
<1>3. OutcomeRow(t, e) \in Row /\ OutcomeRow(t, e).status = Told(e)
  BY <1>2 DEF OutcomeRow, Row
<1> QED BY <1>1, <1>3

LEMMA OthersTyped ==
  ASSUME RecordsOK, NEW t \in Tasks, NEW a \in Actors
  PROVE  /\ Others(t) \subseteq Actors \X Tasks
         /\ Others(t) \cup {<<a, t>>} \subseteq Actors \X Tasks
         /\ \A b : {x \in delegAt : x[1] # b} \subseteq Actors \X Tasks
  BY DEF RecordsOK, Others

LEMMA RecordsHeld ==
  ASSUME RecordsOK, Kept, NEW t \in Tasks, NEW a \in Actors, NEW row \in Row,
         row.status = "completed" => child[t] = "completed",
         Records(a, t, row)
  PROVE  RecordsOK'
  BY RecordsWrite, OthersTyped DEF Records

LEMMA RecordsCancelled ==
  ASSUME RecordsOK, Kept, NEW t \in Tasks, CancelledRecords(t)
  PROVE  RecordsOK'
<1>1. CASE deleg[t].status \in Ended
  <2>1. deleg' = deleg /\ delegAt' = delegAt
    BY <1>1 DEF CancelledRecords
  <2> QED BY <2>1, RecordsSame DEF RecordsOK
<1>2. CASE deleg[t].status \notin Ended
  <2>1. deleg' = [deleg EXCEPT ![t] = Status(t, "cancelled")] /\ delegAt' = Others(t)
    BY <1>2 DEF CancelledRecords, Status
  <2>2. Status(t, "cancelled") \in Row /\ Status(t, "cancelled").status = "cancelled"
    BY StatusRow DEF DelegStatus, OrchStatus, Ended
  <2>3. Others(t) \subseteq Actors \X Tasks
    BY DEF RecordsOK, Others
  <2> QED BY <2>1, <2>2, <2>3, RecordsWrite
<1> QED BY <1>1, <1>2

-----------------------------------------------------------------------------
(* The children. *)

LEMMA ChildrenSame ==
  ASSUME ChildrenOK, UNCHANGED children
  PROVE  ChildrenOK' /\ Kept
<1>1. child' = child /\ driver' = driver
  BY DEF children
<1>2. DependenciesFirst'
  BY <1>1 DEF ChildrenOK, DependenciesFirst
<1> QED BY <1>1, <1>2, KeptSame DEF ChildrenOK

\* A child changes: one that has not completed, and one only that may have started.
LEMMA ChildSet ==
  ASSUME ChildrenOK, NEW t \in Tasks, NEW s \in ChildStatus \ {"absent"},
         child' = [child EXCEPT ![t] = s], child[t] # "completed",
         driver' \in [Tasks -> Workers \cup {NoWorker}],
         child[t] = "absent" => \A d \in DependsOn[t] : child[d] = "completed"
  PROVE  ChildrenOK' /\ Kept
<1>1. child' \in [Tasks -> ChildStatus]
  BY DEF ChildrenOK
<1>2. Kept
  BY DEF Kept, ChildrenOK
<1>3. ASSUME NEW u \in Tasks, child'[u] # "absent", NEW d \in DependsOn[u]
      PROVE  child'[d] = "completed"
  <2>1. child[d] = "completed"
    <3>1. CASE u = t
      BY <1>3, <3>1 DEF ChildrenOK, DependenciesFirst
    <3>2. CASE u # t
      BY <1>3, <3>2 DEF ChildrenOK, DependenciesFirst
    <3> QED BY <3>1, <3>2
  <2>2. d \in Tasks
    BY Names
  <2> QED BY <1>2, <2>1, <2>2 DEF Kept
<1> QED BY <1>1, <1>2, <1>3 DEF ChildrenOK, DependenciesFirst

-----------------------------------------------------------------------------
(* The nodes. *)

LEMMA NodeKept ==
  ASSUME NEW t \in Tasks, NEW n, NodeOK(t, n, child), Kept
  PROVE  NodeOK(t, n, child')
  BY Names DEF NodeOK, Kept

LEMMA NodesSame ==
  ASSUME NodesOK, node' = node, Kept
  PROVE  NodesOK'
  BY NodeKept DEF NodesOK

LEMMA NodeSet ==
  ASSUME NodesOK, Kept, NEW w \in Workers, NEW t \in Tasks, NEW n,
         node' = [node EXCEPT ![w][t] = n], NodeOK(t, n, child')
  PROVE  NodesOK'
<1>1. n \in [step : Step, event : Event]
  BY DEF NodeOK
<1>2. node' \in [Workers -> [Tasks -> [step : Step, event : Event]]]
  BY <1>1 DEF NodesOK
<1>3. ASSUME NEW v \in Workers, NEW u \in Tasks
      PROVE  NodeOK(u, node'[v][u], child')
  <2>1. CASE v = w /\ u = t
    <3>1. node'[v][u] = n
      BY <2>1 DEF NodesOK
    <3> QED BY <2>1, <3>1
  <2>2. CASE ~(v = w /\ u = t)
    <3>1. node'[v][u] = node[v][u]
      BY <2>2 DEF NodesOK
    <3>2. NodeOK(u, node[v][u], child)
      BY DEF NodesOK
    <3> QED BY <3>1, <3>2, NodeKept
  <2> QED BY <2>1, <2>2
<1> QED BY <1>2, <1>3 DEF NodesOK

\* A node goes on: what it knows stays true, and it works on nothing new.
LEMMA NodeGoes ==
  ASSUME NodesOK, Kept, NEW w \in Workers, NEW t \in Tasks, NEW step \in Step,
         Goto(w, t, step),
         step \in Busy => node[w][t].step \in Busy,
         step \in {"record", "forward"} => node[w][t].event # "none",
         step = "settle" => node[w][t].event \in Outcomes
  PROVE  NodesOK'
<1> DEFINE n == [step |-> step,
                 event |-> IF step \in Carrying THEN node[w][t].event ELSE "none"]
<1>1. node[w][t] \in [step : Step, event : Event] /\ NodeOK(t, node[w][t], child)
  BY DEF NodesOK
<1>2. node' = [node EXCEPT ![w][t] = n]
  BY DEF Goto
<1>3. /\ n.step = step
      /\ n.event \in {node[w][t].event, "none"}
      /\ step \in {"record", "forward", "settle"} => n.event = node[w][t].event
      /\ n \in [step : Step, event : Event]
  BY <1>1 DEF Carrying, Event
<1> HIDE DEF n
<1>4. NodeOK(t, n, child)
  BY <1>1, <1>3 DEF NodeOK, Tells
<1> QED BY <1>2, <1>4, NodeKept, NodeSet

LEMMA IdleNode ==
  ASSUME NEW t \in Tasks, NEW step \in Inactive \cup {"stale"}, NEW kids
  PROVE  NodeOK(t, At(step), kids)
  BY DEF NodeOK, At, Inactive, Busy, Step, Event, Tells

\* All nodes of a process are set anew.
LEMMA NodesReset ==
  ASSUME NodesOK, Kept, NEW w \in Workers, NEW S, S \subseteq Tasks, NEW s1 \in {"stale", "ended"},
         node' = [node EXCEPT ![w] = [t \in Tasks |-> At(IF t \in S THEN s1 ELSE "idle")]]
  PROVE  NodesOK'
<1> DEFINE row == [t \in Tasks |-> At(IF t \in S THEN s1 ELSE "idle")]
<1>1. \A t \in Tasks : NodeOK(t, row[t], child') /\ row[t] \in [step : Step, event : Event]
  <2> SUFFICES ASSUME NEW t \in Tasks
               PROVE  NodeOK(t, row[t], child') /\ row[t] \in [step : Step, event : Event]
    OBVIOUS
  <2>1. PICK s \in Inactive \cup {"stale"} : row[t] = At(s)
    BY DEF Inactive
  <2>2. NodeOK(t, At(s), child')
    BY IdleNode
  <2> QED BY <2>1, <2>2 DEF NodeOK
<1>2. row \in [Tasks -> [step : Step, event : Event]]
  BY <1>1
<1>3. node' = [node EXCEPT ![w] = row]
  OBVIOUS
<1> HIDE DEF row
<1>4. node' \in [Workers -> [Tasks -> [step : Step, event : Event]]]
  BY <1>2, <1>3 DEF NodesOK
<1>5. ASSUME NEW v \in Workers, NEW u \in Tasks
      PROVE  NodeOK(u, node'[v][u], child')
  <2>1. CASE v = w
    <3>1. node'[v] = row
      BY <1>3, <2>1 DEF NodesOK
    <3> QED BY <1>1, <3>1
  <2>2. CASE v # w
    <3>1. node'[v][u] = node[v][u] /\ NodeOK(u, node[v][u], child)
      BY <1>3, <2>2 DEF NodesOK
    <3> QED BY <3>1, NodeKept
  <2> QED BY <2>1, <2>2
<1> QED BY <1>4, <1>5 DEF NodesOK

-----------------------------------------------------------------------------
(* The processes. *)

LEMMA PcSame ==
  ASSUME PcOK, Kept, pc' = pc
  PROVE  PcOK'
  BY DEF PcOK, Kept

LEMMA PcSet ==
  ASSUME PcOK, Kept, NEW w \in Workers, NEW why \in Pcs, pc' = [pc EXCEPT ![w] = why],
         why = "completed" => \A t \in Tasks : child[t] = "completed"
  PROVE  PcOK'
<1>1. pc' \in [Workers -> Pcs]
  BY DEF PcOK
<1>2. ASSUME NEW v \in Workers, pc'[v] = "completed"
      PROVE  \A t \in Tasks : child[t] = "completed"
  <2>1. CASE v = w
    BY <1>2, <2>1 DEF PcOK
  <2>2. CASE v # w
    BY <1>2, <2>2 DEF PcOK
  <2> QED BY <2>1, <2>2
<1> QED BY <1>1, <1>2 DEF PcOK, Kept

\* A process that leaves.
LEMMA Leaves ==
  ASSUME IInv, Kept, NEW w \in Workers, Leave(w), UNCHANGED deleg
  PROVE  NodesOK' /\ PcOK' /\ DriveOK' /\ RecordsOK'
<1>1. PICK S \in SUBSET Tasks : S = {}
  OBVIOUS
<1>2. NodesOK'
  <2>1. [t \in Tasks |-> At(IF t \in S THEN "stale" ELSE "idle")] = [t \in Tasks |-> At("idle")]
    BY <1>1
  <2>2. node' = [node EXCEPT ![w] = [t \in Tasks |-> At(IF t \in S THEN "stale" ELSE "idle")]]
    BY <2>1 DEF Leave
  <2> QED BY <2>2, NodesReset DEF IInv
<1>3. PcOK'
  <2>1. "out" \in Pcs /\ "out" # "completed" /\ pc' = [pc EXCEPT ![w] = "out"]
    BY DEF Leave, Pcs
  <2> QED BY <2>1, PcSet DEF IInv
<1>4. DriveOK'
  BY DEF IInv, DriveOK, Leave
<1>5. RecordsOK'
  BY RecordsSame DEF IInv, Leave, RecordsOK
<1> QED BY <1>2, <1>3, <1>4, <1>5

-----------------------------------------------------------------------------
(* An execution: claim, prepare, drive, finish or park. *)

\* What an execution does between the graph's nodes leaves the rest alone.
LEMMA Aborts ==
  ASSUME PcOK, Kept, NEW w \in Workers,
         NEW why \in Pcs \ {"completed"}, Abort(w, why)
  PROVE  PcOK'
  BY PcSet DEF Abort

LEMMA ClaimStep ==
  ASSUME IInv, NEW w \in Workers, Claim(w)
  PROVE  IInv'
<1>1. ChildrenOK' /\ Kept
  BY ChildrenSame DEF IInv, Claim
<1>2. OrchOK'
  <2>1. orch' = [status |-> "running", owner |-> w, live |-> TRUE] /\ orchAt' = {w}
    BY DEF Claim
  <2>2. orch' \in Orch /\ orchAt' \subseteq Actors
    BY <2>1 DEF Orch, OrchStatus, Actors
  <2>3. CompletedIsComplete'
    BY <2>1 DEF CompletedIsComplete
  <2> QED BY <2>1, <2>2, <2>3, Names DEF OrchOK
<1>3. PcOK'
  BY <1>1, PcSet DEF IInv, Claim, Pcs
<1>4. RecordsOK' /\ NodesOK'
  BY <1>1, RecordsSame, NodesSame DEF IInv, Claim, RecordsOK
<1> QED BY <1>1, <1>2, <1>3, <1>4
        DEF IInv, Claim, GraphOK, DriveOK, CallerOK, BoundsOK, graph, bounds

LEMMA BeginStep ==
  ASSUME IInv, NEW w \in Workers, Begin(w)
  PROVE  IInv'
<1>1. ChildrenOK' /\ Kept
  BY ChildrenSame DEF IInv, Begin
<1>2. OrchOK'
  BY <1>1, OrchPublishes DEF IInv, Begin
<1>3. PcOK'
  <2>1. PICK why \in {"prepare", "lost"} : Abort(w, why)
    BY DEF Begin
  <2> QED BY <1>1, <2>1, Aborts DEF IInv, Pcs
<1>4. RecordsOK' /\ NodesOK'
  BY <1>1, RecordsSame, NodesSame DEF IInv, Begin, RecordsOK
<1> QED BY <1>1, <1>2, <1>3, <1>4
        DEF IInv, Begin, GraphOK, DriveOK, CallerOK, BoundsOK, graph, bounds

LEMMA PrepareStep ==
  ASSUME IInv, NEW w \in Workers, Prepare(w)
  PROVE  IInv'
<1>1. ChildrenOK' /\ Kept
  BY ChildrenSame DEF IInv, Prepare
<1>2. OrchOK'
  BY <1>1, OrchSame DEF IInv, Prepare, OrchOK
<1>3. PcOK'
  BY <1>1, Aborts DEF IInv, Prepare, Pcs
<1> DEFINE stale == {t \in Tasks : deleg[t].status = "running"}
<1>4. NodesOK'
  <2>1. node' = [node EXCEPT ![w] = [t \in Tasks |-> At(IF t \in stale THEN "stale" ELSE "idle")]]
    BY DEF Prepare
  <2>2. stale \subseteq Tasks
    OBVIOUS
  <2> HIDE DEF stale
  <2> QED BY <1>1, <2>1, <2>2, NodesReset DEF IInv
<1>5. RecordsOK'
  <2>1. deleg' = [t \in Tasks |-> IF deleg[t].status = "absent" THEN Status(t, "pending") ELSE deleg[t]]
    BY DEF Prepare
  <2>2. ASSUME NEW t \in Tasks
        PROVE  /\ deleg'[t] \in Row
               /\ deleg'[t].status = "completed" => child'[t] = "completed"
    <3>1. Status(t, "pending") \in Row /\ Status(t, "pending").status = "pending"
      BY StatusRow DEF IInv, DelegStatus, OrchStatus
    <3>2. deleg[t] \in Row /\ (deleg[t].status = "completed" => child[t] = "completed")
      BY DEF IInv, RecordsOK, RecordsAreTrue
    <3>3. deleg'[t] \in {Status(t, "pending"), deleg[t]}
      BY <2>1
    <3> QED BY <1>1, <3>1, <3>2, <3>3 DEF Kept
  <2>3. delegAt' \subseteq Actors \X Tasks
    BY DEF IInv, Prepare, RecordsOK, Actors
  <2> QED BY <2>1, <2>2, <2>3 DEF RecordsOK, RecordsAreTrue
<1> QED BY <1>1, <1>2, <1>3, <1>4, <1>5
        DEF IInv, Prepare, GraphOK, DriveOK, CallerOK, BoundsOK, graph, bounds

LEMMA RecoverStep ==
  ASSUME IInv, NEW w \in Workers, NEW t \in Tasks, Recover(w, t)
  PROVE  IInv'
<1>1. ChildrenOK' /\ Kept
  BY ChildrenSame DEF IInv, Recover
<1>2. OrchOK'
  BY <1>1, OrchSame DEF IInv, Recover, OrchOK
<1>3. PcOK'
  BY <1>1, Aborts, PcSame DEF IInv, Recover, Pcs
<1>4. NodesOK'
  <2>1. Goto(w, t, "idle")
    BY DEF Recover
  <2>2. "idle" \in Step \ Busy
    BY DEF Busy, Step, Inactive
  <2> QED BY <1>1, <2>1, <2>2, NodeGoes DEF IInv
<1>5. RecordsOK'
  <2>1. CASE Records(w, t, Status(t, "pending"))
    <3>1. Status(t, "pending") \in Row /\ Status(t, "pending").status = "pending"
      BY StatusRow DEF IInv, DelegStatus, OrchStatus
    <3> QED BY <1>1, <2>1, <3>1, RecordsHeld DEF IInv, Actors
  <2>2. CASE UNCHANGED <<deleg, delegAt>>
    BY <1>1, <2>2, RecordsSame DEF IInv, RecordsOK
  <2> QED BY <2>1, <2>2 DEF Recover
<1> QED BY <1>1, <1>2, <1>3, <1>4, <1>5
        DEF IInv, Recover, GraphOK, DriveOK, CallerOK, BoundsOK, graph, bounds

LEMMA LoadStep ==
  ASSUME IInv, NEW w \in Workers, Load(w)
  PROVE  IInv'
<1>1. ChildrenOK' /\ Kept
  BY ChildrenSame DEF IInv, Load
<1>2. OrchOK'
  BY <1>1, OrchSame DEF IInv, Load, OrchOK
<1>3. PcOK'
  <2>1. PICK why \in {"error", "drive"} : Abort(w, why)
    BY DEF Load
  <2> QED BY <1>1, <2>1, Aborts DEF IInv, Pcs
<1>4. NodesOK'
  <2>1. node' = [node EXCEPT ![w] = [t \in Tasks |-> At(IF t \in saved THEN "ended" ELSE "idle")]]
    BY DEF Load
  <2> QED BY <1>1, <2>1, NodesReset DEF IInv, GraphOK
<1>5. RecordsOK'
  BY <1>1, RecordsSame DEF IInv, Load, RecordsOK
<1>6. DriveOK'
  BY DEF IInv, Load, DriveOK, GraphOK
<1> QED BY <1>1, <1>2, <1>3, <1>4, <1>5, <1>6
        DEF IInv, Load, GraphOK, CallerOK, BoundsOK, graph, bounds

\* finish reports outputs when every record says completed.
LEMMA FinishStep ==
  ASSUME IInv, NEW w \in Workers, Finish(w)
  PROVE  IInv'
<1>1. ChildrenOK' /\ Kept
  BY ChildrenSame DEF IInv, Finish
<1>2. OrchOK'
  BY <1>1, OrchSame DEF IInv, Finish, OrchOK
<1>3. PcOK'
  <2>1. /\ Verdict \in {"cancelled", "failed", "completed", "error"}
        /\ Verdict = "completed" => \A t \in Tasks : child[t] = "completed"
    BY DEF Verdict, AllRecorded, IInv, RecordsOK, RecordsAreTrue
  <2>2. PICK why \in {Verdict, "park", "lost"} : Abort(w, why)
    BY DEF Finish
  <2>3. why \in Pcs /\ (why = "completed" => \A t \in Tasks : child[t] = "completed")
    BY <2>1, <2>2 DEF Pcs
  <2> QED BY <1>1, <2>2, <2>3, PcSet DEF IInv, Abort
<1>4. RecordsOK' /\ NodesOK'
  BY <1>1, RecordsSame, NodesSame DEF IInv, Finish, RecordsOK
<1> QED BY <1>1, <1>2, <1>3, <1>4
        DEF IInv, Finish, GraphOK, DriveOK, CallerOK, BoundsOK, graph, bounds

LEMMA ConcludeStep ==
  ASSUME IInv, NEW w \in Workers, Conclude(w)
  PROVE  IInv'
<1>1. ChildrenOK' /\ Kept
  BY ChildrenSame DEF IInv, Conclude
<1>2. NodesOK' /\ PcOK' /\ DriveOK' /\ RecordsOK'
  BY <1>1, Leaves DEF IInv, Conclude
<1>3. OrchOK'
  <2>1. CASE /\ pc[w] \in DOMAIN Written /\ orch' = Stored(Written[pc[w]]) /\ orchAt' = {}
    <3>1. /\ Written[pc[w]] \in OrchStatus
          /\ Written[pc[w]] = "completed" => pc[w] = "completed"
      BY <2>1 DEF Written, OrchStatus, Ended
    <3>2. Written[pc[w]] = "completed" => \A t \in Tasks : child[t] = "completed"
      BY <3>1 DEF IInv, PcOK
    <3>3. orchAt' \subseteq Workers
      BY <2>1
    <3> QED BY <1>1, <2>1, <3>1, <3>2, <3>3, OrchStored DEF IInv
  <2>2. CASE orchAt' = orchAt \ {w} /\ UNCHANGED orch
    BY <1>1, <2>2, OrchSame DEF IInv, OrchOK
  <2> QED BY <2>1, <2>2 DEF Conclude
<1> QED BY <1>1, <1>2, <1>3
        DEF IInv, Conclude, GraphOK, CallerOK, BoundsOK, graph, bounds

LEMMA AlarmStep ==
  ASSUME IInv, NEW w \in Workers, Alarm(w)
  PROVE  IInv'
<1>1. ChildrenOK' /\ Kept
  BY ChildrenSame DEF IInv, Alarm
<1>2. OrchOK'
  BY <1>1, OrchSame DEF IInv, Alarm, OrchOK
<1>3. RecordsOK' /\ NodesOK' /\ PcOK'
  BY <1>1, RecordsSame, NodesSame, PcSame DEF IInv, Alarm, RecordsOK
<1> QED BY <1>1, <1>2, <1>3
        DEF IInv, Alarm, GraphOK, DriveOK, CallerOK, BoundsOK, graph, bounds

-----------------------------------------------------------------------------
(* The nodes of the graph. *)

LEMMA WorkingNode ==
  ASSUME IInv, NEW w \in Workers, NEW t \in Tasks
  PROVE  /\ node[w][t] \in [step : Step, event : Event] /\ NodeOK(t, node[w][t], child)
         /\ pc[w] \in Pcs /\ resumed[w] \subseteq Tasks
         /\ w \in Actors /\ child[t] \in ChildStatus /\ deleg[t] \in Row
  BY DEF IInv, NodesOK, PcOK, DriveOK, Actors, ChildrenOK, RecordsOK

\* What the steps of the nodes share: pc, the drive's sets and the graph's.
LEMMA Returns ==
  ASSUME IInv, Kept, NEW w \in Workers, NEW t \in Tasks, Return(w, t)
  PROVE  GraphOK' /\ NodesOK'
<1>1. GraphOK'
  BY DEF Return, IInv, GraphOK
<1>2. Goto(w, t, "ended") /\ "ended" \in Step \ Busy
  BY DEF Return, Step, Busy, Inactive
<1> QED BY <1>1, <1>2, NodeGoes DEF IInv

LEMMA Outcomed ==
  ASSUME IInv, Kept, NEW w \in Workers, NEW t \in Tasks, NEW s, Outcome(w, t, s)
  PROVE  /\ GraphOK' /\ NodesOK' /\ resumed' \in [Workers -> SUBSET Tasks]
<1>1. CASE s = "waiting" /\ t \notin resumed[w]
  <2>1. /\ stopped' = stopped \cup {t} /\ saved' = saved /\ resumed' = resumed
        /\ Goto(w, t, "interrupted") /\ "interrupted" \in Step \ Busy
    BY <1>1 DEF Outcome, Step, Busy, Inactive
  <2>2. NodesOK'
    BY <2>1, NodeGoes DEF IInv
  <2> QED BY <2>1, <2>2 DEF IInv, GraphOK, DriveOK
<1>2. CASE ~(s = "waiting" /\ t \notin resumed[w])
  <2>1. Return(w, t) /\ resumed' = [resumed EXCEPT ![w] = @ \ {t}]
    BY <1>2 DEF Outcome
  <2>2. resumed' \in [Workers -> SUBSET Tasks]
    BY <2>1 DEF IInv, DriveOK
  <2> QED BY <2>1, <2>2, Returns
<1> QED BY <1>1, <1>2

LEMMA EnterStep ==
  ASSUME IInv, NEW w \in Workers, NEW t \in Tasks, Enter(w, t)
  PROVE  IInv'
<1>1. ChildrenOK' /\ Kept
  BY ChildrenSame DEF IInv, Enter
<1>2. OrchOK'
  BY <1>1, OrchSame DEF IInv, Enter, OrchOK
<1>3. RecordsOK'
  <2>1. delegAt' \subseteq Actors \X Tasks
    BY DEF IInv, Enter, RecordsOK, Actors
  <2> QED BY <1>1, <2>1, RecordsSame DEF IInv, Enter
<1>4. PcOK'
  BY <1>1, Aborts, PcSame DEF IInv, Enter, Pcs
<1>5. GraphOK' /\ NodesOK'
  <2>1. CASE UNCHANGED <<graph, node>>
    BY <1>1, <2>1, NodesSame DEF IInv, graph, GraphOK
  <2>2. CASE Return(w, t)
    BY <1>1, <2>2, Returns
  <2>3. CASE ~Skips(t) /\ Goto(w, t, "mark") /\ UNCHANGED graph
    <3>1. \A d \in DependsOn[t] : child[d] = "completed"
      BY <2>3, Names DEF Skips, IInv, RecordsOK, RecordsAreTrue
    <3>2. node' = [node EXCEPT ![w][t] = [step |-> "mark", event |-> "none"]]
      BY <2>3 DEF Goto, Carrying
    <3>3. NodeOK(t, [step |-> "mark", event |-> "none"], child)
      BY <3>1 DEF NodeOK, Step, Event, Tells
    <3>4. NodesOK'
      BY <1>1, <3>2, <3>3, NodeKept, NodeSet DEF IInv
    <3> QED BY <2>3, <3>4 DEF IInv, graph, GraphOK
  <2> QED BY <2>1, <2>2, <2>3 DEF Enter
<1> QED BY <1>1, <1>2, <1>3, <1>4, <1>5
        DEF IInv, Enter, DriveOK, CallerOK, BoundsOK, bounds

LEMMA NodeRecordsStep ==
  ASSUME IInv, NEW w \in Workers, NEW t \in Tasks, NEW row \in Row, NEW next \in Busy,
         NodeRecords(w, t, row, next),
         row.status = "completed" => child[t] = "completed",
         node[w][t].step \in Busy,
         next \in {"record", "forward"} => node[w][t].event # "none",
         next # "settle"
  PROVE  IInv'
<1>1. ChildrenOK' /\ Kept
  BY ChildrenSame DEF IInv, NodeRecords
<1>2. OrchOK'
  BY <1>1, OrchSame DEF IInv, NodeRecords, OrchOK
<1>3. RecordsOK'
  BY <1>1, WorkingNode, RecordsHeld, RecordsSame DEF IInv, NodeRecords, RecordsOK
<1>4. NodesOK'
  <2>1. PICK step \in {next, "failing"} : Goto(w, t, step)
    BY DEF NodeRecords
  <2>2. step \in Step /\ step \notin {"settle"}
    BY <2>1 DEF Busy, Step
  <2> QED BY <1>1, <2>1, <2>2, NodeGoes DEF IInv
<1>5. PcOK'
  BY <1>1, PcSame DEF IInv, NodeRecords
<1> QED BY <1>1, <1>2, <1>3, <1>4, <1>5
        DEF IInv, NodeRecords, GraphOK, DriveOK, CallerOK, BoundsOK, graph, bounds

LEMMA NodePublishesStep ==
  ASSUME IInv, NEW w \in Workers, NEW t \in Tasks, NEW nexts \in SUBSET Busy,
         NodePublishes(w, t, nexts),
         node[w][t].step \in Busy,
         nexts \cap {"record", "forward"} = {},
         "settle" \in nexts => node[w][t].event \in Outcomes
  PROVE  IInv'
<1>1. ChildrenOK' /\ Kept
  BY ChildrenSame DEF IInv, NodePublishes
<1>2. OrchOK'
  BY <1>1, OrchPublishes DEF IInv, NodePublishes
<1>3. RecordsOK'
  BY <1>1, RecordsSame DEF IInv, NodePublishes, RecordsOK
<1>4. NodesOK'
  <2>1. PICK step \in nexts \cup {"failing"} : Goto(w, t, step)
    BY DEF NodePublishes
  <2>2. step \in Step /\ step \notin {"record", "forward"}
    BY <2>1 DEF Busy, Step
  <2>3. step = "settle" => node[w][t].event \in Outcomes
    BY <2>1
  <2> QED BY <1>1, <2>1, <2>2, <2>3, NodeGoes DEF IInv
<1>5. PcOK'
  BY <1>1, PcSame DEF IInv, NodePublishes
<1> QED BY <1>1, <1>2, <1>3, <1>4, <1>5
        DEF IInv, NodePublishes, GraphOK, DriveOK, CallerOK, BoundsOK, graph, bounds

\* Steps of a node that stands where a process drives it.
LEMMA DrivingNode ==
  ASSUME IInv, NEW w \in Workers, NEW t \in Tasks, NEW step \in Busy, Driving(w, t, step)
  PROVE  /\ node[w][t].step = step /\ node[w][t].step \in Busy
         /\ NodeOK(t, node[w][t], child)
  BY WorkingNode DEF Driving

LEMMA MarkStep ==
  ASSUME IInv, NEW w \in Workers, NEW t \in Tasks, Mark(w, t)
  PROVE  IInv'
<1>1. "mark" \in Busy /\ "announce" \in Busy
  BY DEF Busy, Step, Inactive
<1>2. Driving(w, t, "mark") /\ NodeRecords(w, t, Status(t, "running"), "announce")
  BY DEF Mark
<1>3. Status(t, "running") \in Row /\ Status(t, "running").status = "running"
  BY StatusRow DEF IInv, DelegStatus, OrchStatus
<1>4. node[w][t].step \in Busy
  BY <1>1, <1>2, DrivingNode
<1> QED BY <1>1, <1>2, <1>3, <1>4, NodeRecordsStep

LEMMA AnnounceStep ==
  ASSUME IInv, NEW w \in Workers, NEW t \in Tasks, Announce(w, t)
  PROVE  IInv'
<1>1. "announce" \in Busy /\ {"child"} \cup (IF DependsOn[t] = {} THEN {} ELSE {"failing"}) \in SUBSET Busy
  BY DEF Busy, Step, Inactive
<1>2. /\ Driving(w, t, "announce")
      /\ NodePublishes(w, t, {"child"} \cup (IF DependsOn[t] = {} THEN {} ELSE {"failing"}))
  BY DEF Announce
<1>3. node[w][t].step \in Busy
  BY <1>1, <1>2, DrivingNode
<1> QED BY <1>1, <1>2, <1>3, NodePublishesStep

\* A child run starts here only, after what it depends on.
LEMMA CallStep ==
  ASSUME IInv, NEW w \in Workers, NEW t \in Tasks, Call(w, t)
  PROVE  IInv'
<1>1. /\ Driving(w, t, "child") /\ "child" \in Busy
      /\ UNCHANGED <<orch, deleg, graph, pc, resumed, token, caller, orchAt, delegAt, bounds>>
  BY DEF Call, Busy, Step, Inactive
<1>2. node[w][t].step \in Busy /\ NodeOK(t, node[w][t], child)
  BY <1>1, DrivingNode
<1>3. ChildrenOK' /\ Kept /\ NodesOK'
  <2>1. CASE w \in token /\ Goto(w, t, "quitting") /\ UNCHANGED children
    <3>1. "quitting" \in Step
      BY DEF Step
    <3> QED BY <1>2, <2>1, <3>1, ChildrenSame, NodeGoes DEF IInv
  <2>2. CASE w \notin token
    <3> DEFINE n == [step |-> IF deleg[t].linked THEN "forward" ELSE "record", event |-> FirstEvent(t)]
    <3>1. node' = [node EXCEPT ![w][t] = n]
      BY <2>2 DEF Call
    <3>2. /\ FirstEvent(t) \in {"replayed", "failed", "cancelled", "waiting", "started", "again"}
          /\ FirstEvent(t) = "replayed" <=> child[t] = "completed"
          /\ FirstEvent(t) = "started" => child[t] \in {"absent", "open"}
      BY DEF FirstEvent, ChildClaimable
    <3>3. NodeOK(t, n, child)
      BY <1>2, <3>2 DEF NodeOK, Step, Event, Ended, Tells, Busy
    <3> HIDE DEF n
    <3>4. ChildrenOK' /\ Kept
      <4>1. CASE FirstEvent(t) = "started"
        <5>1. child' = [child EXCEPT ![t] = "open"] /\ driver' = [driver EXCEPT ![t] = w]
          BY <2>2, <4>1 DEF Call
        <5>2. driver' \in [Tasks -> Workers \cup {NoWorker}]
          BY <5>1 DEF IInv, ChildrenOK
        <5>3. child[t] # "completed" /\ \A d \in DependsOn[t] : child[d] = "completed"
          BY <1>2, <3>2, <4>1 DEF NodeOK
        <5>4. "open" \in ChildStatus \ {"absent"}
          BY DEF ChildStatus
        <5> QED BY <5>1, <5>2, <5>3, <5>4, ChildSet DEF IInv
      <4>2. CASE FirstEvent(t) # "started"
        BY <2>2, <4>2, ChildrenSame DEF IInv, Call
      <4> QED BY <4>1, <4>2
    <3> QED BY <3>1, <3>3, <3>4, NodeKept, NodeSet DEF IInv
  <2> QED BY <2>1, <2>2 DEF Call
<1>4. OrchOK' /\ RecordsOK' /\ PcOK'
  BY <1>1, <1>3, OrchSame, RecordsSame, PcSame DEF IInv, OrchOK, RecordsOK
<1> QED BY <1>1, <1>3, <1>4
        DEF IInv, GraphOK, DriveOK, CallerOK, BoundsOK, graph, bounds

LEMMA RecordStep ==
  ASSUME IInv, NEW w \in Workers, NEW t \in Tasks, Record(w, t)
  PROVE  IInv'
<1>1. "record" \in Busy /\ "forward" \in Busy
  BY DEF Busy, Step, Inactive
<1> DEFINE row == [deleg[t] EXCEPT !.status = "running", !.linked = TRUE]
<1>2. Driving(w, t, "record") /\ NodeRecords(w, t, row, "forward")
  BY DEF Record
<1>3. row \in Row /\ row.status = "running"
  BY DEF IInv, RecordsOK, Row, DelegStatus, OrchStatus
<1> HIDE DEF row
<1>4. node[w][t].step \in Busy /\ node[w][t].event # "none"
  BY <1>1, <1>2, DrivingNode DEF NodeOK
<1> QED BY <1>1, <1>2, <1>3, <1>4, NodeRecordsStep

LEMMA ForwardStep ==
  ASSUME IInv, NEW w \in Workers, NEW t \in Tasks, Forward(w, t)
  PROVE  IInv'
<1>1. "forward" \in Busy
  BY DEF Busy, Step, Inactive
<1>2. Driving(w, t, "forward") /\ NodePublishes(w, t, {After(node[w][t].event)})
  BY DEF Forward
<1>3. /\ node[w][t].step \in Busy /\ node[w][t].event # "none"
      /\ node[w][t].event \in Event
  BY <1>1, <1>2, DrivingNode DEF NodeOK
<1>4. /\ After(node[w][t].event) \in {"driving", "child", "settle"}
      /\ After(node[w][t].event) = "settle" => node[w][t].event \in Outcomes
  BY <1>3 DEF After, Event, Ended, Outcomes
<1>5. {After(node[w][t].event)} \in SUBSET Busy
  BY <1>4 DEF Busy, Step, Inactive
<1> QED BY <1>2, <1>3, <1>4, <1>5, NodePublishesStep

\* A node that is told an event of its child.
LEMMA ToldOfChild ==
  ASSUME IInv, Kept, NEW w \in Workers, NEW t \in Tasks, NEW event \in Event \ {"none"},
         node[w][t].step \in Busy, Tell(w, t, event),
         event \in Tells => child'[t] = "completed"
  PROVE  NodesOK' /\ OrchOK' /\ RecordsOK' /\ PcOK'
<1> DEFINE n == [step |-> "forward", event |-> event]
<1>1. node' = [node EXCEPT ![w][t] = n]
  BY DEF Tell
<1>2. \A d \in DependsOn[t] : child[d] = "completed" /\ d \in Tasks
  BY WorkingNode, Names DEF NodeOK
<1>3. NodeOK(t, n, child')
  BY <1>2 DEF NodeOK, Step, Kept
<1> HIDE DEF n
<1>4. NodesOK'
  BY <1>1, <1>3, NodeSet DEF IInv
<1>5. OrchOK' /\ RecordsOK' /\ PcOK'
  BY OrchSame, RecordsSame, PcSame DEF IInv, Tell, OrchOK, RecordsOK
<1> QED BY <1>4, <1>5

LEMMA ChildStopsStep ==
  ASSUME IInv, NEW w \in Workers, NEW t \in Tasks, ChildStops(w, t)
  PROVE  IInv'
<1>1. Driving(w, t, "driving") /\ child[t] = "open" /\ "driving" \in Busy
  BY DEF ChildStops, Busy, Step, Inactive
<1>2. node[w][t].step \in Busy
  BY <1>1, DrivingNode
<1>3. PICK s \in {"completed", "failed", "waiting"} :
        /\ s = "waiting" => waits < MaxWaits
        /\ waits' = IF s = "waiting" THEN waits + 1 ELSE waits
        /\ child' = [child EXCEPT ![t] = s]
        /\ Tell(w, t, s)
  BY DEF ChildStops
<1>4. s \in ChildStatus \ {"absent"} /\ s \in Event \ {"none"}
  BY DEF ChildStatus, Event, Ended
<1>5. driver' \in [Tasks -> Workers \cup {NoWorker}]
  BY DEF ChildStops, IInv, ChildrenOK
<1>6. ChildrenOK' /\ Kept
  BY <1>1, <1>3, <1>4, <1>5, ChildSet DEF IInv
<1>7. s \in Tells => child'[t] = "completed"
  BY <1>3 DEF Tells, IInv, ChildrenOK
<1>8. NodesOK' /\ OrchOK' /\ RecordsOK' /\ PcOK'
  BY <1>2, <1>3, <1>4, <1>6, <1>7, ToldOfChild
<1>9. BoundsOK'
  BY <1>3, Names DEF IInv, BoundsOK, Tell
<1> QED BY <1>3, <1>6, <1>8, <1>9 DEF IInv, Tell, GraphOK, DriveOK, CallerOK, graph

LEMMA ChildInterruptedStep ==
  ASSUME IInv, NEW w \in Workers, NEW t \in Tasks, ChildInterrupted(w, t)
  PROVE  IInv'
<1>1. Driving(w, t, "driving") /\ "driving" \in Busy /\ UNCHANGED <<children, waits>>
  BY DEF ChildInterrupted, Busy, Step, Inactive
<1>2. node[w][t].step \in Busy
  BY <1>1, DrivingNode
<1>3. PICK e \in {"cancelled", "again"} : Tell(w, t, e)
  BY DEF ChildInterrupted
<1>4. e \in Event \ {"none"} /\ e \notin Tells
  BY DEF Event, Ended, Tells
<1>5. ChildrenOK' /\ Kept
  BY <1>1, ChildrenSame DEF IInv
<1>6. NodesOK' /\ OrchOK' /\ RecordsOK' /\ PcOK'
  BY <1>2, <1>3, <1>4, <1>5, ToldOfChild
<1> QED BY <1>1, <1>3, <1>5, <1>6
        DEF IInv, Tell, GraphOK, DriveOK, CallerOK, BoundsOK, graph

LEMMA ChildUnheardStep ==
  ASSUME IInv, NEW w \in Workers, NEW t \in Tasks, ChildUnheard(w, t)
  PROVE  IInv'
<1>1. /\ Driving(w, t, "driving") /\ "driving" \in Busy /\ Conflicts(w) /\ Goto(w, t, "failing")
      /\ UNCHANGED <<deleg, children, graph, pc, resumed, token, caller, delegAt, bounds>>
  BY DEF ChildUnheard, Busy, Step, Inactive
<1>2. node[w][t].step \in Busy /\ "failing" \in Step
  BY <1>1, DrivingNode DEF Step
<1>3. ChildrenOK' /\ Kept
  BY <1>1, ChildrenSame DEF IInv
<1>4. OrchOK' /\ NodesOK' /\ RecordsOK' /\ PcOK'
  BY <1>1, <1>2, <1>3, OrchPublishes, NodeGoes, RecordsSame, PcSame DEF IInv, RecordsOK
<1> QED BY <1>1, <1>3, <1>4 DEF IInv, GraphOK, DriveOK, CallerOK, BoundsOK, graph, bounds

LEMMA SettleStep ==
  ASSUME IInv, NEW w \in Workers, NEW t \in Tasks, Settle(w, t)
  PROVE  IInv'
<1> DEFINE e == node[w][t].event
           row == OutcomeRow(t, e)
<1>1. Driving(w, t, "settle") /\ "settle" \in Busy /\ "report" \in Busy
  BY DEF Settle, Busy, Step, Inactive
<1>2. node[w][t].step \in Busy /\ NodeOK(t, node[w][t], child) /\ e \in Outcomes
  BY <1>1, DrivingNode DEF NodeOK
<1>3. row \in Row /\ (row.status = "completed" => child[t] = "completed")
  BY <1>2, OutcomeRows DEF NodeOK, IInv
<1>4. \/ NodeRecords(w, t, row, "report")
      \/ /\ Return(w, t) /\ deleg' = [deleg EXCEPT ![t] = row] /\ delegAt' = Others(t)
         /\ UNCHANGED <<orch, children, pc, resumed, token, caller, orchAt, bounds>>
      \/ /\ Goto(w, t, "failing")
         /\ UNCHANGED <<orch, deleg, children, graph, pc, resumed, token, caller, orchAt,
                        delegAt, bounds>>
  BY DEF Settle
<1> HIDE DEF row
<1>5. CASE NodeRecords(w, t, row, "report")
  BY <1>1, <1>2, <1>3, <1>5, NodeRecordsStep
<1>6. CASE /\ Return(w, t) /\ deleg' = [deleg EXCEPT ![t] = row] /\ delegAt' = Others(t)
           /\ UNCHANGED <<orch, children, pc, resumed, token, caller, orchAt, bounds>>
  <2>1. ChildrenOK' /\ Kept
    BY <1>6, ChildrenSame DEF IInv
  <2>2. GraphOK' /\ NodesOK'
    BY <1>6, <2>1, Returns
  <2>3. Others(t) \subseteq Actors \X Tasks
    BY DEF IInv, RecordsOK, Others
  <2>4. RecordsOK'
    BY <1>3, <1>6, <2>1, <2>3, RecordsWrite DEF IInv
  <2>5. OrchOK' /\ PcOK'
    BY <1>6, <2>1, OrchSame, PcSame DEF IInv, OrchOK
  <2> QED BY <1>6, <2>1, <2>2, <2>4, <2>5 DEF IInv, DriveOK, CallerOK, BoundsOK, bounds
<1>7. CASE /\ Goto(w, t, "failing")
           /\ UNCHANGED <<orch, deleg, children, graph, pc, resumed, token, caller, orchAt,
                          delegAt, bounds>>
  <2>1. ChildrenOK' /\ Kept
    BY <1>7, ChildrenSame DEF IInv
  <2>2. "failing" \in Step
    BY DEF Step
  <2>3. NodesOK'
    BY <1>2, <1>7, <2>1, <2>2, NodeGoes DEF IInv
  <2>4. OrchOK' /\ RecordsOK' /\ PcOK'
    BY <1>7, <2>1, OrchSame, RecordsSame, PcSame DEF IInv, OrchOK, RecordsOK
  <2> QED BY <1>7, <2>1, <2>3, <2>4 DEF IInv, GraphOK, DriveOK, CallerOK, BoundsOK, graph, bounds
<1> QED BY <1>4, <1>5, <1>6, <1>7

LEMMA ReportStep ==
  ASSUME IInv, NEW w \in Workers, NEW t \in Tasks, Report(w, t)
  PROVE  IInv'
<1>1. /\ Driving(w, t, "report") /\ "report" \in Busy
      /\ UNCHANGED <<deleg, children, pc, token, caller, bounds>>
  BY DEF Report, Busy, Step, Inactive
<1>2. node[w][t].step \in Busy
  BY <1>1, DrivingNode
<1>3. ChildrenOK' /\ Kept
  BY <1>1, ChildrenSame DEF IInv
<1>4. OrchOK' /\ PcOK'
  BY <1>1, <1>3, OrchPublishes, PcSame DEF IInv, Report
<1>5. RecordsOK'
  <2>1. delegAt' \subseteq Actors \X Tasks
    BY DEF IInv, Report, RecordsOK
  <2> QED BY <1>1, <1>3, <2>1, RecordsSame DEF IInv
<1>6. GraphOK' /\ NodesOK' /\ resumed' \in [Workers -> SUBSET Tasks]
  <2>1. CASE Outcome(w, t, node[w][t].event)
    BY <1>3, <2>1, Outcomed
  <2>2. CASE Goto(w, t, "failing") /\ UNCHANGED <<graph, resumed>>
    <3>1. "failing" \in Step
      BY DEF Step
    <3>2. NodesOK'
      BY <1>2, <1>3, <2>2, <3>1, NodeGoes DEF IInv
    <3> QED BY <2>2, <3>2 DEF IInv, graph, GraphOK, DriveOK
  <2> QED BY <2>1, <2>2 DEF Report
<1> QED BY <1>1, <1>3, <1>4, <1>5, <1>6 DEF IInv, DriveOK, CallerOK, BoundsOK, bounds

LEMMA FailStep ==
  ASSUME IInv, NEW w \in Workers, NEW t \in Tasks, Fail(w, t)
  PROVE  IInv'
<1>1. /\ Driving(w, t, "failing") /\ "failing" \in Busy
      /\ UNCHANGED <<orch, children, graph, pc, resumed, token, caller, orchAt, bounds>>
  BY DEF Fail, Busy, Step, Inactive
<1>2. node[w][t].step \in Busy /\ NodeOK(t, node[w][t], child)
  BY <1>1, DrivingNode
<1>3. ChildrenOK' /\ Kept
  BY <1>1, ChildrenSame DEF IInv
<1>4. NodesOK'
  <2>1. PICK e \in {"failed", "waiting", "none"} :
          node' = [node EXCEPT ![w][t] = [step |-> "apologise", event |-> e]]
    BY DEF Fail
  <2> DEFINE n == [step |-> "apologise", event |-> e]
  <2>2. NodeOK(t, n, child)
    BY <1>2, <2>1 DEF NodeOK, Step, Event, Ended, Tells
  <2> HIDE DEF n
  <2>3. node' = [node EXCEPT ![w][t] = n]
    BY <2>1 DEF n
  <2> QED BY <1>3, <2>2, <2>3, NodeKept, NodeSet DEF IInv
<1>5. RecordsOK'
  <2>1. CASE deleg' = [deleg EXCEPT ![t].status = "failed"] /\ delegAt' = Others(t)
    <3>1. deleg' = [deleg EXCEPT ![t] = Status(t, "failed")]
      BY <2>1 DEF Status
    <3>2. Status(t, "failed") \in Row /\ Status(t, "failed").status = "failed"
      BY StatusRow DEF IInv, DelegStatus, OrchStatus, Ended
    <3>3. delegAt' \subseteq Actors \X Tasks
      BY <2>1 DEF IInv, RecordsOK, Others
    <3> QED BY <1>3, <3>1, <3>2, <3>3, RecordsWrite DEF IInv
  <2>2. CASE UNCHANGED <<deleg, delegAt>>
    BY <1>3, <2>2, RecordsSame DEF IInv, RecordsOK
  <2> QED BY <2>1, <2>2 DEF Fail
<1>6. OrchOK' /\ PcOK'
  BY <1>1, <1>3, OrchSame, PcSame DEF IInv, OrchOK
<1> QED BY <1>1, <1>3, <1>4, <1>5, <1>6
        DEF IInv, GraphOK, DriveOK, CallerOK, BoundsOK, graph, bounds

LEMMA ApologiseStep ==
  ASSUME IInv, NEW w \in Workers, NEW t \in Tasks, Apologise(w, t)
  PROVE  IInv'
<1>1. /\ Driving(w, t, "apologise") /\ "apologise" \in Busy
      /\ UNCHANGED <<deleg, children, token, caller, delegAt, bounds>>
  BY DEF Apologise, Busy, Step, Inactive
<1>2. ChildrenOK' /\ Kept
  BY <1>1, ChildrenSame DEF IInv
<1>3. OrchOK' /\ RecordsOK'
  BY <1>1, <1>2, OrchPublishes, RecordsSame DEF IInv, Apologise, RecordsOK
<1>4. PcOK' /\ GraphOK' /\ NodesOK' /\ resumed' \in [Workers -> SUBSET Tasks]
  <2>1. CASE Outcome(w, t, node[w][t].event) /\ UNCHANGED pc
    BY <1>2, <2>1, Outcomed, PcSame DEF IInv
  <2>2. CASE Goto(w, t, "idle") /\ Abort(w, "lost") /\ UNCHANGED <<graph, resumed>>
    <3>1. "idle" \in Step \ Busy /\ "lost" \in Pcs \ {"completed"}
      BY DEF Step, Busy, Inactive, Pcs
    <3>2. NodesOK' /\ PcOK'
      BY <1>2, <2>2, <3>1, NodeGoes, Aborts DEF IInv
    <3> QED BY <2>2, <3>2 DEF IInv, graph, GraphOK, DriveOK
  <2> QED BY <2>1, <2>2 DEF Apologise
<1> QED BY <1>1, <1>2, <1>3, <1>4 DEF IInv, DriveOK, CallerOK, BoundsOK, bounds

LEMMA QuitStep ==
  ASSUME IInv, NEW w \in Workers, NEW t \in Tasks, Quit(w, t)
  PROVE  IInv'
<1>1. /\ CancelledRecords(t) /\ Return(w, t)
      /\ UNCHANGED <<orch, children, pc, resumed, token, caller, orchAt, bounds>>
  BY DEF Quit
<1>2. ChildrenOK' /\ Kept
  BY <1>1, ChildrenSame DEF IInv
<1>3. RecordsOK' /\ OrchOK' /\ PcOK'
  BY <1>1, <1>2, RecordsCancelled, OrchSame, PcSame DEF IInv, OrchOK
<1>4. GraphOK' /\ NodesOK'
  BY <1>1, <1>2, Returns
<1> QED BY <1>1, <1>2, <1>3, <1>4 DEF IInv, DriveOK, CallerOK, BoundsOK, bounds

\* Whatever write a cancelled node had under way, it was of a true record.
LEMMA UnderWayRows ==
  ASSUME IInv, NEW w \in Workers, NEW t \in Tasks, NEW row \in UnderWay(t, node[w][t])
  PROVE  row \in Row /\ (row.status = "completed" => child[t] = "completed")
<1>1. NodeOK(t, node[w][t], child) /\ deleg[t] \in Row
      /\ (deleg[t].status = "completed" => child[t] = "completed")
  BY WorkingNode DEF IInv, RecordsOK, RecordsAreTrue
<1>2. CASE node[w][t].step = "mark"
  <2>1. row = Status(t, "running")
    BY <1>2 DEF UnderWay
  <2> QED BY <2>1, StatusRow DEF IInv, DelegStatus, OrchStatus
<1>3. CASE node[w][t].step = "record"
  <2>1. row = [deleg[t] EXCEPT !.linked = TRUE]
    BY <1>3 DEF UnderWay
  <2>2. row \in Row /\ row.status = deleg[t].status
    BY <1>1, <2>1 DEF Row
  <2> QED BY <1>1, <2>2
<1>4. CASE node[w][t].step = "settle"
  <2>1. row = OutcomeRow(t, node[w][t].event) /\ node[w][t].event \in Outcomes
    BY <1>1, <1>4 DEF UnderWay, NodeOK
  <2> QED BY <1>1, <2>1, OutcomeRows DEF NodeOK, IInv
<1>5. CASE node[w][t].step \notin {"mark", "record", "settle"}
  BY <1>5 DEF UnderWay
<1> QED BY <1>2, <1>3, <1>4, <1>5

LEMMA ReleaseStep ==
  ASSUME IInv, NEW w \in Workers, NEW t \in Tasks, Release(w, t)
  PROVE  IInv'
<1>1. /\ Goto(w, t, "idle")
      /\ UNCHANGED <<orch, children, graph, pc, resumed, token, caller, orchAt, bounds>>
  BY DEF Release
<1>2. ChildrenOK' /\ Kept
  BY <1>1, ChildrenSame DEF IInv
<1>3. NodesOK'
  <2>1. "idle" \in Step \ Busy
    BY DEF Step, Busy, Inactive
  <2> QED BY <1>1, <1>2, <2>1, NodeGoes DEF IInv
<1>4. RecordsOK'
  <2>1. CASE \E row \in {Status(t, "pending")} \cup UnderWay(t, node[w][t]) : Records(w, t, row)
    <3>1. PICK row \in {Status(t, "pending")} \cup UnderWay(t, node[w][t]) : Records(w, t, row)
      BY <2>1
    <3>2. Status(t, "pending") \in Row /\ Status(t, "pending").status = "pending"
      BY StatusRow DEF IInv, DelegStatus, OrchStatus
    <3>3. row \in Row /\ (row.status = "completed" => child[t] = "completed")
      BY <3>1, <3>2, UnderWayRows
    <3>4. w \in Actors
      BY DEF Actors
    <3> QED BY <1>2, <3>1, <3>3, <3>4, RecordsHeld DEF IInv
  <2>2. CASE UNCHANGED <<deleg, delegAt>>
    BY <1>2, <2>2, RecordsSame DEF IInv, RecordsOK
  <2> QED BY <2>1, <2>2 DEF Release
<1>5. OrchOK' /\ PcOK'
  BY <1>1, <1>2, OrchSame, PcSame DEF IInv, OrchOK
<1> QED BY <1>1, <1>2, <1>3, <1>4, <1>5
        DEF IInv, GraphOK, DriveOK, CallerOK, BoundsOK, graph, bounds

-----------------------------------------------------------------------------
(* Callers, reviewers, time and faults. *)

LEMMA ProcessSame ==
  ASSUME IInv, Kept, UNCHANGED process
  PROVE  NodesOK' /\ PcOK' /\ DriveOK'
<1>1. pc' = pc /\ node' = node /\ resumed' = resumed /\ token' = token
  BY DEF process
<1> QED BY <1>1, NodesSame, PcSame DEF IInv, DriveOK

LEMMA CancelRunStep ==
  ASSUME IInv, CancelRun
  PROVE  IInv'
<1>1. ChildrenOK' /\ Kept
  BY ChildrenSame DEF IInv, CancelRun
<1>2. OrchOK'
  <2>1. CASE UNCHANGED <<orch, orchAt>>
    BY <1>1, <2>1, OrchSame DEF IInv, OrchOK
  <2>2. CASE orch' = Stored("cancelled") /\ orchAt' = {}
    <3>1. "cancelled" \in OrchStatus /\ orchAt' \subseteq Workers
      BY <2>2 DEF OrchStatus, Ended
    <3> QED BY <1>1, <2>2, <3>1, OrchStored DEF IInv
  <2> QED BY <2>1, <2>2 DEF CancelRun
<1>3. RecordsOK'
  BY <1>1, RecordsSame DEF IInv, CancelRun, RecordsOK
<1>4. NodesOK' /\ PcOK' /\ DriveOK'
  BY <1>1, ProcessSame DEF CancelRun
<1>5. CallerOK' /\ BoundsOK'
  BY Names DEF IInv, CancelRun, Called, CallerOK, NoCall, BoundsOK
<1> QED BY <1>1, <1>2, <1>3, <1>4, <1>5 DEF IInv, CancelRun, GraphOK, graph

LEMMA CancellingStep ==
  ASSUME IInv, \/ ListDelegations \/ CallEnds
               \/ \E t \in Tasks : CancelDelegation(t)
  PROVE  IInv'
<1>1. UNCHANGED <<orch, children, graph, process, orchAt, bounds>>
  BY DEF ListDelegations, CallEnds, CancelDelegation
<1>2. ChildrenOK' /\ Kept
  BY <1>1, ChildrenSame DEF IInv
<1>3. RecordsOK'
  <2>1. CASE UNCHANGED <<deleg, delegAt>>
    BY <1>2, <2>1, RecordsSame DEF IInv, RecordsOK
  <2>2. CASE \E t \in Tasks : CancelledRecords(t)
    BY <1>2, <2>2, RecordsCancelled DEF IInv
  <2> QED BY <2>1, <2>2 DEF ListDelegations, CallEnds, CancelDelegation
<1>4. CallerOK'
  <2>1. CASE ListDelegations
    <3> DEFINE live == {t \in Tasks : deleg[t].status \notin Ended \cup {"absent"}}
    <3>1. caller' = [doing |-> "cancel", todo |-> live, at |-> {}]
      BY <2>1 DEF ListDelegations, NoCall
    <3>2. live \subseteq Tasks
      OBVIOUS
    <3> HIDE DEF live
    <3> QED BY <3>1, <3>2 DEF CallerOK
  <2>2. CASE CallEnds
    BY <2>2 DEF CallEnds, CallerOK, NoCall
  <2>3. CASE \E t \in Tasks : CancelDelegation(t)
    BY <2>3 DEF IInv, CallerOK, CancelDelegation
  <2> QED BY <2>1, <2>2, <2>3
<1>5. OrchOK' /\ NodesOK' /\ PcOK' /\ DriveOK'
  BY <1>1, <1>2, OrchSame, ProcessSame DEF IInv, OrchOK
<1> QED BY <1>1, <1>2, <1>3, <1>4, <1>5 DEF IInv, GraphOK, BoundsOK, graph, bounds

\* A caller or a reviewer touches a child that has not completed.
LEMMA CancelChildStep ==
  ASSUME IInv, NEW t \in Tasks, CancelChild(t)
  PROVE  IInv'
<1>1. UNCHANGED <<orch, deleg, graph, process, orchAt, delegAt, bounds>>
  BY DEF CancelChild
<1>2. ChildrenOK' /\ Kept
  <2>1. CASE child[t] \in Ended \cup {"absent"}
    BY <2>1, ChildrenSame DEF IInv, CancelChild
  <2>2. CASE child[t] \notin Ended \cup {"absent"}
    <3>1. /\ child' = [child EXCEPT ![t] = "cancelled"] /\ driver' = [driver EXCEPT ![t] = NoWorker]
          /\ child[t] \notin {"completed", "absent"}
      BY <2>2 DEF CancelChild, Ended
    <3>2. driver' \in [Tasks -> Workers \cup {NoWorker}] /\ "cancelled" \in ChildStatus \ {"absent"}
      BY <3>1 DEF IInv, ChildrenOK, ChildStatus, Ended
    <3> QED BY <3>1, <3>2, ChildSet DEF IInv
  <2> QED BY <2>1, <2>2
<1>3. CallerOK'
  BY DEF IInv, CallerOK, CancelChild
<1>4. OrchOK' /\ RecordsOK' /\ NodesOK' /\ PcOK' /\ DriveOK'
  BY <1>1, <1>2, OrchSame, RecordsSame, ProcessSame DEF IInv, OrchOK, RecordsOK
<1> QED BY <1>1, <1>2, <1>3, <1>4 DEF IInv, GraphOK, BoundsOK, graph, bounds

LEMMA ResumingKeeps ==
  ASSUME IInv, Kept, orch.status = "waiting", Resuming, UNCHANGED <<orch, deleg>>
  PROVE  OrchOK' /\ RecordsOK' /\ CallerOK'
<1>1. CompletedIsComplete'
  BY DEF IInv, OrchOK, CompletedIsComplete
<1>2. OrchOK'
  BY <1>1 DEF IInv, OrchOK, Resuming, Actors
<1>3. delegAt' \subseteq Actors \X Tasks
  BY DEF IInv, RecordsOK, Resuming, Actors
<1>4. RecordsOK'
  BY <1>3, RecordsSame DEF IInv
<1>5. CallerOK'
  BY DEF Resuming, CallerOK
<1> QED BY <1>2, <1>4, <1>5

LEMMA ResumeStep ==
  ASSUME IInv, Resume
  PROVE  IInv'
<1>1. ChildrenOK' /\ Kept
  BY ChildrenSame DEF IInv, Resume
<1>2. OrchOK' /\ RecordsOK' /\ CallerOK'
  BY <1>1, ResumingKeeps DEF Resume
<1>3. NodesOK' /\ PcOK' /\ DriveOK'
  BY <1>1, ProcessSame DEF Resume
<1>4. BoundsOK'
  BY Names DEF IInv, Resume, Called, BoundsOK
<1> QED BY <1>1, <1>2, <1>3, <1>4 DEF IInv, Resume, GraphOK, graph

LEMMA DecideStep ==
  ASSUME IInv, NEW t \in Tasks, Decide(t)
  PROVE  IInv'
<1>1. /\ child[t] = "waiting" /\ child' = [child EXCEPT ![t] = "open"]
      /\ UNCHANGED <<orch, deleg, driver, graph, process, waits, faults>>
  BY DEF Decide
<1>2. ChildrenOK' /\ Kept
  <2>1. driver' \in [Tasks -> Workers \cup {NoWorker}] /\ "open" \in ChildStatus \ {"absent"}
    BY <1>1 DEF IInv, ChildrenOK, ChildStatus
  <2> QED BY <1>1, <2>1, ChildSet DEF IInv
<1>3. OrchOK' /\ RecordsOK' /\ CallerOK'
  <2>1. CASE orch.status = "waiting"
    BY <1>1, <1>2, <2>1, ResumingKeeps DEF Decide
  <2>2. CASE orch.status # "waiting"
    <3>1. UNCHANGED <<caller, orchAt, delegAt>>
      BY <2>2 DEF Decide
    <3> QED BY <1>1, <1>2, <3>1, OrchSame, RecordsSame DEF IInv, OrchOK, RecordsOK, CallerOK
  <2> QED BY <2>1, <2>2
<1>4. NodesOK' /\ PcOK' /\ DriveOK'
  BY <1>1, <1>2, ProcessSame
<1>5. BoundsOK'
  BY <1>1, Names DEF IInv, Decide, Called, BoundsOK
<1> QED BY <1>1, <1>2, <1>3, <1>4, <1>5 DEF IInv, GraphOK, graph

LEMMA CallerGoes ==
  ASSUME IInv, Kept, CallerGone, UNCHANGED <<orch, deleg>>
  PROVE  OrchOK' /\ RecordsOK' /\ CallerOK'
<1>1. OrchOK'
  BY OrchSame DEF IInv, CallerGone, OrchOK
<1>2. RecordsOK'
  BY RecordsSame DEF IInv, CallerGone, RecordsOK
<1>3. CallerOK'
  BY DEF CallerGone, CallerOK, NoCall
<1> QED BY <1>1, <1>2, <1>3

LEMMA ResumeDelegationStep ==
  ASSUME IInv, NEW t \in Tasks, ResumeDelegation(t)
  PROVE  IInv'
<1>1. UNCHANGED <<orch, children, graph, process, bounds>>
  BY DEF ResumeDelegation
<1>2. ChildrenOK' /\ Kept
  BY <1>1, ChildrenSame DEF IInv
<1>3. OrchOK' /\ RecordsOK' /\ CallerOK'
  <2>1. CASE /\ Records("caller", t, Status(t, "pending"))
             /\ caller' = [caller EXCEPT !.todo = @ \ {t}] /\ UNCHANGED orchAt
    <3>1. Status(t, "pending") \in Row /\ Status(t, "pending").status = "pending" /\ "caller" \in Actors
      BY StatusRow DEF IInv, DelegStatus, OrchStatus, Actors
    <3>2. RecordsOK'
      BY <1>2, <2>1, <3>1, RecordsHeld DEF IInv
    <3>3. OrchOK'
      BY <1>1, <1>2, <2>1, OrchSame DEF IInv, OrchOK
    <3>4. CallerOK'
      BY <2>1 DEF IInv, CallerOK
    <3> QED BY <3>2, <3>3, <3>4
  <2>2. CASE CallerGone /\ UNCHANGED deleg
    BY <1>1, <1>2, <2>2, CallerGoes
  <2> QED BY <2>1, <2>2 DEF ResumeDelegation
<1>4. NodesOK' /\ PcOK' /\ DriveOK'
  BY <1>1, <1>2, ProcessSame
<1> QED BY <1>1, <1>2, <1>3, <1>4 DEF IInv, GraphOK, BoundsOK, graph, bounds

LEMMA ResumeRunStep ==
  ASSUME IInv, ResumeRun
  PROVE  IInv'
<1>1. UNCHANGED <<deleg, children, graph, process, bounds>>
  BY DEF ResumeRun
<1>2. ChildrenOK' /\ Kept
  BY <1>1, ChildrenSame DEF IInv
<1>3. OrchOK' /\ RecordsOK' /\ CallerOK'
  <2>1. CASE /\ orch' = Stored("pending") /\ orchAt' = {} /\ caller' = NoCall
             /\ delegAt' = {x \in delegAt : x[1] # "caller"}
    <3>1. "pending" \in OrchStatus /\ orchAt' \subseteq Workers
      BY <2>1 DEF OrchStatus
    <3>2. OrchOK'
      BY <1>2, <2>1, <3>1, OrchStored DEF IInv
    <3>3. RecordsOK' /\ CallerOK'
      BY <1>1, <1>2, <2>1, RecordsSame DEF IInv, RecordsOK, CallerOK, NoCall
    <3> QED BY <3>2, <3>3
  <2>2. CASE CallerGone /\ UNCHANGED orch
    BY <1>1, <1>2, <2>2, CallerGoes
  <2> QED BY <2>1, <2>2 DEF ResumeRun
<1>4. NodesOK' /\ PcOK' /\ DriveOK'
  BY <1>1, <1>2, ProcessSame
<1> QED BY <1>1, <1>2, <1>3, <1>4 DEF IInv, GraphOK, BoundsOK, graph, bounds

\* Leases end, by themselves or because their owner stalls.
LEMMA LeaseStep ==
  ASSUME IInv, \/ OrchLeaseEnds \/ StallOrch
               \/ \E t \in Tasks : ChildLeaseEnds(t) \/ StallChild(t)
  PROVE  IInv'
<1>1. /\ UNCHANGED <<deleg, child, graph, process, caller, orchAt, delegAt, waits, calls>>
      /\ orch' = orch \/ orch' = [orch EXCEPT !.live = FALSE]
      /\ driver' = driver \/ \E t \in Tasks : driver' = [driver EXCEPT ![t] = NoWorker]
      /\ faults' = faults \/ Fault
  BY DEF OrchLeaseEnds, StallOrch, ChildLeaseEnds, StallChild, bounds, children
<1>2. Kept
  BY <1>1, KeptSame
<1>3. ChildrenOK'
  BY <1>1 DEF IInv, ChildrenOK, DependenciesFirst
<1>4. OrchOK'
  <2>1. orch' \in Orch /\ orch'.status = orch.status /\ (orch'.live => orch' = orch)
    BY <1>1 DEF IInv, OrchOK, Orch
  <2> QED BY <1>1, <2>1 DEF IInv, OrchOK, CompletedIsComplete
<1>5. RecordsOK' /\ NodesOK' /\ PcOK' /\ DriveOK'
  BY <1>1, <1>2, RecordsSame, ProcessSame DEF IInv, RecordsOK
<1>6. BoundsOK'
  BY <1>1, Names DEF IInv, BoundsOK, Fault
<1> QED BY <1>1, <1>3, <1>4, <1>5, <1>6 DEF IInv, GraphOK, CallerOK, graph

LEMMA TimeoutStep ==
  ASSUME IInv, NEW w \in Workers, Timeout(w)
  PROVE  IInv'
<1>1. ChildrenOK' /\ Kept
  BY ChildrenSame DEF IInv, Timeout
<1>2. OrchOK' /\ RecordsOK' /\ NodesOK'
  BY <1>1, OrchSame, RecordsSame, NodesSame DEF IInv, Timeout, OrchOK, RecordsOK
<1>3. PcOK'
  BY <1>1, Aborts DEF IInv, Timeout, Pcs
<1>4. BoundsOK'
  BY Names DEF IInv, Timeout, BoundsOK, Fault
<1> QED BY <1>1, <1>2, <1>3, <1>4 DEF IInv, Timeout, GraphOK, DriveOK, CallerOK, graph

LEMMA CrashStep ==
  ASSUME IInv, NEW w \in Workers, Crash(w)
  PROVE  IInv'
<1>1. ChildrenOK' /\ Kept
  BY ChildrenSame DEF IInv, Crash
<1>2. NodesOK' /\ PcOK' /\ DriveOK' /\ RecordsOK'
  BY <1>1, Leaves DEF Crash
<1>3. OrchOK'
  BY <1>1, OrchSame DEF IInv, Crash, OrchOK
<1>4. BoundsOK'
  BY Names DEF IInv, Crash, BoundsOK, Fault
<1> QED BY <1>1, <1>2, <1>3, <1>4 DEF IInv, Crash, GraphOK, CallerOK, graph

-----------------------------------------------------------------------------
(* The invariant. *)

LEMMA InitInvariant == Init => IInv
<1> SUFFICES ASSUME Init
             PROVE  IInv
  OBVIOUS
<1>1. OrchOK
  BY DEF Init, OrchOK, Orch, OrchStatus, Actors, CompletedIsComplete
<1>2. RecordsOK
  BY DEF Init, RecordsOK, Row, DelegStatus, RecordsAreTrue
<1>3. ChildrenOK
  BY DEF Init, ChildrenOK, ChildStatus, DependenciesFirst
<1>4. NodesOK
  <2>1. ASSUME NEW w \in Workers, NEW t \in Tasks
        PROVE  NodeOK(t, node[w][t], child)
    <3>1. node[w][t] = At("idle") /\ "idle" \in Inactive \cup {"stale"}
      BY DEF Init, Inactive
    <3> QED BY <3>1, IdleNode
  <2>2. At("idle") \in [step : Step, event : Event]
    BY DEF At, Step, Event
  <2> QED BY <2>1, <2>2 DEF Init, NodesOK
<1>5. PcOK
  BY DEF Init, PcOK, Pcs
<1>6. GraphOK /\ DriveOK /\ CallerOK /\ BoundsOK
  BY Names DEF Init, GraphOK, DriveOK, CallerOK, NoCall, BoundsOK
<1> QED BY <1>1, <1>2, <1>3, <1>4, <1>5, <1>6 DEF IInv

LEMMA NextInvariant ==
  ASSUME IInv, Next
  PROVE  IInv'
<1>1. CASE \E w \in Workers : ExecutionStep(w)
  BY <1>1, ClaimStep, BeginStep, PrepareStep, LoadStep, FinishStep, ConcludeStep, AlarmStep,
     RecoverStep DEF ExecutionStep
<1>2. CASE \E w \in Workers, t \in Tasks : NodeStep(w, t)
  BY <1>2, EnterStep, MarkStep, AnnounceStep, CallStep, RecordStep, ForwardStep, ChildStopsStep,
     ChildInterruptedStep, ChildUnheardStep, SettleStep, ReportStep, FailStep, ApologiseStep,
     QuitStep, ReleaseStep DEF NodeStep
<1>3. CASE CallerStep
  BY <1>3, CancellingStep, ResumeRunStep, CancelChildStep, ResumeDelegationStep DEF CallerStep
<1>4. CASE Calls
  BY <1>4, CancelRunStep, ResumeStep, DecideStep DEF Calls
<1>5. CASE Passing
  BY <1>5, LeaseStep DEF Passing
<1>6. CASE Faults
  BY <1>6, LeaseStep, TimeoutStep, CrashStep DEF Faults
<1> QED BY <1>1, <1>2, <1>3, <1>4, <1>5, <1>6 DEF Next, ProcessStep

LEMMA Stutter ==
  ASSUME IInv, UNCHANGED vars
  PROVE  IInv'
<1>1. UNCHANGED <<orch, deleg, children, graph, process, caller, orchAt, delegAt, bounds>>
  BY DEF vars, process
<1>2. ChildrenOK' /\ Kept
  BY <1>1, ChildrenSame DEF IInv
<1>3. OrchOK' /\ RecordsOK' /\ NodesOK' /\ PcOK' /\ DriveOK'
  BY <1>1, <1>2, OrchSame, RecordsSame, ProcessSame DEF IInv, OrchOK, RecordsOK
<1> QED BY <1>1, <1>2, <1>3 DEF IInv, GraphOK, CallerOK, BoundsOK, graph, bounds

LEMMA Invariance == Spec => []IInv
<1>1. IInv /\ [Next]_vars => IInv'
  BY NextInvariant, Stutter
<1> QED BY <1>1, InitInvariant, PTL DEF Spec

\* Every reachable state has the shape that the tables, LangGraph and the processes allow.
THEOREM TypeCorrect == Spec => []TypeOK
<1>1. IInv => TypeOK
  BY DEF IInv, TypeOK, OrchOK, RecordsOK, ChildrenOK, NodesOK, PcOK, GraphOK, DriveOK, CallerOK,
         BoundsOK, Orch, Row, Pcs, Actors
<1> QED BY <1>1, Invariance, PTL

\* For every graph of tasks: no child run starts before those it depends on have
\* completed, whoever drives the graph and however often it is taken over or resumed.
THEOREM DependenciesComeFirst == Spec => []DependenciesFirst
<1>1. IInv => DependenciesFirst
  BY DEF IInv, ChildrenOK
<1> QED BY <1>1, Invariance, PTL

\* No record says "completed" of a child that has not, although records are written
\* without the orchestration's lease.
THEOREM NoResultIsInvented == Spec => []RecordsAreTrue
<1>1. IInv => RecordsAreTrue
  BY DEF IInv, RecordsOK
<1> QED BY <1>1, Invariance, PTL

\* An orchestration that reports its outputs has them all.
THEOREM OutputsAreComplete == Spec => []CompletedIsComplete
<1>1. IInv => CompletedIsComplete
  BY DEF IInv, OrchOK
<1> QED BY <1>1, Invariance, PTL

\* What can still write the row has a live lease or a copy of a waiting row, so an
\* orchestration that has ended keeps its verdict.
THEOREM VerdictIsFinal == Spec => VerdictStays
<1>1. ASSUME IInv, [Next]_vars, orch.status \in Ended
      PROVE  orch'.status = orch.status
  <2>1. /\ orch.status \notin {"pending", "running", "waiting"}
        /\ ~orch.live /\ "caller" \notin orchAt
    BY <1>1 DEF IInv, OrchOK, Ended
  <2>2. \A w \in Workers : ~MayWrite(w) /\ ~Claimable
    BY <2>1 DEF MayWrite, Claimable
  <2>3. \A w \in Workers : \A s : ~Stores(w, s)
    BY <2>2 DEF Stores
  <2>4. ASSUME NEW w \in Workers, ProcessStep(w)
        PROVE  orch' = orch
    <3>1. ASSUME NEW t \in Tasks, NodeStep(w, t)
          PROVE  orch' = orch
      BY <2>3, <3>1 DEF NodeStep, Enter, Mark, Announce, Call, Record, Forward, ChildStops,
         ChildInterrupted, ChildUnheard, Settle, Report, Fail, Apologise, Quit, Release,
         NodeRecords, NodePublishes, Conflicts, Tell
    <3>2. ASSUME ExecutionStep(w)
          PROVE  orch' = orch
      BY <2>2, <2>3, <3>2 DEF ExecutionStep, Claim, Begin, Prepare, Load, Finish, Conclude, Alarm,
         Recover, Conflicts
    <3> QED BY <2>4, <3>1, <3>2 DEF ProcessStep
  <2>5. ASSUME CallerStep \/ Calls \/ Passing \/ Faults
        PROVE  orch' = orch
    BY <1>1, <2>1, <2>5 DEF CallerStep, Calls, Passing, Faults, ListDelegations, CallEnds, ResumeRun,
       CancelChild, CancelDelegation, ResumeDelegation, CancelRun, Resume, Decide, OrchLeaseEnds,
       ChildLeaseEnds, StallOrch, StallChild, Timeout, Crash
  <2>6. CASE UNCHANGED vars
    BY <2>6 DEF vars
  <2> QED BY <1>1, <2>4, <2>5, <2>6 DEF Next
<1>2. IInv /\ [Next]_vars => [orch.status \in Ended => orch'.status = orch.status]_vars
  BY <1>1
<1> QED BY <1>2, Invariance, PTL DEF Spec, VerdictStays
=============================================================================
