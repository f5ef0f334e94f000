--------------------------- MODULE AgentRun_proof ---------------------------
(***************************************************************************)
(* Proofs about AgentRun, for every set of calls and executions, every     *)
(* number of attempts, and every number of crashes, stalls and timeouts.   *)
(*                                                                         *)
(* The argument: an execution whose copy of a tool call's record is still  *)
(* the stored version (callAt) has in it exactly what the journal has, and *)
(* only such an execution gets an attempt into the journal.  So attempts   *)
(* are counted one by one, whoever makes them.                             *)
(*                                                                         *)
(* The second half is about the conversation (CInv): what an execution     *)
(* whose copy of the checkpoint is current (convAt) does with it, and what *)
(* each place in the tool node knows of the call it is to report.          *)
(***************************************************************************)
EXTENDS AgentRun, SequenceTheorems, TLAPS

ToolSteps == {"requested", "block", "approve", "request", "wait", "reject",
              "start", "execute", "calling", "unknown", "unwind", "append"}
HoldsCall == ToolSteps \cup {"appended"}
Resolved == {"approve", "request", "wait", "reject", "start", "execute", "calling"}

\* What the place of an execution in the tool node says of its call.
RowOK(r) ==
  /\ r.pc \in HoldsCall => r.call \in Calls
  /\ r.pc \in ToolSteps => r.copy.pending # <<>>
  /\ r.pc = "block" => r.call \in Unexposed
  /\ r.pc \in Resolved => r.call \notin Unexposed
  /\ r.pc = "reject" => r.call \in Gated /\ approval[r.call] = "rejected"
  /\ r.pc \in {"start", "execute", "calling"} /\ r.call \in Gated => approval[r.call] = "approved"

\* What a current copy of a record says.
Held(r) ==
  /\ r.pc \in HoldsCall
  /\ r.rec = journal[r.call]
  /\ r.rec.status # "absent"
  /\ r.pc = "calling" => r.rec.status = "executing"

\* What the journal says of the calls that were made.
CallOK(c) ==
  /\ invoked[c] = journal[c].att
  /\ journal[c].att <= AttemptsOf(c)
  /\ journal[c].status = "absent" => journal[c].att = 0
  /\ journal[c].status \in {"executing", "reconciliation_required"} => journal[c].att > 0
  /\ journal[c].att > 0 => /\ c \notin Unexposed \cup Invalid
                           /\ c \in Gated => approval[c] = "approved"

RunRow == [status : RunStatus, owner : Workers \cup {NoWorker}, live : BOOLEAN]
Reviewer == {"idle", "reopen", "release"}

\* The part of TypeOK that is not about the calls and the executions.
RestOK ==
  /\ run \in RunRow /\ conv \in Conversation
  /\ runAt \subseteq Workers /\ convAt \subseteq Workers
  /\ paused \in BOOLEAN /\ reviewer \in Reviewer /\ faults \in 0..MaxFaults

RowsOK == \A w \in Workers : RowOK(worker[w])
CopiesOK == \A w \in callAt : Held(worker[w])
CallsOK == \A c \in Calls : CallOK(c)

\* The inductive invariant.
IInv == TypeOK /\ RowsOK /\ CopiesOK /\ CallsOK

-----------------------------------------------------------------------------
(* What the helpers return. *)

LEMMA AttemptsType == \A c \in Calls : AttemptsOf(c) \in Nat
  BY ConstantsAssumption DEF AttemptsOf

LEMMA StoredType ==
  ASSUME TypeOK, NEW status \in RunStatus
  PROVE  Stored(status) \in RunRow
  BY DEF TypeOK, Stored, RunRow

LEMMA RouteType == \A c : Route(c) \in {"finish", "tool", "model"}
  BY DEF Route

LEMMA OutType == Out \in Worker /\ Out.pc = "out"
  BY DEF Out, Worker, Unsaved, Conversation, NoRecord, Record, CallStatus, Steps

LEMMA EnteringType ==
  ASSUME NEW node \in Steps
  PROVE  Entering(node) \in Worker /\ Entering(node).pc = node
<1>1. \A r \in Worker : [r EXCEPT !.pc = node] \in Worker /\ [r EXCEPT !.pc = node].pc = node
  BY DEF Worker
<1> QED BY <1>1, OutType DEF Entering

\* An execution that is not at work on a call needs no more than its type.
LEMMA IdleRow ==
  ASSUME NEW r, r.pc \notin HoldsCall
  PROVE  RowOK(r)
  BY DEF RowOK, HoldsCall, ToolSteps, Resolved

-----------------------------------------------------------------------------
(* Two ways an execution moves: it leaves the calls alone, or it writes one. *)

\* An execution that changes neither the calls nor the approvals.
LEMMA MoveKeeps ==
  ASSUME IInv, NEW w \in Workers, NEW r \in Worker,
         worker' = [worker EXCEPT ![w] = r], RowOK(r),
         callAt' \subseteq callAt, w \in callAt' => Held(r),
         UNCHANGED <<journal, approval, invoked>>, RestOK'
  PROVE  IInv'
<1>1. \A v \in Workers : worker'[v] = IF v = w THEN r ELSE worker[v]
  BY DEF IInv, TypeOK
<1>2. TypeOK'
  BY DEF IInv, TypeOK, RestOK, RunRow, Reviewer
<1>3. RowsOK'
  BY <1>1 DEF IInv, RowsOK, RowOK
<1>4. CopiesOK'
  BY <1>1 DEF IInv, TypeOK, CopiesOK, Held
<1>5. CallsOK'
  BY DEF IInv, CallsOK, CallOK
<1> QED BY <1>2, <1>3, <1>4, <1>5 DEF IInv

\* An execution that writes the record of its call, of which it has the stored version.
LEMMA WriteKeeps ==
  ASSUME IInv, NEW w \in Workers, NEW record \in Record, NEW next \in HoldsCall,
         AtStep(w, "block") \/ worker[w].pc \in Resolved,
         Journal(w, record, next),
         LET c == worker[w].call
             r == [worker[w] EXCEPT !.rec = record, !.pc = next]
         IN  /\ RowOK(r)
             /\ record.status # "absent"
             /\ next = "calling" => record.status = "executing"
             /\ invoked' = [invoked EXCEPT ![c] = record.att]
             /\ record.att <= AttemptsOf(c)
             /\ record.status \in {"executing", "reconciliation_required"} => record.att > 0
             /\ record.att > 0 => /\ c \notin Unexposed \cup Invalid
                                  /\ c \in Gated => approval[c] = "approved"
  PROVE  IInv'
<1> DEFINE c == worker[w].call
           r == [worker[w] EXCEPT !.rec = record, !.pc = next]
<1>1. worker[w] \in Worker /\ c \in Calls /\ w \in callAt
  BY DEF IInv, TypeOK, RowsOK, RowOK, Journal, CallCurrent, AtStep, Resolved, HoldsCall, ToolSteps
<1>2. r \in Worker /\ r.pc = next /\ r.rec = record /\ r.call = c /\ r.copy = worker[w].copy
  BY <1>1 DEF Worker, HoldsCall, ToolSteps, Steps
<1>3. worker' = [worker EXCEPT ![w] = r]
  BY DEF Journal
<1>4. \A v \in Workers : worker'[v] = IF v = w THEN r ELSE worker[v]
  BY <1>3 DEF IInv, TypeOK
<1>5. \A d \in Calls : journal'[d] = (IF d = c THEN record ELSE journal[d])
                       /\ invoked'[d] = (IF d = c THEN record.att ELSE invoked[d])
  BY <1>1 DEF Journal, IInv, TypeOK
<1>6. TypeOK'
  <2>1. journal' \in [Calls -> Record] /\ record.att \in Nat
    BY <1>1 DEF Journal, IInv, TypeOK, Record
  <2>2. worker' \in [Workers -> Worker]
    BY <1>2, <1>3 DEF IInv, TypeOK
  <2>3. callAt' \subseteq Workers
    BY DEF Journal, IInv, TypeOK, Others
  <2>4. invoked' \in [Calls -> Nat]
    BY <1>1, <2>1 DEF IInv, TypeOK
  <2> QED BY <2>1, <2>2, <2>3, <2>4 DEF IInv, TypeOK, Journal
<1>7. RowsOK'
  <2>1. RowOK(r)
    BY DEF r
  <2> QED BY <1>4, <2>1 DEF IInv, RowsOK, RowOK, Journal
<1>8. CopiesOK'
  <2> SUFFICES ASSUME NEW v \in callAt' PROVE Held(worker[v])'
    BY DEF CopiesOK
  <2>1. CASE v = w
    BY <2>1, <1>1, <1>2, <1>4, <1>5 DEF Held
  <2>2. CASE v # w
    <3>1. v \in callAt /\ v \in Workers /\ worker[v].call # c
      BY <2>2 DEF Journal, Others, IInv, TypeOK
    <3>2. worker[v].call \in Calls /\ Held(worker[v])
      BY <3>1 DEF IInv, RowsOK, RowOK, CopiesOK, Held
    <3> QED BY <2>2, <3>1, <3>2, <1>4, <1>5 DEF Held
  <2> QED BY <2>1, <2>2
<1>9. CallsOK'
  <2> SUFFICES ASSUME NEW d \in Calls PROVE CallOK(d)'
    BY DEF CallsOK
  <2>1. CASE d = c
    BY <2>1, <1>1, <1>5 DEF CallOK, Journal, AttemptsOf
  <2>2. CASE d # c
    BY <2>2, <1>5 DEF IInv, CallsOK, CallOK, Journal, AttemptsOf
  <2> QED BY <2>1, <2>2
<1> QED BY <1>6, <1>7, <1>8, <1>9 DEF IInv

-----------------------------------------------------------------------------
(* The helpers the actions are made of. *)

LEMMA Parts ==
  ASSUME IInv
  PROVE  /\ RestOK
         /\ \A w \in Workers : /\ worker[w] \in Worker /\ RowOK(worker[w])
                               /\ worker[w].pc \notin HoldsCall => w \notin callAt
  BY DEF IInv, TypeOK, RestOK, RunRow, Reviewer, RowsOK, CopiesOK, Held

\* An execution that takes up another place and lets go of the record of its call.
LEMMA LeaveKeeps ==
  ASSUME IInv, NEW w \in Workers, NEW r \in Worker, r.pc \notin HoldsCall,
         worker' = [worker EXCEPT ![w] = r], callAt' = callAt \ {w},
         UNCHANGED <<journal, approval, invoked>>, RestOK'
  PROVE  IInv'
<1>1. RowOK(r)
  BY IdleRow
<1> QED BY <1>1, MoveKeeps

\* An execution that was not at work on a call takes up another place.
LEMMA IdleKeeps ==
  ASSUME IInv, NEW w \in Workers, NEW r \in Worker,
         worker[w].pc \notin HoldsCall, r.pc \notin HoldsCall,
         worker' = [worker EXCEPT ![w] = r], callAt' = callAt,
         UNCHANGED <<journal, approval, invoked>>, RestOK'
  PROVE  IInv'
<1>1. callAt' = callAt \ {w}
  BY Parts
<1> QED BY <1>1, LeaveKeeps

\* An execution goes on with its call.
LEMMA GoOnKeeps ==
  ASSUME IInv, NEW w \in Workers, NEW next \in HoldsCall \ {"calling"},
         worker[w].pc \in HoldsCall, RowOK([worker[w] EXCEPT !.pc = next]),
         worker' = [worker EXCEPT ![w].pc = next], callAt' = callAt,
         UNCHANGED <<journal, approval, invoked>>, RestOK'
  PROVE  IInv'
<1> DEFINE r == [worker[w] EXCEPT !.pc = next]
<1>1. r \in Worker /\ r.pc = next /\ r.rec = worker[w].rec /\ r.call = worker[w].call
  BY Parts DEF Worker, HoldsCall, ToolSteps, Steps
<1>2. w \in callAt => Held(r)
  BY <1>1 DEF IInv, CopiesOK, Held
<1> QED BY <1>1, <1>2, MoveKeeps

LEMMA WithdrawKeeps ==
  ASSUME IInv, NEW w \in Workers, Withdraw(w)
  PROVE  IInv'
<1>1. RestOK'
  BY Parts DEF Withdraw, Leave, RestOK, store, around
<1> QED BY <1>1, LeaveKeeps, OutType DEF Withdraw, Leave, store, around, HoldsCall, ToolSteps

LEMMA MarkKeeps ==
  ASSUME IInv, NEW w \in Workers, NEW status \in RunStatus, Mark(w, status), faults' \in 0..MaxFaults
  PROVE  IInv'
<1>1. RestOK'
  <2>1. run' \in RunRow /\ runAt' \subseteq Workers
    BY Parts, StoredType DEF IInv, Mark, RestOK
  <2> QED BY <2>1, Parts DEF Mark, RestOK
<1> QED BY <1>1, LeaveKeeps, OutType DEF Mark, HoldsCall, ToolSteps

LEMMA FailKeeps ==
  ASSUME IInv, NEW w \in Workers, Fail(w)
  PROVE  IInv'
  BY MarkKeeps, Parts DEF Fail, RunStatus, Terminal, RestOK

LEMMA EndNodeKeeps ==
  ASSUME IInv, NEW w \in Workers, EndNode(w)
  PROVE  IInv'
<1>1. CASE MayWrite(w) /\ ~(~MayWrite(w) /\ Withdraw(w))
  <2> DEFINE r == Entering(Route(worker[w].copy))
  <2>1. r \in Worker /\ r.pc \notin HoldsCall
    BY RouteType, EnteringType DEF Steps, HoldsCall, ToolSteps
  <2>2. /\ worker' = [worker EXCEPT ![w] = r] /\ callAt' = callAt \ {w}
        /\ UNCHANGED <<journal, approval, invoked>>
    BY <1>1 DEF EndNode, store
  <2>3. RestOK'
    BY <1>1, Parts DEF EndNode, RestOK, store
  <2> QED BY <2>1, <2>2, <2>3, LeaveKeeps
<1> QED BY <1>1, WithdrawKeeps DEF EndNode

LEMMA PauseKeeps ==
  ASSUME IInv, NEW w \in Workers, NEW status \in RunStatus, Pause(w, status)
  PROVE  IInv'
<1>1. CASE MayWrite(w) /\ ~(~MayWrite(w) /\ Withdraw(w))
  <2>1. PICK r \in {Out, Entering("tool")} : worker' = [worker EXCEPT ![w] = r]
    BY <1>1 DEF Pause
  <2>2. r \in Worker /\ r.pc \notin HoldsCall
    BY <2>1, OutType, EnteringType DEF Steps, HoldsCall, ToolSteps
  <2>3. RestOK'
    <3>1. worker[w].resumed \in BOOLEAN
      BY Parts DEF Worker
    <3> QED BY <1>1, <3>1, Parts, StoredType DEF Pause, RestOK, IInv
  <2> QED BY <1>1, <2>1, <2>2, <2>3, LeaveKeeps DEF Pause
<1> QED BY <1>1, WithdrawKeeps DEF Pause

\* The run's row is fenced between two steps on a call ...
LEMMA FenceCallKeeps ==
  ASSUME IInv, NEW w \in Workers, NEW next \in HoldsCall \ {"calling"},
         worker[w].pc \in HoldsCall, RowOK([worker[w] EXCEPT !.pc = next]), Fence(w, next)
  PROVE  IInv'
<1>1. CASE MayWrite(w) /\ ~(~MayWrite(w) /\ Withdraw(w))
  <2>1. RestOK'
    BY <1>1, Parts DEF Fence, RestOK, store, around
  <2> QED BY <1>1, <2>1, GoOnKeeps DEF Fence, store, around
<1> QED BY <1>1, WithdrawKeeps DEF Fence

\* ... or between two that are not.
LEMMA FenceIdleKeeps ==
  ASSUME IInv, NEW w \in Workers, NEW next \in Steps \ HoldsCall,
         worker[w].pc \notin HoldsCall, Fence(w, next)
  PROVE  IInv'
<1>1. CASE MayWrite(w) /\ ~(~MayWrite(w) /\ Withdraw(w))
  <2> DEFINE r == [worker[w] EXCEPT !.pc = next]
  <2>1. r \in Worker /\ r.pc \notin HoldsCall
    BY Parts DEF Worker
  <2>2. RestOK'
    BY <1>1, Parts DEF Fence, RestOK, store, around
  <2> QED BY <1>1, <2>1, <2>2, IdleKeeps DEF Fence, store, around
<1> QED BY <1>1, WithdrawKeeps DEF Fence

LEMMA SaveIdleKeeps ==
  ASSUME IInv, NEW w \in Workers, NEW new \in Conversation, NEW next \in Steps \ HoldsCall,
         worker[w].pc \notin HoldsCall, SaveConv(w, new, next)
  PROVE  IInv'
<1>1. CASE ConvCurrent(w) /\ ~(~ConvCurrent(w) /\ Fail(w))
  <2> DEFINE r == [worker[w] EXCEPT !.copy = new, !.pc = next]
  <2>1. r \in Worker /\ r.pc \notin HoldsCall
    BY Parts DEF Worker
  <2>2. RestOK'
    BY <1>1, Parts DEF SaveConv, RestOK, around
  <2>3. worker' = [worker EXCEPT ![w] = r] /\ callAt' = callAt /\ UNCHANGED <<journal, approval, invoked>>
    BY <1>1 DEF SaveConv, around
  <2> HIDE DEF r
  <2> QED BY <2>1, <2>2, <2>3, IdleKeeps
<1> QED BY <1>1, FailKeeps DEF SaveConv

\* The one save that is made while at work on a call.
LEMMA SaveResultKeeps ==
  ASSUME IInv, NEW w \in Workers, NEW new \in Conversation,
         worker[w].pc \in HoldsCall, SaveConv(w, new, "appended")
  PROVE  IInv'
<1>1. CASE ConvCurrent(w) /\ ~(~ConvCurrent(w) /\ Fail(w))
  <2> DEFINE r == [worker[w] EXCEPT !.copy = new, !.pc = "appended"]
  <2>1. /\ r \in Worker /\ r.pc = "appended" /\ r.call = worker[w].call
        /\ r.rec = worker[w].rec
    BY Parts DEF Worker, Steps
  <2>2. RowOK(r)
    BY <2>1, Parts DEF RowOK, HoldsCall, ToolSteps, Resolved
  <2>3. w \in callAt => Held(r)
    BY <2>1 DEF IInv, CopiesOK, Held, HoldsCall
  <2>4. RestOK'
    BY <1>1, Parts DEF SaveConv, RestOK, around
  <2>5. worker' = [worker EXCEPT ![w] = r] /\ callAt' = callAt /\ UNCHANGED <<journal, approval, invoked>>
    BY <1>1 DEF SaveConv, around
  <2> HIDE DEF r
  <2> QED BY <2>1, <2>2, <2>3, <2>4, <2>5, MoveKeeps
<1> QED BY <1>1, FailKeeps DEF SaveConv

LEMMA GotoKeeps ==
  ASSUME IInv, NEW w \in Workers, NEW next \in HoldsCall \ {"calling"},
         worker[w].pc \in HoldsCall, RowOK([worker[w] EXCEPT !.pc = next]), Goto(w, next)
  PROVE  IInv'
<1>1. RestOK'
  BY Parts DEF Goto, RestOK, store, current, around
<1> QED BY <1>1, GoOnKeeps DEF Goto, store, current, around

LEMMA LoadKeeps ==
  ASSUME IInv, NEW w \in Workers, NEW next \in Steps \ HoldsCall,
         worker[w].pc \notin HoldsCall, Load(w, next)
  PROVE  IInv'
<1> DEFINE r == [worker[w] EXCEPT !.pc = next, !.copy = conv]
<1>1. r \in Worker /\ r.pc \notin HoldsCall
  BY Parts DEF Worker, RestOK
<1>2. RestOK'
  BY Parts DEF Load, RestOK, store, around
<1> QED BY <1>1, <1>2, IdleKeeps DEF Load, store, around

LEMMA RerouteKeeps ==
  ASSUME IInv, NEW w \in Workers, worker[w].pc \notin HoldsCall, Reroute(w)
  PROVE  IInv'
<1> DEFINE r == Entering(Route(conv))
<1>1. r \in Worker /\ r.pc \notin HoldsCall
  BY RouteType, EnteringType DEF Steps, HoldsCall, ToolSteps
<1>2. RestOK'
  BY Parts DEF Reroute, RestOK, store, current, around
<1> HIDE DEF r
<1>3. worker' = [worker EXCEPT ![w] = r]
  BY DEF Reroute, r
<1> QED BY <1>1, <1>2, <1>3, IdleKeeps DEF Reroute, store, current, around

\* A call gets another status; only a call that was made can be of unknown outcome.
LEMMA SetStatusKeeps ==
  ASSUME IInv, NEW w \in Workers, NEW next \in HoldsCall \ {"calling"},
         NEW status \in CallStatus \ {"absent", "executing"},
         AtStep(w, "block") \/ worker[w].pc \in Resolved,
         status = "reconciliation_required" => worker[w].pc = "calling" \/ worker[w].rec.status = "executing",
         RowOK([worker[w] EXCEPT !.pc = next]), SetStatus(w, status, next)
  PROVE  IInv'
<1> DEFINE c == worker[w].call
           record == [worker[w].rec EXCEPT !.status = status]
           r == [worker[w] EXCEPT !.rec = record, !.pc = next]
<1>1. CASE Journal(w, record, next) /\ UNCHANGED invoked
  <2>1. /\ worker[w] \in Worker /\ c \in Calls /\ worker[w].rec = journal[c] /\ CallOK(c)
        /\ worker[w].pc = "calling" => worker[w].rec.status = "executing"
    BY <1>1, Parts DEF Journal, CallCurrent, IInv, CopiesOK, Held, RowOK, CallsOK,
       AtStep, Resolved, HoldsCall, ToolSteps
  <2>2. record \in Record /\ record.status = status /\ record.att = journal[c].att
    BY <2>1 DEF Worker, Record
  <2>3. r \in Worker /\ r.pc = next /\ r.call = c /\ r.copy = worker[w].copy
    BY <2>1, <2>2 DEF Worker, HoldsCall, ToolSteps, Steps
  <2>4. RowOK(r)
    <3>1. LET p == [worker[w] EXCEPT !.pc = next]
          IN  RowOK(p) /\ p.pc = next /\ p.call = c /\ p.copy = worker[w].copy
      BY <2>1 DEF Worker
    <3> QED BY <2>3, <3>1 DEF RowOK
  <2>5. invoked' = [invoked EXCEPT ![c] = record.att]
    BY <1>1, <2>1, <2>2 DEF CallOK, IInv, TypeOK
  <2>6. /\ record.att <= AttemptsOf(c)
        /\ record.att > 0 => /\ c \notin Unexposed \cup Invalid
                             /\ c \in Gated => approval[c] = "approved"
    BY <2>1, <2>2 DEF CallOK
  <2>7. record.status \in {"executing", "reconciliation_required"} => record.att > 0
    BY <2>1, <2>2 DEF CallOK
  <2> HIDE DEF record
  <2> QED BY <1>1, <2>2, <2>4, <2>5, <2>6, <2>7, WriteKeeps
<1>2. CASE CallConflict(w)
  BY <1>2, FailKeeps DEF CallConflict
<1> QED BY <1>1, <1>2 DEF SetStatus

-----------------------------------------------------------------------------
(* The actions of an execution. *)

LEMMA ClaimKeeps == ASSUME IInv, NEW w \in Workers, Claim(w) PROVE IInv'
<1> DEFINE r == [Out EXCEPT !.pc = "begin"]
<1>1. r \in Worker /\ r.pc \notin HoldsCall
  BY EnteringType DEF Entering, Steps, HoldsCall, ToolSteps
<1>2. RestOK'
  BY Parts DEF Claim, RestOK, RunRow, RunStatus, around
<1> HIDE DEF r
<1>3. worker' = [worker EXCEPT ![w] = r]
  BY DEF Claim, r
<1> QED BY <1>1, <1>2, <1>3, IdleKeeps DEF Claim, AtStep, around, HoldsCall, ToolSteps

LEMMA BeginKeeps == ASSUME IInv, NEW w \in Workers, Begin(w) PROVE IInv'
<1>1. CASE ~MayWrite(w) /\ Withdraw(w)
  BY <1>1, WithdrawKeeps
<1>2. CASE MayWrite(w)
  <2>1. PICK node \in {"prepare", "finish", "tool", "model"}, resumed \in BOOLEAN :
          worker' = [worker EXCEPT ![w] = [Out EXCEPT !.pc = node, !.resumed = resumed]]
    <3>1. \E node \in {"prepare"} \cup (IF conv.saved THEN {Route(conv)} ELSE {}) :
            \E resumed \in IF node = "tool" THEN {FALSE, paused} ELSE {FALSE} :
              worker' = [worker EXCEPT ![w] = [Out EXCEPT !.pc = node, !.resumed = resumed]]
      BY <1>2 DEF Begin
    <3>2. paused \in BOOLEAN
      BY Parts DEF RestOK
    <3> QED BY <3>1, <3>2, RouteType
  <2> DEFINE r == [Out EXCEPT !.pc = node, !.resumed = resumed]
  <2>2. r \in Worker /\ r.pc \notin HoldsCall
    BY OutType DEF Worker, Steps, HoldsCall, ToolSteps
  <2>3. RestOK'
    BY <1>2, Parts DEF Begin, RestOK, store, around
  <2> HIDE DEF r
  <2>4. worker' = [worker EXCEPT ![w] = r]
    BY <2>1 DEF r
  <2>5. callAt' = callAt /\ UNCHANGED <<journal, approval, invoked>>
    BY <1>2 DEF Begin, store, around
  <2>6. worker[w].pc \notin HoldsCall
    BY DEF Begin, AtStep, HoldsCall, ToolSteps
  <2> QED BY <2>2, <2>3, <2>4, <2>5, <2>6, IdleKeeps
<1> QED BY <1>1, <1>2 DEF Begin

LEMMA PrepareKeeps == ASSUME IInv, NEW w \in Workers, Prepare(w) PROVE IInv'
  BY LoadKeeps DEF Prepare, AtStep, Steps, HoldsCall, ToolSteps

LEMMA OpenKeeps == ASSUME IInv, NEW w \in Workers, Open(w) PROVE IInv'
<1>1. Unsaved \in Conversation
  BY DEF Unsaved, Conversation
<1>2. \A c \in Conversation : [c EXCEPT !.saved = TRUE] \in Conversation
  BY DEF Conversation
<1> QED BY <1>1, <1>2, SaveIdleKeeps, FailKeeps DEF Open, AtStep, Steps, HoldsCall, ToolSteps

LEMMA ReadyKeeps == ASSUME IInv, NEW w \in Workers, Ready(w) PROVE IInv'
  BY EndNodeKeeps DEF Ready

LEMMA ModelKeeps == ASSUME IInv, NEW w \in Workers, Model(w) PROVE IInv'
  BY WithdrawKeeps, LoadKeeps, RerouteKeeps
  DEF Model, Cancelled, AtStep, Steps, HoldsCall, ToolSteps

LEMMA CompactKeeps == ASSUME IInv, NEW w \in Workers, Compact(w) PROVE IInv'
  BY Parts, SaveIdleKeeps DEF Compact, Worker, AtStep, Steps, HoldsCall, ToolSteps

LEMMA CompactedKeeps == ASSUME IInv, NEW w \in Workers, Compacted(w) PROVE IInv'
  BY FenceIdleKeeps DEF Compacted, AtStep, Steps, HoldsCall, ToolSteps

LEMMA AskKeeps == ASSUME IInv, NEW w \in Workers, Ask(w) PROVE IInv'
  BY FailKeeps, FenceIdleKeeps DEF Ask, AtStep, Steps, HoldsCall, ToolSteps

LEMMA AnswerKeeps == ASSUME IInv, NEW w \in Workers, Answer(w) PROVE IInv'
<1> DEFINE old == worker[w].copy
           seen == {old.results[i][1] : i \in DOMAIN old.results}
<1>1. old \in Conversation
  BY Parts DEF Worker
<1>2. worker[w].pc \notin HoldsCall /\ "answered" \in Steps \ HoldsCall
  BY DEF Answer, AtStep, Steps, HoldsCall, ToolSteps
<1>3. CASE Cancelled(w)
  BY <1>3, WithdrawKeeps DEF Cancelled
<1>4. CASE Fail(w)
  BY <1>4, FailKeeps
<1>5. CASE SaveConv(w, [old EXCEPT !.final = TRUE], "answered")
  <2>1. [old EXCEPT !.final = TRUE] \in Conversation
    BY <1>1 DEF Conversation
  <2> QED BY <1>2, <1>5, <2>1, SaveIdleKeeps
<1>6. ASSUME NEW s \in Asked(seen), SaveConv(w, [old EXCEPT !.pending = s], "answered")
      PROVE  IInv'
  <2>1. s \in Seq(Calls)
    <3>1. PICK n \in 1..2 : s \in [1..n -> Calls \ seen]
      BY DEF Asked
    <3>2. n \in Nat /\ s \in [1..n -> Calls]
      BY <3>1
    <3> QED BY <3>2
  <2>2. [old EXCEPT !.pending = s] \in Conversation
    BY <1>1, <2>1 DEF Conversation
  <2> QED BY <1>2, <1>6, <2>2, SaveIdleKeeps
<1> QED BY <1>3, <1>4, <1>5, <1>6 DEF Answer

LEMMA AnsweredKeeps == ASSUME IInv, NEW w \in Workers, Answered(w) PROVE IInv'
  BY EndNodeKeeps, FailKeeps DEF Answered

\* The tool node takes up its call: its record is made if it is not there yet.
LEMMA ToolKeeps == ASSUME IInv, NEW w \in Workers, Tool(w) PROVE IInv'
<1>1. worker[w].pc \notin HoldsCall
  BY DEF Tool, AtStep, HoldsCall, ToolSteps
<1>2. CASE Reroute(w)
  BY <1>1, <1>2, RerouteKeeps
<1>3. CASE Cancelled(w)
  BY <1>3, WithdrawKeeps DEF Cancelled
<1>4. CASE Fail(w)
  BY <1>4, FailKeeps
<1>5. CASE conv.pending # <<>> /\ ~Reroute(w) /\ ~Cancelled(w) /\ ~Fail(w)
  <2> DEFINE c == NextCall(conv)
             rec == IF c \in Journaled THEN journal[c] ELSE [NoRecord EXCEPT !.status = "pending"]
             r == [worker[w] EXCEPT !.pc = "requested", !.call = c, !.copy = conv, !.rec = rec]
  <2>1. /\ runAt' = runAt \cup {w} /\ convAt' = convAt \cup {w} /\ callAt' = callAt \cup {w}
        /\ journal' = [journal EXCEPT ![c] = rec] /\ worker' = [worker EXCEPT ![w] = r]
        /\ UNCHANGED <<run, conv, approval, paused, reviewer, invoked, faults>>
    BY <1>5 DEF Tool, around
  <2>2. conv \in Conversation /\ worker[w] \in Worker /\ c \in Calls /\ w \notin callAt
    BY <1>1, <1>5, Parts DEF RestOK, NextCall, Conversation
  <2>3. /\ c \in Journaled => rec = journal[c]
        /\ c \notin Journaled => rec = [status |-> "pending", att |-> 0]
    BY DEF NoRecord
  <2>4. rec \in Record /\ rec.status # "absent"
    BY <2>2, <2>3 DEF IInv, TypeOK, Record, CallStatus, Journaled
  <2> HIDE DEF rec
  <2>5. /\ r \in Worker /\ r.pc = "requested" /\ r.call = c /\ r.rec = rec /\ r.copy = conv
    BY <2>2, <2>4 DEF Worker, Steps
  <2> HIDE DEF r, c
  <2>6. /\ \A v \in Workers : worker'[v] = IF v = w THEN r ELSE worker[v]
        /\ \A d \in Calls : journal'[d] = IF d = c THEN rec ELSE journal[d]
    BY <2>1 DEF IInv, TypeOK
  <2>7. TypeOK'
    BY <2>1, <2>2, <2>4, <2>5 DEF IInv, TypeOK
  <2>8. RowsOK'
    <3>1. RowOK(r)
      BY <1>5, <2>2, <2>5 DEF RowOK, HoldsCall, ToolSteps, Resolved
    <3> QED BY <2>1, <2>6, <3>1 DEF IInv, RowsOK, RowOK
  <2>9. CopiesOK'
    <3> SUFFICES ASSUME NEW v \in callAt' PROVE Held(worker[v])'
      BY DEF CopiesOK
    <3>1. CASE v = w
      BY <3>1, <2>2, <2>4, <2>5, <2>6 DEF Held, HoldsCall, ToolSteps
    <3>2. CASE v # w
      <4>1. v \in callAt /\ v \in Workers /\ worker[v].call \in Calls /\ Held(worker[v])
        BY <3>2, <2>1 DEF IInv, TypeOK, RowsOK, RowOK, CopiesOK, Held
      <4>2. worker[v].call = c => rec = journal[c]
        BY <2>2, <2>3, <4>1 DEF Held, Journaled
      <4> QED BY <3>2, <2>6, <4>1, <4>2 DEF Held
    <3> QED BY <3>1, <3>2
  <2>10. CallsOK'
    <3> SUFFICES ASSUME NEW d \in Calls PROVE CallOK(d)'
      BY DEF CallsOK
    <3>1. CallOK(d)
      BY DEF IInv, CallsOK
    <3>2. CASE d = c /\ c \notin Journaled
      <4>1. journal'[d] = [status |-> "pending", att |-> 0] /\ invoked'[d] = 0
        BY <3>1, <3>2, <2>1, <2>3, <2>6 DEF CallOK, Journaled
      <4> QED BY <4>1, AttemptsType DEF CallOK
    <3>3. CASE d # c \/ c \in Journaled
      <4>1. journal'[d] = journal[d] /\ invoked'[d] = invoked[d] /\ approval'[d] = approval[d]
        BY <3>3, <2>1, <2>3, <2>6
      <4> QED BY <3>1, <4>1 DEF CallOK, AttemptsOf
    <3> QED BY <3>2, <3>3
  <2> QED BY <2>7, <2>8, <2>9, <2>10 DEF IInv
<1> QED BY <1>2, <1>3, <1>4, <1>5 DEF Tool

\* Where an execution may go with its call.
LEMMA NextRow ==
  ASSUME IInv, NEW w \in Workers, worker[w].pc \in HoldsCall, NEW next \in HoldsCall
  PROVE  LET r == [worker[w] EXCEPT !.pc = next]
             c == worker[w].call
         IN  /\ worker[w].pc \in ToolSteps => r.copy.pending # <<>>
             /\ c \in Calls /\ r.call = c /\ r.pc = next /\ r.copy = worker[w].copy
  BY Parts DEF Worker, RowOK

LEMMA RequestedKeeps == ASSUME IInv, NEW w \in Workers, Requested(w) PROVE IInv'
<1> DEFINE next == IF worker[w].call \in Unexposed THEN "block" ELSE "approve"
<1>1. worker[w].pc \in ToolSteps /\ worker[w].pc \in HoldsCall /\ next \in HoldsCall \ {"calling"}
  BY DEF Requested, AtStep, HoldsCall, ToolSteps
<1>2. RowOK([worker[w] EXCEPT !.pc = next])
  BY <1>1, NextRow DEF RowOK, Resolved
<1> QED BY <1>1, <1>2, FenceCallKeeps DEF Requested

LEMMA BlockKeeps == ASSUME IInv, NEW w \in Workers, Block(w) PROVE IInv'
<1>1. /\ worker[w].pc \in ToolSteps /\ worker[w].pc \in HoldsCall
      /\ "append" \in HoldsCall \ {"calling"} /\ AtStep(w, "block")
      /\ "blocked" \in CallStatus \ {"absent", "executing"}
  BY DEF Block, AtStep, HoldsCall, ToolSteps, CallStatus
<1>2. RowOK([worker[w] EXCEPT !.pc = "append"])
  BY <1>1, NextRow DEF RowOK, Resolved
<1> QED BY <1>1, <1>2, GotoKeeps, SetStatusKeeps DEF Block

LEMMA ApproveKeeps == ASSUME IInv, NEW w \in Workers, Approve(w) PROVE IInv'
<1> DEFINE c == worker[w].call
           To(next) == [worker[w] EXCEPT !.pc = next]
<1>1. /\ worker[w].pc \in ToolSteps /\ worker[w].pc \in HoldsCall /\ worker[w].pc \in Resolved
      /\ {"start", "request", "wait", "reject"} \subseteq HoldsCall \ {"calling"}
      /\ {"waiting_approval", "pending"} \subseteq CallStatus \ {"absent", "executing"}
  BY DEF Approve, AtStep, HoldsCall, ToolSteps, Resolved, CallStatus
<1>2. c \notin Unexposed
  BY <1>1, Parts DEF RowOK
<1>3. RowOK(To("request")) /\ RowOK(To("wait"))
  BY <1>1, <1>2, NextRow DEF RowOK, Resolved
<1>4. NeedsApproval(c) /\ approval[c] = "rejected" => RowOK(To("reject"))
  BY <1>1, <1>2, NextRow DEF RowOK, Resolved, NeedsApproval
<1>5. ~NeedsApproval(c) \/ approval[c] = "approved" => RowOK(To("start"))
  BY <1>1, <1>2, NextRow DEF RowOK, Resolved, NeedsApproval
<1>6. approval[c] \in Approval
  BY <1>1, NextRow DEF IInv, TypeOK
<1>7. CASE ~NeedsApproval(c)
  BY <1>1, <1>5, <1>7, GotoKeeps DEF Approve
<1>8. CASE NeedsApproval(c) /\ approval[c] = "none"
  <2>1. Goto(w, "request") \/ SetStatus(w, "waiting_approval", "request")
    BY <1>8 DEF Approve
  <2> QED BY <1>1, <1>3, <2>1, GotoKeeps, SetStatusKeeps
<1>9. CASE NeedsApproval(c) /\ approval[c] = "pending"
  BY <1>1, <1>3, <1>9, GotoKeeps DEF Approve
<1>10. CASE NeedsApproval(c) /\ approval[c] = "rejected"
  BY <1>1, <1>4, <1>10, GotoKeeps DEF Approve
<1>11. CASE NeedsApproval(c) /\ approval[c] = "approved"
  <2>1. Goto(w, "start") \/ SetStatus(w, "pending", "start")
    BY <1>11 DEF Approve
  <2> QED BY <1>1, <1>5, <1>11, <2>1, GotoKeeps, SetStatusKeeps
<1> QED BY <1>6, <1>7, <1>8, <1>9, <1>10, <1>11 DEF Approval

\* A decided approval stays as it is.
LEMMA RequestKeeps == ASSUME IInv, NEW w \in Workers, Request(w) PROVE IInv'
<1> DEFINE c == worker[w].call
<1>1. /\ worker[w].pc \in ToolSteps /\ worker[w].pc \in HoldsCall /\ worker[w].pc \in Resolved
      /\ {"approve", "wait"} \subseteq HoldsCall \ {"calling"}
  BY DEF Request, AtStep, HoldsCall, ToolSteps, Resolved
<1>2. \A next \in {"approve", "wait"} : RowOK([worker[w] EXCEPT !.pc = next])
  BY <1>1, Parts, NextRow DEF RowOK, Resolved
<1>3. CASE approval[c] # "none" /\ Goto(w, "approve")
  BY <1>1, <1>2, <1>3, GotoKeeps
<1>4. CASE approval[c] = "none"
  <2> DEFINE r == [worker[w] EXCEPT !.pc = "wait"]
  <2>1. /\ approval' = [approval EXCEPT ![c] = "pending"] /\ worker' = [worker EXCEPT ![w] = r]
        /\ UNCHANGED <<run, conv, journal, runAt, convAt, callAt, paused, reviewer, invoked, faults>>
    BY <1>4 DEF Request, current, around
  <2>2. /\ r \in Worker /\ r.pc = "wait" /\ r.call = c /\ r.rec = worker[w].rec /\ c \in Calls
        /\ r.copy.pending # <<>> /\ c \notin Unexposed
    BY <1>1, Parts, NextRow DEF Worker, Steps, RowOK
  <2> HIDE DEF r
  <2>3. \A v \in Workers : worker'[v] = IF v = w THEN r ELSE worker[v]
    BY <2>1 DEF IInv, TypeOK
  <2>4. \A d \in Calls : approval'[d] = (IF d = c THEN "pending" ELSE approval[d])
    BY <2>1 DEF IInv, TypeOK
  <2>5. TypeOK'
    BY <2>1, <2>2 DEF IInv, TypeOK, Approval
  <2>6. RowsOK'
    <3> SUFFICES ASSUME NEW v \in Workers PROVE RowOK(worker[v])'
      BY DEF RowsOK
    <3>1. CASE v = w
      BY <3>1, <2>2, <2>3 DEF RowOK, Resolved
    <3>2. CASE v # w
      <4>1. RowOK(worker[v]) /\ worker'[v] = worker[v]
        BY <3>2, <2>3, Parts
      <4>2. \A d \in Calls : approval[d] \in {"approved", "rejected"} => approval'[d] = approval[d]
        BY <1>4, <2>4
      <4> QED BY <4>1, <4>2 DEF RowOK, HoldsCall, ToolSteps, Resolved
    <3> QED BY <3>1, <3>2
  <2>7. CopiesOK'
    BY <1>1, <2>1, <2>2, <2>3 DEF IInv, TypeOK, CopiesOK, Held, HoldsCall, ToolSteps
  <2>8. CallsOK'
    BY <1>4, <2>1, <2>4 DEF IInv, CallsOK, CallOK, AttemptsOf
  <2> QED BY <2>5, <2>6, <2>7, <2>8 DEF IInv
<1> QED BY <1>3, <1>4 DEF Request

LEMMA WaitKeeps == ASSUME IInv, NEW w \in Workers, Wait(w) PROVE IInv'
  BY PauseKeeps DEF Wait, RunStatus, Parked

LEMMA RejectKeeps == ASSUME IInv, NEW w \in Workers, Reject(w) PROVE IInv'
<1>1. /\ worker[w].pc \in ToolSteps /\ worker[w].pc \in HoldsCall /\ worker[w].pc \in Resolved
      /\ "append" \in HoldsCall \ {"calling"} /\ "rejected" \in CallStatus \ {"absent", "executing"}
  BY DEF Reject, AtStep, HoldsCall, ToolSteps, Resolved, CallStatus
<1>2. RowOK([worker[w] EXCEPT !.pc = "append"])
  BY <1>1, NextRow DEF RowOK, Resolved
<1> QED BY <1>1, <1>2, GotoKeeps, SetStatusKeeps DEF Reject

LEMMA StartKeeps == ASSUME IInv, NEW w \in Workers, Start(w) PROVE IInv'
<1>1. /\ worker[w].pc = "start" /\ worker[w].pc \in ToolSteps /\ worker[w].pc \in HoldsCall
      /\ "execute" \in HoldsCall \ {"calling"}
  BY DEF Start, AtStep, HoldsCall, ToolSteps
<1>2. RowOK([worker[w] EXCEPT !.pc = "execute"])
  BY <1>1, Parts, NextRow DEF RowOK, Resolved
<1> QED BY <1>1, <1>2, FenceCallKeeps DEF Start

\* An attempt is one more than the journal has, and is in the journal before the call.
LEMMA AttemptKeeps ==
  ASSUME IInv, NEW w \in Workers, AtStep(w, "execute"), Attempt(w),
         worker[w].call \notin Invalid, worker[w].rec.att < AttemptsOf(worker[w].call)
  PROVE  IInv'
<1> DEFINE c == worker[w].call
           record == [status |-> "executing", att |-> worker[w].rec.att + 1]
           r == [worker[w] EXCEPT !.rec = record, !.pc = "calling"]
<1>1. CASE Journal(w, record, "calling") /\ invoked' = [invoked EXCEPT ![c] = @ + 1]
  <2>1. worker[w].pc \in HoldsCall /\ worker[w].pc \in ToolSteps /\ worker[w].pc \in Resolved
    BY DEF AtStep, HoldsCall, ToolSteps, Resolved
  <2>2. /\ worker[w] \in Worker /\ c \in Calls /\ worker[w].rec = journal[c] /\ CallOK(c)
        /\ RowOK(worker[w])
    BY <1>1, <2>1, Parts DEF Journal, CallCurrent, IInv, CopiesOK, Held, RowOK, CallsOK
  <2>3. /\ record \in Record /\ record.status = "executing" /\ record.att = worker[w].rec.att + 1
        /\ worker[w].rec.att \in Nat /\ record.att > 0
    BY <2>2 DEF Worker, Record, CallStatus
  <2>4. r \in Worker /\ r.pc = "calling" /\ r.call = c /\ r.copy = worker[w].copy
    BY <2>2, <2>3 DEF Worker, Steps
  <2>5. RowOK(r)
    BY <2>1, <2>2, <2>4 DEF RowOK, HoldsCall, ToolSteps, Resolved, AtStep
  <2>6. invoked' = [invoked EXCEPT ![c] = record.att]
    BY <1>1, <2>2, <2>3 DEF CallOK
  <2>7. record.att <= AttemptsOf(c)
    BY <2>2, <2>3, AttemptsType
  <2>8. c \notin Unexposed \cup Invalid /\ (c \in Gated => approval[c] = "approved")
    BY <2>1, <2>2 DEF RowOK, AtStep
  <2>9. "calling" \in HoldsCall
    BY DEF HoldsCall, ToolSteps
  <2> HIDE DEF record
  <2> QED BY <1>1, <2>1, <2>3, <2>5, <2>6, <2>7, <2>8, <2>9, WriteKeeps
<1>2. CASE CallConflict(w)
  BY <1>2, FailKeeps DEF CallConflict
<1> QED BY <1>1, <1>2 DEF Attempt

LEMMA ExecuteKeeps == ASSUME IInv, NEW w \in Workers, Execute(w) PROVE IInv'
<1> DEFINE c == worker[w].call
           rec == worker[w].rec
<1>1. /\ AtStep(w, "execute") /\ worker[w].pc \in ToolSteps /\ worker[w].pc \in HoldsCall
      /\ worker[w].pc \in Resolved /\ {"append", "unwind", "unknown"} \subseteq HoldsCall \ {"calling"}
      /\ {"blocked", "reconciliation_required"} \subseteq CallStatus \ {"absent", "executing"}
  BY DEF Execute, AtStep, HoldsCall, ToolSteps, Resolved, CallStatus
<1>2. \A next \in {"append", "unwind", "unknown"} : RowOK([worker[w] EXCEPT !.pc = next])
  BY <1>1, Parts, NextRow DEF RowOK, Resolved
<1>3. CASE rec.status = "succeeded"
  <2>1. Goto(w, "append")
    BY <1>3 DEF Execute
  <2> QED BY <1>1, <1>2, <2>1, GotoKeeps
<1>4. CASE rec.status = "reconciliation_required"
  <2>1. Goto(w, "unwind")
    BY <1>4 DEF Execute
  <2> QED BY <1>1, <1>2, <2>1, GotoKeeps
<1>5. CASE rec.status \notin {"succeeded", "reconciliation_required"}
  <2>1. CASE c \in Invalid
    <3>1. SetStatus(w, "blocked", "append")
      BY <1>5, <2>1 DEF Execute
    <3> QED BY <1>1, <1>2, <3>1, SetStatusKeeps
  <2>2. CASE c \notin Invalid /\ Unobserved(rec, c)
    <3>1. SetStatus(w, "reconciliation_required", "unknown")
      BY <1>5, <2>2 DEF Execute
    <3>2. rec.status = "executing"
      BY <2>2 DEF Unobserved
    <3> QED BY <1>1, <1>2, <3>1, <3>2, SetStatusKeeps
  <2>3. CASE c \notin Invalid /\ ~Unobserved(rec, c) /\ rec.att >= AttemptsOf(c)
    <3>1. Goto(w, "append")
      BY <1>5, <2>3 DEF Execute
    <3> QED BY <1>1, <1>2, <3>1, GotoKeeps
  <2>4. CASE c \notin Invalid /\ ~Unobserved(rec, c) /\ ~(rec.att >= AttemptsOf(c))
    <3>1. Cancelled(w) \/ Attempt(w)
      BY <1>5, <2>4 DEF Execute
    <3>2. rec.att \in Nat /\ AttemptsOf(c) \in Nat
      BY <1>1, NextRow, Parts, AttemptsType DEF Worker, Record
    <3> QED BY <1>1, <2>4, <3>1, <3>2, AttemptKeeps, WithdrawKeeps DEF Cancelled
  <2> QED BY <2>1, <2>2, <2>3, <2>4
<1> QED BY <1>3, <1>4, <1>5

\* The three places where a call ends.
LEMMA EndOfCall ==
  ASSUME IInv, NEW w \in Workers, AtStep(w, "calling"), NEW next \in {"execute", "append", "unknown", "unwind"}
  PROVE  /\ RowOK([worker[w] EXCEPT !.pc = next]) /\ next \in HoldsCall \ {"calling"}
         /\ worker[w].pc \in HoldsCall /\ worker[w].pc \in Resolved
         /\ {"succeeded", "failed", "reconciliation_required"} \subseteq CallStatus \ {"absent", "executing"}
<1>1. worker[w].pc \in ToolSteps /\ worker[w].pc \in HoldsCall /\ worker[w].pc \in Resolved /\ next \in HoldsCall
  BY DEF AtStep, HoldsCall, ToolSteps, Resolved
<1>2. RowOK([worker[w] EXCEPT !.pc = next])
  BY <1>1, Parts, NextRow DEF RowOK, Resolved, AtStep
<1> QED BY <1>1, <1>2 DEF CallStatus

LEMMA ReturnKeeps == ASSUME IInv, NEW w \in Workers, Return(w) PROVE IInv'
<1>1. AtStep(w, "calling")
  BY DEF Return
<1>2. CASE Journal(w, [worker[w].rec EXCEPT !.status = "succeeded"], "append") /\ UNCHANGED invoked
  <2>1. SetStatus(w, "succeeded", "append")
    BY <1>2 DEF SetStatus
  <2> QED BY <1>1, <2>1, EndOfCall, SetStatusKeeps
<1>3. CASE SetStatus(w, "reconciliation_required", "unknown")
  BY <1>1, <1>3, EndOfCall, SetStatusKeeps DEF AtStep
<1>4. CASE Goto(w, "execute")
  BY <1>1, <1>4, EndOfCall, GotoKeeps
<1>5. CASE SetStatus(w, "failed", "append")
  BY <1>1, <1>5, EndOfCall, SetStatusKeeps
<1> QED BY <1>2, <1>3, <1>4, <1>5 DEF Return

LEMMA OutliveKeeps == ASSUME IInv, NEW w \in Workers, Outlive(w) \/ Interrupt(w) PROVE IInv'
  BY EndOfCall, SetStatusKeeps DEF Outlive, Interrupt, AtStep

LEMMA UnknownKeeps == ASSUME IInv, NEW w \in Workers, Unknown(w) PROVE IInv'
  BY PauseKeeps DEF Unknown, RunStatus, Parked

LEMMA UnwindKeeps == ASSUME IInv, NEW w \in Workers, Unwind(w) PROVE IInv'
  BY MarkKeeps, Parts DEF Unwind, RunStatus, Parked, RestOK

\* The pending call goes from the head of the queue to the results.
LEMMA AppendKeeps == ASSUME IInv, NEW w \in Workers, AppendResult(w) PROVE IInv'
<1> DEFINE old == worker[w].copy
           told == <<worker[w].call, worker[w].rec.status>>
           new == [old EXCEPT !.pending = Tail(@), !.results = Append(@, told)]
<1>1. worker[w].pc \in HoldsCall /\ worker[w].pc \in ToolSteps
  BY DEF AppendResult, AtStep, HoldsCall, ToolSteps
<1>2. old \in Conversation /\ worker[w].rec \in Record /\ worker[w].call \in Calls /\ old.pending # <<>>
  BY <1>1, Parts DEF Worker, RowOK
<1>3. Tail(old.pending) \in Seq(Calls) /\ Append(old.results, told) \in Seq(Calls \X CallStatus)
  BY <1>2 DEF Conversation, Record
<1>4. new \in Conversation
  BY <1>2, <1>3 DEF Conversation
<1> QED BY <1>1, <1>4, SaveResultKeeps DEF AppendResult

LEMMA AppendedKeeps == ASSUME IInv, NEW w \in Workers, Appended(w) PROVE IInv'
  BY EndNodeKeeps DEF Appended

LEMMA FinishKeeps == ASSUME IInv, NEW w \in Workers, Finish(w) PROVE IInv'
  BY LoadKeeps DEF Finish, AtStep, Steps, HoldsCall, ToolSteps

LEMMA CompleteKeeps == ASSUME IInv, NEW w \in Workers, Complete(w) PROVE IInv'
<1>1. CASE ~MayWrite(w) /\ Withdraw(w)
  BY <1>1, WithdrawKeeps
<1>2. CASE MayWrite(w)
  <2>1. RestOK'
    BY <1>2, Parts, StoredType DEF Complete, RestOK, IInv, RunStatus, Terminal, around
  <2> QED BY <1>2, <2>1, LeaveKeeps, OutType DEF Complete, around, HoldsCall, ToolSteps
<1> QED BY <1>1, <1>2 DEF Complete

-----------------------------------------------------------------------------
(* Timeouts, deaths, leases, the caller and the reviewer. *)

LEMMA TimeOutKeeps == ASSUME IInv, NEW w \in Workers, TimeOut(w) PROVE IInv'
<1>1. PICK status \in {"pending", "failed"} : Mark(w, status)
  BY DEF TimeOut
<1>2. faults' \in 0..MaxFaults
  BY Parts, ConstantsAssumption DEF TimeOut, Fault, RestOK
<1> QED BY <1>1, <1>2, MarkKeeps DEF RunStatus, Terminal

LEMMA CrashKeeps == ASSUME IInv, NEW w \in Workers, Crash(w) PROVE IInv'
<1>1. RestOK'
  BY Parts, ConstantsAssumption DEF Crash, Leave, Fault, RestOK, store
<1> QED BY <1>1, LeaveKeeps, OutType DEF Crash, Leave, store, HoldsCall, ToolSteps

\* What happens to the run's row outside of its executions.
LEMMA OutsideKeeps ==
  ASSUME IInv, UNCHANGED <<worker, callAt, journal, approval, invoked>>, RestOK'
  PROVE  IInv'
  BY DEF IInv, TypeOK, RestOK, RunRow, Reviewer, RowsOK, RowOK, CopiesOK, Held, CallsOK, CallOK,
     AttemptsOf

LEMMA LapseKeeps == ASSUME IInv, Lapse PROVE IInv'
<1>1. faults' \in 0..MaxFaults
  BY Parts, ConstantsAssumption DEF Lapse, Fault, RestOK
<1>2. RestOK'
  BY <1>1, Parts DEF Lapse, RestOK, RunRow, current
<1> QED BY <1>2, OutsideKeeps DEF Lapse, current

LEMMA CancelKeeps == ASSUME IInv, Cancel PROVE IInv'
<1>1. RestOK'
  BY Parts, StoredType DEF Cancel, RestOK, IInv, RunStatus, Terminal, around
<1> QED BY <1>1, OutsideKeeps DEF Cancel, around

LEMMA PutBackKeeps ==
  ASSUME IInv, NEW request, NEW status, PutBack(request, status)
  PROVE  IInv'
<1>1. run' \in RunRow /\ runAt' \subseteq Workers
  BY Parts, StoredType DEF PutBack, RestOK, IInv, RunStatus
<1>2. RestOK'
  BY <1>1, Parts DEF PutBack, RestOK, Reviewer
<1> QED BY <1>2, OutsideKeeps DEF PutBack

LEMMA ReviewerDiesKeeps == ASSUME IInv, ReviewerDies PROVE IInv'
<1>1. RestOK'
  BY Parts, ConstantsAssumption DEF ReviewerDies, Fault, RestOK, Reviewer, store, current
<1> QED BY <1>1, OutsideKeeps DEF ReviewerDies, store, current

\* A decision is made once; made again, it is the same.
LEMMA DecideKeeps ==
  ASSUME IInv, NEW c \in Calls, NEW d \in {"approved", "rejected"}, Decide(c, d)
  PROVE  IInv'
<1>1. \A e \in Calls : approval'[e] = IF e = c THEN d ELSE approval[e]
  BY DEF Decide, IInv, TypeOK
<1>2. \A e \in Calls : approval[e] \in {"approved", "rejected"} => approval'[e] = approval[e]
  BY <1>1 DEF Decide
<1>3. TypeOK'
  BY DEF Decide, IInv, TypeOK, Approval, current
<1>4. RowsOK'
  BY <1>2 DEF Decide, IInv, RowsOK, RowOK, HoldsCall, ToolSteps, Resolved
<1>5. CopiesOK'
  BY DEF Decide, current, IInv, CopiesOK, Held
<1>6. CallsOK'
  BY <1>2 DEF Decide, IInv, CallsOK, CallOK, AttemptsOf
<1> QED BY <1>3, <1>4, <1>5, <1>6 DEF IInv

\* The status of a call is set by somebody who is no execution: no copy is current then.
LEMMA OverrideKeeps ==
  ASSUME IInv, NEW c \in Calls, NEW status \in {"succeeded", "failed", "compensated", "compensation_failed"},
         journal[c].status # "absent",
         journal' = [journal EXCEPT ![c].status = status], callAt' = Others(c),
         UNCHANGED <<worker, approval, invoked>>, RestOK'
  PROVE  IInv'
<1>1. journal[c] \in Record /\ status \in CallStatus
  BY DEF IInv, TypeOK, CallStatus
<1>2. PICK new \in Record : new.status = status /\ new.att = journal[c].att
                             /\ journal' = [journal EXCEPT ![c] = new]
  BY <1>1 DEF Record
<1>3. \A d \in Calls : journal'[d] = IF d = c THEN new ELSE journal[d]
  BY <1>2 DEF IInv, TypeOK
<1>4. TypeOK'
  BY <1>2 DEF IInv, TypeOK, RestOK, RunRow, Reviewer, Others
<1>5. RowsOK'
  BY DEF IInv, RowsOK, RowOK
<1>6. CopiesOK'
  <2> SUFFICES ASSUME NEW v \in callAt' PROVE Held(worker[v])'
    BY DEF CopiesOK
  <2>1. v \in callAt /\ worker[v].call # c /\ worker[v].call \in Calls /\ Held(worker[v])
    BY DEF Others, IInv, TypeOK, RowsOK, RowOK, CopiesOK, Held
  <2> QED BY <1>3, <2>1 DEF Held
<1>7. CallsOK'
  <2> SUFFICES ASSUME NEW d \in Calls PROVE CallOK(d)'
    BY DEF CallsOK
  <2>1. CallOK(d) /\ invoked'[d] = invoked[d] /\ approval'[d] = approval[d]
    BY DEF IInv, CallsOK
  <2>2. CASE d = c
    BY <1>2, <1>3, <2>1, <2>2 DEF CallOK, AttemptsOf
  <2>3. CASE d # c
    BY <1>3, <2>1, <2>3 DEF CallOK, AttemptsOf
  <2> QED BY <2>2, <2>3
<1> QED BY <1>4, <1>5, <1>6, <1>7 DEF IInv

LEMMA ReconcileKeeps ==
  ASSUME IInv, NEW c \in Calls, NEW s \in {"succeeded", "failed"}, Reconcile(c, s)
  PROVE  IInv'
<1>1. RestOK'
  BY Parts DEF Reconcile, RestOK, Reviewer
<1> QED BY <1>1, OverrideKeeps DEF Reconcile

LEMMA CompensateKeeps ==
  ASSUME IInv, NEW c \in Calls, NEW s \in {"compensated", "compensation_failed"}, Compensate(c, s)
  PROVE  IInv'
<1>1. RestOK'
  BY Parts DEF Compensate, RestOK, around
<1> QED BY <1>1, OverrideKeeps DEF Compensate, around

-----------------------------------------------------------------------------
(* The invariant. *)

LEMMA InitHolds == Init => IInv
<1> SUFFICES ASSUME Init PROVE IInv
  OBVIOUS
<1>1. TypeOK
  <2>1. NoRecord \in Record /\ Unsaved \in Conversation
    BY DEF NoRecord, Record, CallStatus, Unsaved, Conversation
  <2>2. run \in [status : RunStatus, owner : Workers \cup {NoWorker}, live : BOOLEAN]
    BY DEF Init, RunStatus
  <2>3. /\ conv \in Conversation /\ journal \in [Calls -> Record] /\ approval \in [Calls -> Approval]
        /\ worker \in [Workers -> Worker] /\ invoked \in [Calls -> Nat]
    BY <2>1, OutType DEF Init, Approval
  <2>4. faults \in 0..MaxFaults
    BY ConstantsAssumption DEF Init
  <2>5. paused \in BOOLEAN
    BY DEF Init
  <2> QED BY <2>2, <2>3, <2>4, <2>5 DEF Init, TypeOK
<1>2. RowsOK
  BY OutType, IdleRow DEF Init, RowsOK, HoldsCall, ToolSteps
<1>3. CopiesOK
  BY DEF Init, CopiesOK
<1>4. CallsOK
  BY AttemptsType DEF Init, CallsOK, CallOK, NoRecord
<1> QED BY <1>1, <1>2, <1>3, <1>4 DEF IInv

LEMMA NextKeeps == IInv /\ [Next]_vars => IInv'
<1> SUFFICES ASSUME IInv, [Next]_vars PROVE IInv'
  OBVIOUS
<1>1. ASSUME NEW w \in Workers, Claim(w) \/ Step(w) \/ Interrupt(w) \/ TimeOut(w) \/ Crash(w)
      PROVE  IInv'
  <2>1. CASE Claim(w) \/ Interrupt(w) \/ TimeOut(w) \/ Crash(w)
    BY <2>1, ClaimKeeps, OutliveKeeps, TimeOutKeeps, CrashKeeps
  <2>2. CASE Step(w)
    BY <2>2, BeginKeeps, PrepareKeeps, OpenKeeps, ReadyKeeps, ModelKeeps, CompactKeeps, CompactedKeeps,
       AskKeeps, AnswerKeeps, AnsweredKeeps, ToolKeeps, RequestedKeeps, BlockKeeps, ApproveKeeps,
       RequestKeeps, WaitKeeps, RejectKeeps, StartKeeps, ExecuteKeeps, ReturnKeeps, OutliveKeeps,
       UnknownKeeps, UnwindKeeps, AppendKeeps, AppendedKeeps, FinishKeeps, CompleteKeeps DEF Step
  <2> QED BY <1>1, <2>1, <2>2
<1>2. CASE Lapse \/ Cancel
  BY <1>2, LapseKeeps, CancelKeeps
<1>3. CASE Review
  BY <1>3, PutBackKeeps, ReviewerDiesKeeps, DecideKeeps, ReconcileKeeps DEF Review, Reopen, Release
<1>4. CASE \E c \in Calls : \E s \in {"compensated", "compensation_failed"} : Compensate(c, s)
  BY <1>4, CompensateKeeps
<1>5. CASE UNCHANGED vars
  <2>1. RestOK'
    BY <1>5, Parts DEF vars, store, current, around, RestOK
  <2> QED BY <1>5, <2>1, OutsideKeeps DEF vars, store, current, around
<1> QED BY <1>1, <1>2, <1>3, <1>4, <1>5 DEF Next

LEMMA Invariant == Spec => []IInv
  BY InitHolds, NextKeeps, PTL DEF Spec

\* The tables and the executions hold what they can hold, in every reachable state.
THEOREM TypeCorrect == Spec => []TypeOK
<1>1. IInv => TypeOK
  BY DEF IInv
<1> QED BY <1>1, Invariant, PTL

\* However many executions drive a run, and however they are stalled, killed, timed out
\* and overlap: a call that may not be repeated is made once, any other not more often
\* than tool_max_attempts.
THEOREM EffectsAreBounded == Spec => []EffectOnce
<1>1. IInv => EffectOnce
  BY DEF IInv, CallsOK, CallOK, EffectOnce
<1> QED BY <1>1, Invariant, PTL

\* Nothing is done before its approval, nor by a tool that is not exposed, nor with bad arguments.
THEOREM ApprovalComesFirst == Spec => []ApprovedFirst
<1>1. IInv => ApprovedFirst
  BY DEF IInv, CallsOK, CallOK, ApprovedFirst, TypeOK
<1> QED BY <1>1, Invariant, PTL

-----------------------------------------------------------------------------
(* A step that does not touch a call which has succeeded or is of unknown  *)
(* outcome.                                                                *)

Untouched ==
  \A c \in Calls :
    /\ journal[c].status \in {"succeeded", "reconciliation_required"} => invoked'[c] = invoked[c]
    /\ journal[c].status = "reconciliation_required" /\ journal'[c] # journal[c]
         => reviewer' = "release"

LEMMA QuietStep ==
  ASSUME UNCHANGED <<journal, invoked>>
  PROVE  Untouched
  BY DEF Untouched

\* The helpers that leave the journal alone.
LEMMA QuietHelpers ==
  \A w, next, status, new :
    Withdraw(w) \/ Fail(w) \/ Mark(w, status) \/ EndNode(w) \/ Pause(w, status) \/ Fence(w, next)
    \/ SaveConv(w, new, next) \/ Goto(w, next) \/ Load(w, next) \/ Reroute(w) \/ CallConflict(w)
      => UNCHANGED <<journal, invoked>>
  BY DEF Withdraw, Leave, Fail, Mark, EndNode, Pause, Fence, SaveConv, Goto, Load, Reroute, CallConflict,
     store, around

LEMMA SetStatusStep ==
  ASSUME IInv, NEW w \in Workers, NEW status, NEW next, worker[w].pc \in HoldsCall,
         SetStatus(w, status, next),
         w \in callAt => worker[w].rec.status # "reconciliation_required"
  PROVE  Untouched
<1> DEFINE record == [worker[w].rec EXCEPT !.status = status]
<1>1. CASE Journal(w, record, next) /\ UNCHANGED invoked
  <2>1. worker[w].call \in Calls /\ worker[w].rec = journal[worker[w].call] /\ w \in callAt
    BY <1>1, Parts DEF Journal, CallCurrent, IInv, CopiesOK, Held, RowOK
  <2>2. \A c \in Calls : c # worker[w].call => journal'[c] = journal[c]
    BY <1>1, <2>1 DEF Journal, IInv, TypeOK
  <2> QED BY <1>1, <2>1, <2>2 DEF Untouched
<1>2. CASE CallConflict(w)
  BY <1>2, QuietHelpers, QuietStep
<1> QED BY <1>1, <1>2 DEF SetStatus

\* What is being decided about, or can no longer be made, was not made.
LEMMA NotMade ==
  ASSUME IInv, NEW w \in callAt,
         \/ worker[w].call \in Unexposed
         \/ worker[w].call \in Gated /\ approval[worker[w].call] # "approved"
  PROVE  worker[w].rec.status # "reconciliation_required"
<1>1. w \in Workers /\ worker[w].call \in Calls /\ Held(worker[w])
  BY DEF IInv, TypeOK, RowsOK, RowOK, CopiesOK, Held
<1> QED BY <1>1 DEF IInv, CallsOK, CallOK, Held, TypeOK, Record

LEMMA ToolNodeStep ==
  ASSUME IInv, NEW w \in Workers, Tool(w) \/ Block(w) \/ Approve(w) \/ Request(w) \/ Reject(w)
  PROVE  Untouched
<1>1. CASE Tool(w)
  <2>1. CASE Reroute(w) \/ Cancelled(w) \/ Fail(w)
    BY <2>1, QuietHelpers, QuietStep DEF Cancelled
  <2>2. CASE ~(Reroute(w) \/ Cancelled(w) \/ Fail(w))
    <3>1. /\ UNCHANGED invoked
          /\ LET c == NextCall(conv)
                 rec == IF c \in Journaled THEN journal[c] ELSE [NoRecord EXCEPT !.status = "pending"]
             IN  journal' = [journal EXCEPT ![c] = rec]
      BY <1>1, <2>2 DEF Tool, around
    <3>2. \A c \in Calls : journal[c].status # "absent" => journal'[c] = journal[c]
      BY <3>1 DEF Journaled, IInv, TypeOK
    <3> QED BY <3>1, <3>2 DEF Untouched
  <2> QED BY <2>1, <2>2
<1>2. CASE Block(w)
  <2>1. worker[w].pc \in HoldsCall /\ worker[w].call \in Unexposed
    BY <1>2, Parts DEF Block, AtStep, RowOK, HoldsCall, ToolSteps
  <2> QED BY <1>2, <2>1, NotMade, SetStatusStep, QuietHelpers, QuietStep DEF Block
<1>3. CASE Approve(w)
  <2>1. worker[w].pc \in HoldsCall
    BY <1>3 DEF Approve, AtStep, HoldsCall, ToolSteps
  <2>2. \/ \E next \in Steps : Goto(w, next)
        \/ SetStatus(w, "waiting_approval", "request") /\ worker[w].call \in Gated
           /\ approval[worker[w].call] # "approved"
        \/ SetStatus(w, "pending", "start") /\ worker[w].rec.status = "waiting_approval"
    <3>1. approval[worker[w].call] \in Approval
      BY <2>1, Parts DEF RowOK, IInv, TypeOK
    <3> QED BY <1>3, <3>1 DEF Approve, NeedsApproval, Approval, Steps
  <2> QED BY <2>1, <2>2, NotMade, SetStatusStep, QuietHelpers, QuietStep
<1>4. CASE Request(w)
  BY <1>4, QuietHelpers, QuietStep DEF Request, around
<1>5. CASE Reject(w)
  <2>1. /\ worker[w].pc \in HoldsCall /\ worker[w].call \in Gated
        /\ approval[worker[w].call] # "approved"
    BY <1>5, Parts DEF Reject, AtStep, RowOK, HoldsCall, ToolSteps
  <2> QED BY <1>5, <2>1, NotMade, SetStatusStep, QuietHelpers, QuietStep DEF Reject
<1> QED BY <1>1, <1>2, <1>3, <1>4, <1>5

LEMMA ExecuteStep ==
  ASSUME IInv, NEW w \in Workers, Execute(w)
  PROVE  Untouched
<1> DEFINE c == worker[w].call
           rec == worker[w].rec
<1>1. worker[w].pc \in HoldsCall
  BY DEF Execute, AtStep, HoldsCall, ToolSteps
<1>2. CASE rec.status \in {"succeeded", "reconciliation_required"}
  BY <1>2, QuietHelpers, QuietStep DEF Execute
<1>3. CASE rec.status \notin {"succeeded", "reconciliation_required"}
  <2>1. \/ Cancelled(w) \/ Goto(w, "append") \/ SetStatus(w, "blocked", "append")
        \/ SetStatus(w, "reconciliation_required", "unknown") \/ Attempt(w)
    BY <1>3 DEF Execute
  <2>2. CASE Cancelled(w) \/ Goto(w, "append") \/ CallConflict(w)
    BY <2>2, QuietHelpers, QuietStep DEF Cancelled
  <2>3. CASE SetStatus(w, "blocked", "append") \/ SetStatus(w, "reconciliation_required", "unknown")
    BY <1>1, <1>3, <2>3, SetStatusStep
  <2>4. CASE Journal(w, [status |-> "executing", att |-> rec.att + 1], "calling")
             /\ invoked' = [invoked EXCEPT ![c] = @ + 1]
    <3>1. c \in Calls /\ rec = journal[c]
      BY <1>1, <2>4, Parts DEF Journal, CallCurrent, IInv, CopiesOK, Held, RowOK
    <3>2. \A d \in Calls : d # c => journal'[d] = journal[d] /\ invoked'[d] = invoked[d]
      BY <2>4, <3>1 DEF Journal, IInv, TypeOK
    <3> QED BY <1>3, <3>1, <3>2 DEF Untouched
  <2> QED BY <2>1, <2>2, <2>3, <2>4 DEF Attempt
<1> QED BY <1>2, <1>3

LEMMA EndOfCallStep ==
  ASSUME IInv, NEW w \in Workers, Return(w) \/ Outlive(w) \/ Interrupt(w)
  PROVE  Untouched
<1>1. AtStep(w, "calling") /\ worker[w].pc \in HoldsCall
  BY DEF Return, Outlive, Interrupt, AtStep, HoldsCall, ToolSteps
<1>2. w \in callAt => worker[w].rec.status # "reconciliation_required"
  BY <1>1 DEF IInv, CopiesOK, Held, AtStep
<1>3. \/ Goto(w, "execute")
      \/ \E status \in CallStatus, next \in Steps : SetStatus(w, status, next)
  BY DEF Return, Outlive, Interrupt, SetStatus, CallStatus, Steps
<1> QED BY <1>1, <1>2, <1>3, SetStatusStep, QuietHelpers, QuietStep

LEMMA OtherSteps ==
  ASSUME NEW w \in Workers,
         \/ Claim(w) \/ Begin(w) \/ Prepare(w) \/ Open(w) \/ Ready(w) \/ Model(w) \/ Compact(w)
         \/ Compacted(w) \/ Ask(w) \/ Answer(w) \/ Answered(w) \/ Requested(w) \/ Wait(w) \/ Start(w)
         \/ Unknown(w) \/ Unwind(w) \/ AppendResult(w) \/ Appended(w) \/ Finish(w) \/ Complete(w)
         \/ TimeOut(w) \/ Crash(w)
  PROVE  Untouched
<1>1. CASE Claim(w) \/ Begin(w) \/ Complete(w) \/ Crash(w)
  <2>1. UNCHANGED <<journal, invoked>>
    BY <1>1, QuietHelpers DEF Claim, Begin, Complete, Crash, Leave, store, around
  <2> QED BY <2>1, QuietStep
<1>2. CASE \/ Prepare(w) \/ Open(w) \/ Ready(w) \/ Model(w) \/ Compact(w) \/ Compacted(w) \/ Ask(w)
           \/ Answered(w)
  BY <1>2, QuietHelpers, QuietStep DEF Prepare, Open, Ready, Model, Compact, Compacted, Ask,
     Answered, Cancelled
<1>3. CASE Answer(w)
  BY <1>3, QuietHelpers, QuietStep DEF Answer, Cancelled
<1>4. CASE \/ Requested(w) \/ Wait(w) \/ Start(w) \/ Unknown(w) \/ Unwind(w) \/ AppendResult(w)
           \/ Appended(w) \/ Finish(w) \/ TimeOut(w)
  BY <1>4, QuietHelpers, QuietStep DEF Requested, Wait, Start, Unknown, Unwind, AppendResult,
     Appended, Finish, TimeOut
<1> QED BY <1>1, <1>2, <1>3, <1>4

\* A call that has succeeded, or of unknown outcome, is not made again, and only the
\* reviewer settles an unknown one.
THEOREM UnknownIsHeld == Spec => UnknownHeld
<1>1. IInv /\ [Next]_vars => [Untouched]_vars
  <2> SUFFICES ASSUME IInv, Next PROVE Untouched
    OBVIOUS
  <2>1. ASSUME NEW w \in Workers, Claim(w) \/ Step(w) \/ Interrupt(w) \/ TimeOut(w) \/ Crash(w)
        PROVE  Untouched
    BY <2>1, ToolNodeStep, ExecuteStep, EndOfCallStep, OtherSteps DEF Step
  <2>2. CASE Lapse \/ Cancel
    BY <2>2, QuietStep DEF Lapse, Cancel, around
  <2>3. CASE Review
    <3>1. CASE Reopen \/ Release \/ ReviewerDies
      BY <3>1, QuietStep DEF Reopen, Release, PutBack, ReviewerDies, store
    <3>2. ASSUME NEW c \in Calls, NEW d \in {"approved", "rejected"}, Decide(c, d)
          PROVE  Untouched
      BY <3>2, QuietStep DEF Decide
    <3>3. ASSUME NEW c \in Calls, NEW s \in {"succeeded", "failed"}, Reconcile(c, s)
          PROVE  Untouched
      BY <3>3 DEF Reconcile, Untouched
    <3> QED BY <2>3, <3>1, <3>2, <3>3 DEF Review
  <2>4. ASSUME NEW c \in Calls, NEW s \in {"compensated", "compensation_failed"}, Compensate(c, s)
        PROVE  Untouched
    BY <2>4 DEF Compensate, Untouched, around, IInv, TypeOK
  <2> QED BY <2>1, <2>2, <2>3, <2>4 DEF Next
<1>2. Spec => [][Untouched]_vars
  BY <1>1, Invariant, PTL DEF Spec
<1> QED BY <1>2 DEF UnknownHeld, Untouched

-----------------------------------------------------------------------------
(* The conversation.  An execution that writes it has the stored version   *)
(* of it (convAt), so its copy is the conversation; but its record of the  *)
(* call may be an old one, and so may be all that an execution without the *)
(* stored version knows.  What is needed of those never becomes untrue: a  *)
(* call over is over, and what was told of it was so.                      *)

\* The places of an execution whose copy of the checkpoint may be the stored one.
Loaded == Steps \ {"out", "begin", "prepare", "model", "tool", "finish"}
Asking == {"ask", "compacted", "turn", "asking"}

ToldCalls == {conv.results[i][1] : i \in DOMAIN conv.results}
PendingCalls == {conv.pending[i] : i \in DOMAIN conv.pending}
Settled == {"succeeded", "failed", "blocked", "rejected", "compensated", "compensation_failed"}
Compensated == {"compensated", "compensation_failed"}

\* What a record, the stored one or an old one, says of the call.
RecordOK(c, rec) ==
  /\ rec.status \in {"absent", "pending", "waiting_approval"} => rec.att = 0
  /\ rec.status \in {"executing", "reconciliation_required", "failed", "succeeded"} \cup Compensated
       => rec.att > 0
  /\ rec.status = "blocked" => c \in Unexposed \cup Invalid
  /\ rec.status = "rejected" => c \in Gated /\ approval[c] = "rejected"
  /\ rec.status \in Compensated => c \in Compensable

\* The call will not be made any more.  The code makes one that may be repeated
\* again when it was compensated, so nothing is said of those.
Refused(c) == c \in Unexposed \cup Invalid \/ (c \in Gated /\ approval[c] = "rejected")
Over(c) ==
  \/ journal[c].att >= AttemptsOf(c)
  \/ Refused(c)
  \/ journal[c].status = "succeeded"
  \/ c \in Compensable \ Once

\* What the model is told of a call.
ToldOK(c, status) ==
  /\ Over(c)
  /\ c \in Once => status \in Settled
  /\ status \notin {"rejected", "blocked"} => journal[c].att > 0
  /\ status \in {"rejected", "blocked"} => Refused(c)

\* The call has its result, or it is the one that is worked on.
Reached(c) == c \in ToldCalls \/ (conv.pending # <<>> /\ c = Head(conv.pending))

ConvOK ==
  /\ ~conv.saved => conv = Unsaved
  /\ conv.final => conv.pending = <<>>
  /\ \A i, k \in DOMAIN conv.results : conv.results[i][1] = conv.results[k][1] => i = k
  /\ \A i, k \in DOMAIN conv.pending : conv.pending[i] = conv.pending[k] => i = k
  /\ ToldCalls \cap PendingCalls = {}
  /\ Journaled \subseteq ToldCalls \cup PendingCalls
  /\ \A i \in DOMAIN conv.results : ToldOK(conv.results[i][1], conv.results[i][2])

\* What an execution knows of the conversation ...
CopyOK(r) ==
  /\ r.copy.final => conv.final
  /\ r.pc \notin {"out", "begin", "prepare", "open"} => conv.saved
  /\ r.pc = "open" => ~r.copy.saved
  /\ r.pc \in Asking => r.copy.saved /\ ~r.copy.final /\ r.copy.pending = <<>>
  /\ r.pc \in {"finish", "complete"} => conv.final

\* ... and of its call.
WorkOK(r) ==
  /\ r.pc \in ToolSteps => r.call = Head(r.copy.pending) /\ r.copy.saved
  /\ r.pc \in HoldsCall =>
       /\ r.rec.status # "absent" /\ RecordOK(r.call, r.rec)
       /\ r.rec.att <= journal[r.call].att
       /\ r.rec.status = "succeeded" => Over(r.call)
       /\ Reached(r.call)
  /\ r.pc = "append" => ToldOK(r.call, r.rec.status)

RecordsOK == \A c \in Calls : RecordOK(c, journal[c])
WorksOK == \A w \in Workers : CopyOK(worker[w]) /\ WorkOK(worker[w])
CurrentOK == \A w \in convAt : worker[w].pc \in Loaded /\ worker[w].copy = conv
EndOK == run.status = "completed" => conv.final

\* The invariant of the conversation; the other one is known to hold.
CInv == ConvOK /\ RecordsOK /\ WorksOK /\ CurrentOK /\ EndOK

\* What never becomes untrue of the calls and of the conversation.
Onward ==
  \A c \in Calls :
    /\ journal[c].att <= journal'[c].att
    /\ approval[c] = "rejected" => approval'[c] = "rejected"
    /\ Over(c) => Over(c)'
Grown ==
  /\ conv.final => conv'.final
  /\ conv.saved => conv'.saved
  /\ \A c \in Calls : Reached(c) => Reached(c)'

LEMMA RecordStays ==
  ASSUME Onward, NEW c \in Calls, NEW rec, RecordOK(c, rec)
  PROVE  RecordOK(c, rec)'
  BY DEF Onward, RecordOK, Compensated

LEMMA ToldStays ==
  ASSUME IInv, IInv', Onward, NEW c \in Calls, NEW status, ToldOK(c, status)
  PROVE  ToldOK(c, status)'
<1>1. journal[c].att \in Nat /\ journal'[c].att \in Nat /\ journal[c].att <= journal'[c].att
  BY DEF IInv, TypeOK, Record, Onward
<1>2. Refused(c) => Refused(c)'
  BY DEF Onward, Refused
<1> QED BY <1>1, <1>2 DEF Onward, ToldOK, Compensated, Settled

LEMMA WorkStays ==
  ASSUME IInv, IInv', Onward, Grown, NEW r \in Worker, RowOK(r), CopyOK(r), WorkOK(r)
  PROVE  CopyOK(r)' /\ WorkOK(r)'
<1>1. CopyOK(r)'
  BY DEF CopyOK, Grown
<1> SUFFICES WorkOK(r)'
  BY <1>1
<1>2. CASE r.pc \in HoldsCall
  <2>1. r.call \in Calls
    BY <1>2 DEF RowOK
  <2>2. RecordOK(r.call, r.rec)'
    BY <1>2, <2>1, RecordStays DEF WorkOK
  <2>3. r.pc = "append" => ToldOK(r.call, r.rec.status)'
    BY <2>1, ToldStays DEF WorkOK
  <2>4. r.rec.att <= journal'[r.call].att
    BY <1>2, <2>1 DEF WorkOK, Onward, IInv, TypeOK, Record, Worker
  <2> QED BY <1>2, <2>1, <2>2, <2>3, <2>4 DEF WorkOK, Onward, Grown
<1>3. CASE r.pc \notin HoldsCall
  BY <1>3 DEF WorkOK, HoldsCall, ToolSteps
<1> QED BY <1>2, <1>3

\* A step that writes no call, no approval and nothing of the conversation.
LEMMA QuietOnward ==
  ASSUME IInv, UNCHANGED <<conv, journal, approval>>
  PROVE  Onward /\ Grown
<1>1. \A c \in Calls : journal[c].att <= journal[c].att
  BY DEF IInv, TypeOK, Record
<1>2. Onward
  BY <1>1 DEF Onward, Over, Refused, AttemptsOf
<1>3. Grown
  BY DEF Grown, Reached, ToldCalls
<1> QED BY <1>2, <1>3

LEMMA QuietConv ==
  ASSUME IInv, CInv, UNCHANGED <<conv, journal, approval>>
  PROVE  ConvOK' /\ RecordsOK'
<1>1. ConvOK'
  <2>1. \A c, status : ToldOK(c, status)' <=> ToldOK(c, status)
    BY DEF ToldOK, Over, Refused, AttemptsOf
  <2>2. ToldCalls' = ToldCalls /\ PendingCalls' = PendingCalls /\ Journaled' = Journaled
    BY DEF ToldCalls, PendingCalls, Journaled
  <2> QED BY <2>1, <2>2 DEF CInv, ConvOK
<1>2. RecordsOK'
  BY DEF CInv, RecordsOK, RecordOK
<1> QED BY <1>1, <1>2

\* One execution moves: the others know what they knew.
LEMMA OthersKnow ==
  ASSUME IInv, IInv', CInv, Onward, Grown, NEW w \in Workers, NEW r \in Worker,
         worker' = [worker EXCEPT ![w] = r], CopyOK(r)', WorkOK(r)'
  PROVE  WorksOK'
<1> SUFFICES ASSUME NEW v \in Workers PROVE CopyOK(worker[v])' /\ WorkOK(worker[v])'
  BY DEF WorksOK
<1>1. CASE v = w
  <2>1. worker'[v] = r
    BY <1>1 DEF IInv, TypeOK
  <2> QED BY <2>1 DEF CopyOK, WorkOK
<1>2. CASE v # w
  <2>1. worker'[v] = worker[v]
    BY <1>2 DEF IInv, TypeOK
  <2>2. PICK q \in Worker : q = worker[v]
    BY Parts
  <2>3. CopyOK(q)' /\ WorkOK(q)'
    <3>1. RowOK(q) /\ CopyOK(q) /\ WorkOK(q)
      BY <2>2, Parts DEF CInv, WorksOK
    <3> QED BY <3>1, WorkStays
  <2> QED BY <2>1, <2>2, <2>3 DEF CopyOK, WorkOK
<1> QED BY <1>1, <1>2

\* An execution moves, and the tables are left alone but for the run's row.
LEMMA MoveTells ==
  ASSUME IInv, IInv', CInv, NEW w \in Workers, NEW r \in Worker,
         worker' = [worker EXCEPT ![w] = r], UNCHANGED <<conv, journal, approval>>,
         convAt' \subseteq convAt \cup {w}, w \in convAt' => r.pc \in Loaded /\ r.copy = conv,
         CopyOK(r), WorkOK(r), run'.status = "completed" => conv.final
  PROVE  CInv'
<1>1. Onward /\ Grown
  BY QuietOnward
<1>2. CopyOK(r)' /\ WorkOK(r)'
  <2>1. CopyOK(r)'
    BY DEF CopyOK
  <2>2. WorkOK(r)'
    BY DEF WorkOK, RecordOK, Reached, ToldCalls, ToldOK, Over, Refused, AttemptsOf
  <2> QED BY <2>1, <2>2
<1>3. WorksOK'
  BY <1>1, <1>2, OthersKnow
<1>4. CurrentOK'
  <2>1. \A v \in Workers : worker'[v] = IF v = w THEN r ELSE worker[v]
    BY DEF IInv, TypeOK
  <2>2. convAt' \subseteq Workers
    BY DEF IInv, TypeOK
  <2> QED BY <2>1, <2>2 DEF CInv, CurrentOK
<1>5. EndOK'
  BY DEF EndOK
<1> QED BY <1>3, <1>4, <1>5, QuietConv DEF CInv

LEMMA OutTells == CopyOK(Out) /\ WorkOK(Out)
  BY DEF CopyOK, WorkOK, Out, Unsaved, Asking, HoldsCall, ToolSteps

LEMMA EnteringTells ==
  ASSUME conv.saved, NEW node \in {"finish", "tool", "model"}, node = "finish" => conv.final
  PROVE  CopyOK(Entering(node)) /\ WorkOK(Entering(node)) /\ Entering(node) \in Worker
<1>1. Entering(node) \in Worker /\ Entering(node).pc = node
  BY EnteringType DEF Steps
<1>2. Entering(node).copy = Unsaved
  BY DEF Entering, Out
<1> QED BY <1>1, <1>2 DEF CopyOK, WorkOK, Unsaved, Asking, HoldsCall, ToolSteps

\* What is known of the places of an execution.
LEMMA Knows ==
  ASSUME IInv, CInv, NEW w \in Workers
  PROVE  /\ worker[w] \in Worker /\ RowOK(worker[w]) /\ CopyOK(worker[w]) /\ WorkOK(worker[w])
         /\ w \in convAt => worker[w].pc \in Loaded /\ worker[w].copy = conv
         /\ run.status = "completed" => conv.final
  BY Parts DEF CInv, WorksOK, CurrentOK, EndOK

LEMMA WithdrawTells ==
  ASSUME IInv, IInv', CInv, NEW w \in Workers, Withdraw(w)
  PROVE  CInv'
  BY MoveTells, OutTells, OutType, Knows DEF Withdraw, Leave, store

LEMMA MarkTells ==
  ASSUME IInv, IInv', CInv, NEW w \in Workers, NEW status \in RunStatus \ {"completed"}, Mark(w, status)
  PROVE  CInv'
<1>1. run'.status = "completed" => conv.final
  BY Knows DEF Mark, Stored, IInv, TypeOK
<1> QED BY <1>1, MoveTells, OutTells, OutType DEF Mark

LEMMA FailTells ==
  ASSUME IInv, IInv', CInv, NEW w \in Workers, Fail(w)
  PROVE  CInv'
  BY MarkTells DEF Fail, RunStatus, Terminal

LEMMA EndNodeTells ==
  ASSUME IInv, IInv', CInv, NEW w \in Workers, worker[w].pc \in {"ready", "answered", "appended"},
         EndNode(w)
  PROVE  CInv'
<1>1. CASE MayWrite(w) /\ ~(~MayWrite(w) /\ Withdraw(w))
  <2> DEFINE node == Route(worker[w].copy)
  <2>1. conv.saved /\ node \in {"finish", "tool", "model"} /\ (node = "finish" => conv.final)
    BY Knows, RouteType DEF CopyOK, Route
  <2> QED BY <1>1, <2>1, MoveTells, EnteringTells, Knows DEF EndNode, store
<1> QED BY <1>1, WithdrawTells DEF EndNode

LEMMA PauseTells ==
  ASSUME IInv, IInv', CInv, NEW w \in Workers, NEW status \in Parked, worker[w].pc \in ToolSteps,
         Pause(w, status)
  PROVE  CInv'
<1>1. CASE MayWrite(w) /\ ~(~MayWrite(w) /\ Withdraw(w))
  <2>1. PICK r \in {Out, Entering("tool")} : worker' = [worker EXCEPT ![w] = r]
    BY <1>1 DEF Pause
  <2>2. conv.saved
    BY Knows DEF CopyOK, ToolSteps
  <2>3. r \in Worker /\ CopyOK(r) /\ WorkOK(r)
    BY <2>1, <2>2, OutTells, OutType, EnteringTells
  <2>4. run'.status # "completed"
    BY <1>1 DEF Pause, Stored, Parked
  <2> QED BY <1>1, <2>1, <2>3, <2>4, MoveTells DEF Pause
<1> QED BY <1>1, WithdrawTells DEF Pause

\* An execution goes on: its copy is what it was.
LEMMA GoOnTells ==
  ASSUME IInv, IInv', CInv, NEW w \in Workers, NEW next \in Loaded, worker[w].pc \in Loaded,
         worker' = [worker EXCEPT ![w].pc = next],
         CopyOK([worker[w] EXCEPT !.pc = next]), WorkOK([worker[w] EXCEPT !.pc = next]),
         UNCHANGED <<conv, journal, approval, convAt, run>>
  PROVE  CInv'
<1> DEFINE r == [worker[w] EXCEPT !.pc = next]
<1>1. r \in Worker /\ r.pc = next /\ r.copy = worker[w].copy
  BY Parts DEF Worker, Loaded
<1> QED BY <1>1, MoveTells, Knows

LEMMA FenceTells ==
  ASSUME IInv, IInv', CInv, NEW w \in Workers, NEW next \in Loaded, worker[w].pc \in Loaded,
         CopyOK([worker[w] EXCEPT !.pc = next]), WorkOK([worker[w] EXCEPT !.pc = next]),
         Fence(w, next)
  PROVE  CInv'
  BY GoOnTells, WithdrawTells DEF Fence, store

LEMMA GotoTells ==
  ASSUME IInv, IInv', CInv, NEW w \in Workers, NEW next \in Loaded, worker[w].pc \in Loaded,
         CopyOK([worker[w] EXCEPT !.pc = next]), WorkOK([worker[w] EXCEPT !.pc = next]),
         Goto(w, next)
  PROVE  CInv'
  BY GoOnTells DEF Goto, store, current

LEMMA LoadTells ==
  ASSUME IInv, IInv', CInv, NEW w \in Workers, NEW next \in Loaded \ HoldsCall,
         CopyOK([worker[w] EXCEPT !.pc = next, !.copy = conv]), Load(w, next)
  PROVE  CInv'
<1> DEFINE r == [worker[w] EXCEPT !.pc = next, !.copy = conv]
<1>1. r \in Worker /\ r.pc = next /\ r.copy = conv
  BY Parts DEF Worker, Loaded, RestOK
<1>2. WorkOK(r)
  BY <1>1 DEF WorkOK, HoldsCall, ToolSteps
<1>3. /\ worker' = [worker EXCEPT ![w] = r] /\ convAt' = convAt \cup {w}
      /\ UNCHANGED <<conv, journal, approval, run>>
  BY DEF Load, store
<1> HIDE DEF r
<1> QED BY <1>1, <1>2, <1>3, MoveTells, Knows DEF r

LEMMA RerouteTells ==
  ASSUME IInv, IInv', CInv, NEW w \in Workers, conv.saved, w \notin convAt, Reroute(w)
  PROVE  CInv'
<1>1. Route(conv) \in {"finish", "tool", "model"} /\ (Route(conv) = "finish" => conv.final)
  BY DEF Route
<1> QED BY <1>1, EnteringTells, MoveTells, Knows DEF Reroute, store, current

-----------------------------------------------------------------------------
(* Saving the checkpoint. *)

LEMMA SaveTells ==
  ASSUME IInv, IInv', CInv, NEW w \in Workers, NEW r \in Worker, r.pc \in Loaded,
         conv' = r.copy, convAt' = {w}, worker' = [worker EXCEPT ![w] = r],
         UNCHANGED <<run, journal, approval>>, Grown, ConvOK', CopyOK(r)', WorkOK(r)'
  PROVE  CInv'
<1>1. Onward
  <2>1. \A c \in Calls : journal[c].att <= journal[c].att
    BY DEF IInv, TypeOK, Record
  <2> QED BY <2>1 DEF Onward, Over, Refused, AttemptsOf
<1>2. WorksOK'
  BY <1>1, OthersKnow
<1>3. CurrentOK'
  <2>1. worker'[w] = r
    BY DEF IInv, TypeOK
  <2> QED BY <2>1 DEF CurrentOK
<1>4. RecordsOK'
  BY DEF CInv, RecordsOK, RecordOK
<1>5. EndOK'
  BY DEF CInv, EndOK, Grown
<1> QED BY <1>2, <1>3, <1>4, <1>5 DEF CInv

\* The first save, the model's answer, the model's calls: no call is reached or lost.
LEMMA SaveTurn ==
  ASSUME IInv, IInv', CInv, NEW w \in Workers, NEW new \in Conversation,
         NEW next \in {"ready", "answered"},
         worker[w].pc = "open" \/ worker[w].pc \in Asking,
         SaveConv(w, new, next), new.saved, new.final => new.pending = <<>>,
         new.results = worker[w].copy.results,
         worker[w].copy.pending = <<>>,
         \A i, k \in DOMAIN new.pending : new.pending[i] = new.pending[k] => i = k,
         \A i \in DOMAIN new.pending : \A k \in DOMAIN new.results : new.results[k][1] # new.pending[i]
  PROVE  CInv'
<1>1. CASE ConvCurrent(w) /\ ~(~ConvCurrent(w) /\ Fail(w))
  <2>0. PICK r \in Worker : r = [worker[w] EXCEPT !.copy = new, !.pc = next]
    BY Parts DEF Worker, Steps
  <2>1. r.pc = next /\ r.copy = new /\ r.pc \in Loaded
    BY Parts, <2>0 DEF Worker, Loaded, Steps
  <2>2. /\ conv' = new /\ convAt' = {w} /\ worker' = [worker EXCEPT ![w] = r]
        /\ UNCHANGED <<run, journal, approval>>
    BY <1>1, <2>0 DEF SaveConv
  <2>3. /\ worker[w].copy = conv /\ w \in convAt /\ conv.pending = <<>> /\ ~conv.final
        /\ new.results = conv.results
    <3>1. w \in convAt /\ worker[w].copy = conv /\ CopyOK(worker[w])
      BY <1>1, Knows DEF ConvCurrent
    <3>2. ~conv.final
      <4>1. CASE worker[w].pc = "open"
        BY <3>1, <4>1 DEF CopyOK, CInv, ConvOK, Unsaved
      <4> QED BY <3>1, <4>1 DEF CopyOK
    <3> QED BY <3>1, <3>2
  <2>4. ToldCalls' = ToldCalls /\ PendingCalls = {} /\ Journaled' = Journaled
    BY <2>2, <2>3 DEF ToldCalls, PendingCalls, Journaled
  <2>5. Grown
    BY <2>2, <2>3, <2>4 DEF Grown, Reached
  <2>6. ConvOK'
    <3>1. \A c, status : ToldOK(c, status)' <=> ToldOK(c, status)
      BY <2>2 DEF ToldOK, Over, Refused, AttemptsOf
    <3>2. ToldCalls' \cap PendingCalls' = {}
      BY <2>2 DEF ToldCalls, PendingCalls
    <3>3. Journaled' \subseteq ToldCalls' \cup PendingCalls'
      BY <2>4 DEF CInv, ConvOK
    <3> QED BY <2>2, <2>3, <3>1, <3>2, <3>3 DEF CInv, ConvOK
  <2>7. CopyOK(r)' /\ WorkOK(r)'
    BY <2>1, <2>2 DEF CopyOK, WorkOK, Asking, HoldsCall, ToolSteps
  <2> QED BY <2>1, <2>2, <2>5, <2>6, <2>7, SaveTells
<1> QED BY <1>1, FailTells DEF SaveConv

LEMMA OpenTells == ASSUME IInv, IInv', CInv, NEW w \in Workers, Open(w) PROVE CInv'
<1>1. CASE Fail(w)
  BY <1>1, FailTells
<1>2. CASE w \notin convAt
  BY <1>2, FailTells DEF Open, SaveConv, ConvCurrent
<1>3. CASE SaveConv(w, [Unsaved EXCEPT !.saved = TRUE], "ready") /\ w \in convAt
  <2> DEFINE new == [Unsaved EXCEPT !.saved = TRUE]
  <2>1. new \in Conversation /\ new.saved /\ ~new.final /\ new.pending = <<>> /\ new.results = <<>>
    <3>1. \A c \in Conversation :
            LET e == [c EXCEPT !.saved = TRUE]
            IN  /\ e \in Conversation /\ e.saved /\ e.final = c.final /\ e.pending = c.pending
                /\ e.results = c.results
      BY DEF Conversation
    <3>2. /\ Unsaved \in Conversation /\ ~Unsaved.final /\ Unsaved.pending = <<>>
          /\ Unsaved.results = <<>>
      BY DEF Unsaved, Conversation
    <3> QED BY <3>1, <3>2
  <2>2. worker[w].copy = Unsaved /\ worker[w].pc = "open"
    <3>1. worker[w].pc = "open" /\ worker[w].copy = conv /\ ~worker[w].copy.saved
      BY <1>3, Knows DEF Open, AtStep, CopyOK
    <3> QED BY <3>1 DEF CInv, ConvOK
  <2>3. worker[w].copy.pending = <<>> /\ worker[w].copy.results = <<>>
    BY <2>2 DEF Unsaved
  <2> HIDE DEF new
  <2>4. SaveConv(w, new, "ready")
    BY <1>3 DEF new
  <2> QED BY <2>1, <2>2, <2>3, <2>4, SaveTurn
<1> QED BY <1>1, <1>2, <1>3 DEF Open

\* Compaction leaves the conversation as it is.
LEMMA CompactTells == ASSUME IInv, IInv', CInv, NEW w \in Workers, Compact(w) PROVE CInv'
<1>1. CASE ConvCurrent(w) /\ ~(~ConvCurrent(w) /\ Fail(w))
  <2> DEFINE r == [worker[w] EXCEPT !.copy = worker[w].copy, !.pc = "compacted"]
  <2>1. /\ worker[w].pc = "ask" /\ worker[w].copy = conv /\ CopyOK(worker[w])
        /\ worker[w] \in Worker /\ (run.status = "completed" => conv.final)
    BY <1>1, Knows DEF ConvCurrent, Compact, AtStep
  <2>2. r \in Worker /\ r.pc = "compacted" /\ r.copy = conv /\ r.pc \in Loaded
    BY <2>1 DEF Worker, Loaded, Steps
  <2>3. /\ conv' = conv /\ convAt' = {w} /\ worker' = [worker EXCEPT ![w] = r]
        /\ UNCHANGED <<run, journal, approval>>
    BY <1>1, <2>1 DEF Compact, SaveConv
  <2> HIDE DEF r
  <2>4. CopyOK(r) /\ WorkOK(r)
    BY <2>1, <2>2 DEF CopyOK, WorkOK, Asking, HoldsCall, ToolSteps
  <2> QED BY <2>1, <2>2, <2>3, <2>4, MoveTells
<1> QED BY <1>1, FailTells DEF Compact, SaveConv

LEMMA AnswerTells == ASSUME IInv, IInv', CInv, NEW w \in Workers, Answer(w) PROVE CInv'
<1> DEFINE old == worker[w].copy
           seen == {old.results[i][1] : i \in DOMAIN old.results}
<1>1. /\ worker[w].pc = "asking" /\ worker[w].pc \in Asking /\ old \in Conversation
      /\ old.saved /\ ~old.final /\ old.pending = <<>>
  BY Knows DEF Answer, AtStep, CopyOK, Asking, Worker
<1>2. CASE Cancelled(w)
  BY <1>2, WithdrawTells DEF Cancelled
<1>3. CASE Fail(w)
  BY <1>3, FailTells
<1>4. CASE SaveConv(w, [old EXCEPT !.final = TRUE], "answered")
  <2>1. PICK new \in Conversation : new = [old EXCEPT !.final = TRUE]
    BY <1>1 DEF Conversation
  <2>2. new.saved /\ new.pending = <<>> /\ new.results = old.results /\ DOMAIN new.pending = {}
    BY <1>1, <2>1 DEF Conversation
  <2>3. SaveConv(w, new, "answered")
    BY <1>4, <2>1
  <2> HIDE DEF old
  <2> QED BY <1>1, <2>2, <2>3, SaveTurn DEF old
<1>5. ASSUME NEW s \in Asked(seen), SaveConv(w, [old EXCEPT !.pending = s], "answered")
      PROVE  CInv'
  <2>1. /\ s \in Seq(Calls) /\ \A i \in DOMAIN s : s[i] \notin seen
        /\ \A i, k \in DOMAIN s : s[i] = s[k] => i = k
    <3>1. PICK n \in 1..2 : s \in [1..n -> Calls \ seen]
      BY DEF Asked
    <3>2. n \in Nat /\ s \in [1..n -> Calls]
      BY <3>1
    <3> QED BY <3>1, <3>2 DEF Asked
  <2>2. PICK new \in Conversation : new = [old EXCEPT !.pending = s]
    BY <1>1, <2>1 DEF Conversation
  <2>3. new.saved /\ ~new.final /\ new.pending = s /\ new.results = old.results
    BY <1>1, <2>1, <2>2 DEF Conversation
  <2>4. \A i \in DOMAIN new.pending : \A k \in DOMAIN new.results : new.results[k][1] # new.pending[i]
    BY <2>1, <2>3
  <2>5. SaveConv(w, new, "answered")
    BY <1>5, <2>2
  <2>6. \A i, k \in DOMAIN new.pending : new.pending[i] = new.pending[k] => i = k
    BY <2>1, <2>3
  <2> QED BY <1>1, <2>3, <2>4, <2>5, <2>6, SaveTurn
<1> QED BY <1>2, <1>3, <1>4, <1>5 DEF Answer

\* The call that was worked on goes from the head of the queue to the results.
LEMMA AppendTells == ASSUME IInv, IInv', CInv, NEW w \in Workers, AppendResult(w) PROVE CInv'
<1> DEFINE old == worker[w].copy
           c == worker[w].call
           t == <<c, worker[w].rec.status>>
           after == [old EXCEPT !.pending = Tail(@), !.results = Append(@, t)]
<1>1. CASE ConvCurrent(w) /\ ~(~ConvCurrent(w) /\ Fail(w))
  <2>1. /\ w \in convAt /\ old = conv /\ worker[w].pc = "append" /\ worker[w] \in Worker
        /\ conv.pending # <<>> /\ c = Head(conv.pending) /\ c \in Calls
        /\ ToldOK(c, worker[w].rec.status) /\ conv.saved /\ worker[w].rec.status # "absent"
        /\ worker[w].rec \in Record /\ conv \in Conversation /\ ~conv.final
        /\ WorkOK(worker[w])
    <3>1. /\ w \in convAt /\ old = conv /\ worker[w].pc = "append" /\ worker[w] \in Worker
          /\ RowOK(worker[w]) /\ CopyOK(worker[w]) /\ WorkOK(worker[w]) /\ conv \in Conversation
      BY <1>1, Knows DEF ConvCurrent, AppendResult, AtStep, IInv, TypeOK
    <3> QED BY <3>1 DEF RowOK, CopyOK, WorkOK, HoldsCall, ToolSteps, Worker, CInv, ConvOK
  <2>2. PICK new \in Conversation :
          /\ new = after /\ new.saved /\ ~new.final /\ new.pending = Tail(conv.pending)
          /\ new.results = Append(conv.results, t)
    <3>1. Tail(conv.pending) \in Seq(Calls) /\ Append(conv.results, t) \in Seq(Calls \X CallStatus)
      BY <2>1 DEF Conversation, Record
    <3> DEFINE edit(p, q) == [conv EXCEPT !.pending = p, !.results = q]
    <3>2. ASSUME NEW p \in Seq(Calls), NEW q \in Seq(Calls \X CallStatus)
          PROVE  /\ edit(p, q) \in Conversation /\ edit(p, q).saved = conv.saved
                 /\ edit(p, q).final = conv.final /\ edit(p, q).pending = p /\ edit(p, q).results = q
      BY <2>1 DEF Conversation
    <3>3. after = edit(Tail(conv.pending), Append(conv.results, t))
      BY <2>1
    <3> HIDE DEF edit
    <3>4. PICK p \in Seq(Calls), q \in Seq(Calls \X CallStatus) :
            p = Tail(conv.pending) /\ q = Append(conv.results, t) /\ after = edit(p, q)
      BY <3>1, <3>3
    <3> HIDE DEF after
    <3>5. after \in Conversation /\ after.pending = Tail(conv.pending) /\ after.results = Append(conv.results, t)
      BY <3>2, <3>4
    <3>6. after.saved = conv.saved /\ after.final = conv.final
      BY <3>2, <3>4
    <3>7. after.saved /\ ~after.final
      BY <2>1, <3>6
    <3> QED BY <3>5, <3>7
  <2>3. PICK r \in Worker :
          /\ r = [worker[w] EXCEPT !.copy = new, !.pc = "appended"]
          /\ r.pc = "appended" /\ r.copy = new /\ r.rec = worker[w].rec /\ r.call = c
    <3>1. [worker[w] EXCEPT !.copy = new, !.pc = "appended"] \in Worker
      BY <2>1, <2>2 DEF Worker, Steps
    <3> QED BY <2>1, <3>1 DEF Worker
  <2>4. /\ conv' = new /\ convAt' = {w} /\ worker' = [worker EXCEPT ![w] = r]
        /\ UNCHANGED <<run, journal, approval>> /\ r.pc \in Loaded
    BY <1>1, <2>2, <2>3 DEF AppendResult, SaveConv, Loaded, Steps
  <2>5. /\ Len(new.results) = Len(conv.results) + 1 /\ DOMAIN new.results = 1..Len(conv.results) + 1
        /\ \A i \in DOMAIN conv.results : new.results[i] = conv.results[i] /\ i # Len(conv.results) + 1
        /\ new.results[Len(conv.results) + 1] = t /\ Len(conv.results) \in Nat
        /\ DOMAIN conv.results = 1..Len(conv.results)
    BY <2>1, <2>2 DEF Conversation, Record
  <2>6. /\ Len(conv.pending) \in Nat \ {0} /\ DOMAIN conv.pending = 1..Len(conv.pending)
        /\ DOMAIN new.pending = 1..Len(conv.pending) - 1
        /\ \A i \in DOMAIN new.pending : new.pending[i] = conv.pending[i + 1]
        /\ c = conv.pending[1]
    BY <2>1, <2>2 DEF Conversation
  <2>7. ToldCalls' = ToldCalls \cup {c}
    BY <2>4, <2>5 DEF ToldCalls
  <2>8. PendingCalls' = PendingCalls \ {c}
    <3>1. \A i \in DOMAIN conv.pending : conv.pending[i] = c => i = 1
      BY <2>6 DEF CInv, ConvOK
    <3>2. ASSUME NEW i \in DOMAIN new.pending PROVE new.pending[i] \in PendingCalls \ {c}
      <4>1. i + 1 \in DOMAIN conv.pending /\ i + 1 # 1 /\ new.pending[i] = conv.pending[i + 1]
        BY <2>6
      <4> QED BY <3>1, <4>1 DEF PendingCalls
    <3>3. ASSUME NEW d \in PendingCalls \ {c} PROVE d \in PendingCalls'
      <4>1. PICK i \in DOMAIN conv.pending : conv.pending[i] = d
        BY DEF PendingCalls
      <4>2. i # 1 /\ i - 1 \in DOMAIN new.pending /\ new.pending[i - 1] = d
        BY <2>6, <4>1
      <4> QED BY <2>4, <4>2 DEF PendingCalls
    <3> QED BY <2>4, <3>2, <3>3 DEF PendingCalls
  <2>9. Grown
    BY <2>1, <2>2, <2>4, <2>7 DEF Grown, Reached
  <2>10. ConvOK'
    <3>1. \A d, status : ToldOK(d, status)' <=> ToldOK(d, status)
      BY <2>4 DEF ToldOK, Over, Refused, AttemptsOf
    <3>2. Journaled' = Journaled
      BY <2>4 DEF Journaled
    <3>3. \A i, k \in DOMAIN new.results : new.results[i][1] = new.results[k][1] => i = k
      <4>1. \A i \in DOMAIN conv.results : conv.results[i][1] # c
        BY <2>6 DEF CInv, ConvOK, ToldCalls, PendingCalls
      <4>2. \A i \in DOMAIN new.results : i \in DOMAIN conv.results \/ new.results[i][1] = c
        BY <2>5
      <4>3. \A i, k \in DOMAIN conv.results : conv.results[i][1] = conv.results[k][1] => i = k
        BY DEF CInv, ConvOK
      <4>4. \A i \in DOMAIN new.results : i \in DOMAIN conv.results \/ i = Len(conv.results) + 1
        BY <2>5
      <4> QED BY <2>5, <4>1, <4>2, <4>3, <4>4
    <3>4. \A i, k \in DOMAIN new.pending : new.pending[i] = new.pending[k] => i = k
      <4> SUFFICES ASSUME NEW i \in DOMAIN new.pending, NEW k \in DOMAIN new.pending,
                          new.pending[i] = new.pending[k]
                   PROVE  i = k
        OBVIOUS
      <4>1. i + 1 \in DOMAIN conv.pending /\ k + 1 \in DOMAIN conv.pending
        BY <2>6
      <4>2. i + 1 = k + 1
        BY <2>6, <4>1 DEF CInv, ConvOK
      <4> QED BY <2>6, <4>2
    <3>5. \A i \in DOMAIN new.results : ToldOK(new.results[i][1], new.results[i][2])
      BY <2>1, <2>5 DEF CInv, ConvOK
    <3>6. ToldCalls' \cap PendingCalls' = {} /\ Journaled' \subseteq ToldCalls' \cup PendingCalls'
      BY <2>7, <2>8, <3>2 DEF CInv, ConvOK
    <3>7. (\A i \in DOMAIN conv.results : ToldOK(conv.results[i][1], conv.results[i][2]))'
      BY <2>2, <2>4, <3>1, <3>5
    <3>8. conv'.saved /\ ~conv'.final
      BY <2>2, <2>4
    <3>9. /\ (\A i, k \in DOMAIN conv.results : conv.results[i][1] = conv.results[k][1] => i = k)'
          /\ (\A i, k \in DOMAIN conv.pending : conv.pending[i] = conv.pending[k] => i = k)'
      BY <2>4, <3>3, <3>4
    <3> QED BY <3>6, <3>7, <3>8, <3>9 DEF ConvOK
  <2>11. CopyOK(r)' /\ WorkOK(r)'
    <3>1. CopyOK(r)'
      BY <2>2, <2>3, <2>4 DEF CopyOK, Asking
    <3>2. RecordOK(r.call, r.rec)' /\ Reached(r.call)' /\ (Over(c)' <=> Over(c))
      BY <2>1, <2>3, <2>4, <2>7 DEF WorkOK, RecordOK, Reached, HoldsCall, ToolSteps, Over, Refused, AttemptsOf
    <3> QED BY <2>1, <2>3, <2>4, <3>1, <3>2 DEF WorkOK, HoldsCall, ToolSteps
  <2> QED BY <2>1, <2>2, <2>3, <2>4, <2>9, <2>10, <2>11, SaveTells
<1> QED BY <1>1, FailTells DEF AppendResult, SaveConv

-----------------------------------------------------------------------------
(* Writing the journal. *)

\* The tables of the calls move on, the conversation stays.
LEMMA ConvStays ==
  ASSUME IInv, IInv', CInv, Onward, conv' = conv, Journaled' \subseteq Journaled \cup PendingCalls
  PROVE  ConvOK' /\ Grown
<1>1. ToldCalls' = ToldCalls /\ PendingCalls' = PendingCalls
  BY DEF ToldCalls, PendingCalls
<1>2. (\A i \in DOMAIN conv.results : ToldOK(conv.results[i][1], conv.results[i][2]))'
  <2>1. conv \in Conversation
    BY DEF IInv, TypeOK
  <2>2. \A i \in DOMAIN conv.results : conv.results[i][1] \in Calls /\ conv.results[i][2] \in CallStatus
    <3>1. \A i \in DOMAIN conv.results : conv.results[i] \in Calls \X CallStatus
      BY <2>1 DEF Conversation
    <3> QED BY <3>1
  <2>3. ASSUME NEW i \in DOMAIN conv.results
        PROVE  ToldOK(conv.results[i][1], conv.results[i][2])'
    <3>1. PICK c \in Calls, status \in CallStatus : c = conv.results[i][1] /\ status = conv.results[i][2]
      BY <2>2
    <3>2. ToldOK(c, status)'
      BY <3>1, ToldStays DEF CInv, ConvOK
    <3> QED BY <3>1, <3>2
  <2> QED BY <2>3
<1>3. Journaled' \subseteq ToldCalls' \cup PendingCalls'
  BY <1>1 DEF CInv, ConvOK
<1>4. ConvOK'
  BY <1>1, <1>2, <1>3 DEF CInv, ConvOK
<1>5. Grown
  BY <1>1 DEF Grown, Reached
<1> QED BY <1>4, <1>5

\* A record is written, by the execution that has its stored version.
LEMMA JournalTells ==
  ASSUME IInv, IInv', CInv, NEW w \in Workers, NEW record \in Record, NEW next \in ToolSteps,
         worker[w].pc \in ToolSteps, Journal(w, record, next),
         LET c == worker[w].call IN
           /\ record.status # "absent" /\ RecordOK(c, record)
           /\ worker[w].rec.att <= record.att
           /\ worker[w].rec.status = "succeeded" => Refused(c)
           /\ next = "append" =>
                /\ \/ record.att >= AttemptsOf(c) \/ Refused(c) \/ record.status = "succeeded"
                   \/ c \in Compensable \ Once
                /\ record.status \in Settled
  PROVE  CInv'
<1>0. PICK c \in Calls : c = worker[w].call
  BY Knows DEF RowOK, HoldsCall
<1>1. /\ worker[w] \in Worker /\ w \in callAt /\ worker[w].rec = journal[c]
      /\ journal[c] \in Record /\ RowOK(worker[w]) /\ CopyOK(worker[w]) /\ WorkOK(worker[w])
      /\ journal[c].status # "absent"
  <2>1. /\ worker[w] \in Worker /\ w \in callAt /\ RowOK(worker[w]) /\ CopyOK(worker[w]) /\ WorkOK(worker[w])
    BY Knows DEF Journal, CallCurrent
  <2> QED BY <1>0, <2>1 DEF IInv, TypeOK, CopiesOK, Held
<1>2. PICK r \in Worker : /\ r = [worker[w] EXCEPT !.rec = record, !.pc = next]
                          /\ r.pc = next /\ r.rec = record /\ r.call = c /\ r.copy = worker[w].copy
  <2>1. next \in Steps
    BY DEF ToolSteps, Steps
  <2>2. [worker[w] EXCEPT !.rec = record, !.pc = next] \in Worker
    BY <1>1, <2>1 DEF Worker
  <2> QED BY <1>0, <1>1, <2>2 DEF Worker
<1>3. /\ worker' = [worker EXCEPT ![w] = r] /\ journal' = [journal EXCEPT ![c] = record]
      /\ UNCHANGED <<run, conv, approval, convAt>>
  BY <1>0, <1>2 DEF Journal
<1>4. \A d \in Calls : journal'[d] = IF d = c THEN record ELSE journal[d]
  BY <1>1, <1>3 DEF IInv, TypeOK
<1>5. Onward
  <2> SUFFICES ASSUME NEW d \in Calls
               PROVE  journal[d].att <= journal'[d].att /\ (Over(d) => Over(d)')
    BY <1>3 DEF Onward
  <2>1. Refused(d)' <=> Refused(d)
    BY <1>3 DEF Refused
  <2>2. CASE d # c
    <3>1. journal[d].att \in Nat
      BY DEF IInv, TypeOK, Record
    <3> QED BY <1>4, <2>1, <2>2, <3>1 DEF Over, AttemptsOf
  <2>3. CASE d = c
    <3>1. record.att \in Nat /\ journal[c].att \in Nat /\ AttemptsOf(c) \in Nat /\ journal[c].att <= record.att
      BY <1>0, <1>1, AttemptsType DEF Record
    <3>2. Over(d) => \/ journal[d].att >= AttemptsOf(d) \/ Refused(d)
                     \/ d \in Compensable \ Once
      BY <1>0, <1>1, <2>3 DEF Over
    <3>3. AttemptsOf(d)' = AttemptsOf(d)
      BY DEF AttemptsOf
    <3> QED BY <1>1, <1>4, <2>1, <2>3, <3>1, <3>2, <3>3 DEF Over
  <2> QED BY <2>2, <2>3
<1>6. ConvOK' /\ Grown
  <2>1. Journaled' \subseteq Journaled
    BY <1>0, <1>1, <1>4 DEF Journaled
  <2> QED BY <1>3, <1>5, <2>1, ConvStays
<1>7. RecordsOK'
  <2> SUFFICES ASSUME NEW d \in Calls PROVE RecordOK(d, journal[d])'
    BY DEF RecordsOK
  <2>1. RecordOK(d, journal'[d])
    BY <1>0, <1>1, <1>4 DEF CInv, RecordsOK
  <2> QED BY <1>3, <2>1 DEF RecordOK
<1>8. CopyOK(r)' /\ WorkOK(r)'
  <2>1. CopyOK(r)'
    BY <1>1, <1>2, <1>3 DEF CopyOK, ToolSteps, Asking
  <2>2. RecordOK(c, record)' /\ Reached(c)' /\ r.rec.att <= journal'[c].att
    BY <1>0, <1>1, <1>2, <1>3, <1>4, <1>6 DEF RecordOK, Record, WorkOK, Grown, HoldsCall
  <2>3. record.status = "succeeded" => Over(c)'
    BY <1>1, <1>4 DEF Over
  <2>4. next = "append" => ToldOK(c, record.status)'
    <3>1. journal'[c] = record /\ (Refused(c)' <=> Refused(c)) /\ AttemptsOf(c)' = AttemptsOf(c)
      BY <1>1, <1>3, <1>4 DEF Refused, AttemptsOf
    <3>2. next = "append" /\ record.status \notin {"rejected", "blocked"} => record.att > 0
      BY <1>0 DEF RecordOK, Settled, Compensated
    <3> QED BY <1>0, <1>2, <3>1, <3>2 DEF ToldOK, Over, RecordOK, Refused
  <2>5. r.call = Head(r.copy.pending) /\ r.copy.saved
    BY <1>0, <1>1, <1>2 DEF WorkOK
  <2> QED BY <1>0, <1>1, <1>2, <2>1, <2>2, <2>3, <2>4, <2>5 DEF WorkOK
<1>9. WorksOK'
  BY <1>3, <1>5, <1>6, <1>8, OthersKnow
<1>10. CurrentOK'
  <2>1. \A v \in Workers : worker'[v] = IF v = w THEN r ELSE worker[v]
    BY <1>3 DEF IInv, TypeOK
  <2>2. convAt \subseteq Workers /\ next \in Loaded
    BY DEF IInv, TypeOK, ToolSteps, Loaded, Steps
  <2> QED BY <1>2, <1>3, <2>1, <2>2 DEF CInv, CurrentOK
<1>11. EndOK'
  BY <1>3 DEF CInv, EndOK
<1> QED BY <1>6, <1>7, <1>9, <1>10, <1>11 DEF CInv

LEMMA SetStatusTells ==
  ASSUME IInv, IInv', CInv, NEW w \in Workers, NEW next \in ToolSteps,
         NEW status \in CallStatus \ {"absent"}, worker[w].pc \in ToolSteps, SetStatus(w, status, next),
         w \in callAt =>
           LET c == worker[w].call
               record == [worker[w].rec EXCEPT !.status = status]
           IN  /\ RecordOK(c, record)
               /\ worker[w].rec.status = "succeeded" => Refused(c)
               /\ next = "append" =>
                    /\ \/ worker[w].rec.att >= AttemptsOf(c) \/ Refused(c) \/ status = "succeeded"
                       \/ c \in Compensable \ Once
                    /\ status \in Settled
  PROVE  CInv'
<1> DEFINE c == worker[w].call
           record == [worker[w].rec EXCEPT !.status = status]
<1>1. CASE Journal(w, record, next)
  <2>1. w \in callAt /\ worker[w].rec \in Record
    BY <1>1, Knows DEF Journal, CallCurrent, Worker
  <2>2. record \in Record /\ record.status = status /\ record.att = worker[w].rec.att
    BY <2>1 DEF Record
  <2>3. record.att \in Nat
    BY <2>2 DEF Record
  <2>4. PICK new \in Record : new = record
    BY <2>2
  <2>5. Journal(w, new, next)
    BY <1>1, <2>4
  <2>6. /\ new.status = status /\ new.att = worker[w].rec.att /\ new.att <= new.att
        /\ RecordOK(c, new)
    BY <2>1, <2>2, <2>3, <2>4
  <2> HIDE DEF record
  <2> QED BY <2>1, <2>5, <2>6, JournalTells
<1>2. CASE CallConflict(w)
  BY <1>2, FailTells DEF CallConflict
<1> QED BY <1>1, <1>2 DEF SetStatus

-----------------------------------------------------------------------------
(* The tool node. *)

\* The call that is taken up is the first one pending; it has a record from now on.
LEMMA ToolTells == ASSUME IInv, IInv', CInv, NEW w \in Workers, Tool(w) PROVE CInv'
<1>1. worker[w].pc = "tool" /\ conv.saved /\ w \notin convAt
  BY Knows DEF Tool, AtStep, CopyOK, Loaded
<1>2. CASE Reroute(w)
  BY <1>1, <1>2, RerouteTells
<1>3. CASE Cancelled(w)
  BY <1>3, WithdrawTells DEF Cancelled
<1>4. CASE Fail(w)
  BY <1>4, FailTells
<1>5. CASE conv.pending # <<>> /\ ~Reroute(w) /\ ~Cancelled(w) /\ ~Fail(w)
  <2>1. conv \in Conversation /\ worker[w] \in Worker /\ ~conv.final
    BY <1>5, Knows DEF IInv, TypeOK, CInv, ConvOK
  <2>2. PICK c \in Calls : c = NextCall(conv)
    BY <1>5, <2>1 DEF NextCall, Conversation
  <2>3. c \in PendingCalls /\ c = Head(conv.pending)
    <3>1. conv.pending \in Seq(Calls)
      BY <2>1 DEF Conversation
    <3> QED BY <1>5, <2>2, <3>1 DEF NextCall, PendingCalls
  <2>4. PICK rec \in Record :
          /\ rec = IF c \in Journaled THEN journal[c] ELSE [NoRecord EXCEPT !.status = "pending"]
          /\ c \in Journaled => rec = journal[c]
          /\ c \notin Journaled => rec = [status |-> "pending", att |-> 0] /\ journal[c].att = 0
          /\ rec.status # "absent"
    <3>1. [NoRecord EXCEPT !.status = "pending"] = [status |-> "pending", att |-> 0]
      BY DEF NoRecord
    <3>2. [status |-> "pending", att |-> 0] \in Record /\ journal[c] \in Record
      BY DEF Record, CallStatus, IInv, TypeOK
    <3>3. c \notin Journaled => journal[c].att = 0
      BY DEF Journaled, IInv, CallsOK, CallOK
    <3> QED BY <3>1, <3>2, <3>3 DEF Journaled
  <2>5. PICK r \in Worker :
          /\ r = [worker[w] EXCEPT !.pc = "requested", !.call = c, !.copy = conv, !.rec = rec]
          /\ r.pc = "requested" /\ r.call = c /\ r.copy = conv /\ r.rec = rec
    <3>1. [worker[w] EXCEPT !.pc = "requested", !.call = c, !.copy = conv, !.rec = rec] \in Worker
      BY <2>1 DEF Worker, Steps
    <3> QED BY <2>1, <3>1 DEF Worker
  <2>6. /\ convAt' = convAt \cup {w} /\ journal' = [journal EXCEPT ![c] = rec]
        /\ worker' = [worker EXCEPT ![w] = r] /\ UNCHANGED <<run, conv, approval>>
    BY <1>5, <2>2, <2>4, <2>5 DEF Tool
  <2>7. \A d \in Calls : journal'[d] = IF d = c THEN rec ELSE journal[d]
    BY <2>6 DEF IInv, TypeOK
  <2>8. \A d \in Calls : journal'[d].att = journal[d].att /\ journal[d].att \in Nat
                         /\ (journal[d].status # "absent" => journal'[d] = journal[d])
    BY <2>4, <2>7 DEF IInv, TypeOK, Record, Journaled
  <2>9. Onward
    <3>1. \A d \in Calls : Over(d) => Over(d)'
      BY <2>6, <2>8 DEF Over, Refused, AttemptsOf
    <3> QED BY <2>6, <2>8, <3>1 DEF Onward
  <2>10. ConvOK' /\ Grown
    <3>1. Journaled' \subseteq Journaled \cup PendingCalls
      BY <2>3, <2>7 DEF Journaled
    <3> QED BY <2>6, <2>9, <3>1, ConvStays
  <2>11. RecordOK(c, rec)
    BY <2>4 DEF CInv, RecordsOK, RecordOK, Compensated
  <2>12. RecordsOK'
    <3> SUFFICES ASSUME NEW d \in Calls PROVE RecordOK(d, journal[d])'
      BY DEF RecordsOK
    <3>1. RecordOK(d, journal'[d])
      BY <2>7, <2>11 DEF CInv, RecordsOK
    <3> QED BY <2>6, <3>1 DEF RecordOK
  <2>13. CopyOK(r)' /\ WorkOK(r)'
    <3>1. CopyOK(r)'
      BY <1>1, <2>1, <2>5, <2>6 DEF CopyOK, Asking
    <3>2. RecordOK(c, rec)'
      BY <2>9, <2>11, RecordStays
    <3>3. journal'[c] = rec /\ rec.att \in Nat
      BY <2>7 DEF Record
    <3>4. Reached(c)'
      BY <1>5, <2>3, <2>6 DEF Reached
    <3>5. rec.status = "succeeded" => Over(c)'
      BY <3>3 DEF Over
    <3> QED BY <1>1, <2>3, <2>4, <2>5, <2>6, <3>1, <3>2, <3>3, <3>4, <3>5 DEF WorkOK
  <2>14. WorksOK'
    BY <2>6, <2>9, <2>10, <2>13, OthersKnow
  <2>15. CurrentOK'
    <3>1. \A v \in Workers : worker'[v] = IF v = w THEN r ELSE worker[v]
      BY <2>6 DEF IInv, TypeOK
    <3>2. convAt \subseteq Workers
      BY DEF IInv, TypeOK
    <3>3. "requested" \in Loaded
      BY DEF Loaded, Steps
    <3> QED BY <2>5, <2>6, <3>1, <3>2, <3>3 DEF CInv, CurrentOK
  <2>16. EndOK'
    BY <2>6 DEF CInv, EndOK
  <2> QED BY <2>10, <2>12, <2>14, <2>15, <2>16 DEF CInv
<1> QED BY <1>2, <1>3, <1>4, <1>5 DEF Tool

\* What is known of a call that is worked on.
LEMMA AtWork ==
  ASSUME IInv, CInv, NEW w \in Workers, worker[w].pc \in ToolSteps
  PROVE  LET c == worker[w].call
             rec == worker[w].rec
         IN  /\ c \in Calls /\ rec \in Record /\ RecordOK(c, rec) /\ CopyOK(worker[w])
             /\ worker[w].pc \in Loaded /\ worker[w].pc \in HoldsCall
             /\ rec.status # "absent" /\ rec.att \in Nat /\ AttemptsOf(c) \in Nat
             /\ rec.att <= journal[c].att /\ journal[c].att \in Nat
             /\ rec.status = "succeeded" => Over(c)
             /\ approval[c] \in Approval
             /\ w \in callAt => rec = journal[c] /\ CallOK(c)
<1>1. worker[w].pc \in HoldsCall /\ worker[w].pc \in Loaded
  BY DEF HoldsCall, ToolSteps, Loaded, Steps
<1>2. worker[w] \in Worker /\ RowOK(worker[w]) /\ CopyOK(worker[w]) /\ WorkOK(worker[w])
  BY Knows
<1> QED BY <1>1, <1>2, AttemptsType DEF Worker, Record, RowOK, WorkOK, IInv, TypeOK, CopiesOK, Held, CallsOK

\* It goes on to another place, the last one only when it is over.
LEMMA WorkGoesOn ==
  ASSUME IInv, CInv, NEW w \in Workers, worker[w].pc \in ToolSteps, NEW next \in ToolSteps,
         next = "append" => ToldOK(worker[w].call, worker[w].rec.status)
  PROVE  /\ next \in Loaded
         /\ CopyOK([worker[w] EXCEPT !.pc = next]) /\ WorkOK([worker[w] EXCEPT !.pc = next])
<1> DEFINE r == [worker[w] EXCEPT !.pc = next]
<1>1. worker[w] \in Worker /\ CopyOK(worker[w]) /\ WorkOK(worker[w])
  BY Knows
<1>2. /\ r.pc = next /\ r.call = worker[w].call /\ r.rec = worker[w].rec
      /\ r.copy = worker[w].copy
  BY <1>1 DEF Worker
<1>3. next \in Loaded
  BY DEF ToolSteps, Loaded, Steps
<1> HIDE DEF r
<1>4. CopyOK(r)
  BY <1>1, <1>2 DEF CopyOK, ToolSteps, Asking
<1>5. WorkOK(r)
  BY <1>1, <1>2 DEF WorkOK, HoldsCall
<1> QED BY <1>3, <1>4, <1>5 DEF r

\* What is said of a call when there is nothing more to do about it.
LEMMA ToldAtEnd ==
  ASSUME IInv, CInv, NEW w \in Workers, worker[w].pc \in ToolSteps,
         LET c == worker[w].call
             rec == worker[w].rec
         IN  /\ rec.att >= AttemptsOf(c) \/ Refused(c) \/ rec.status = "succeeded"
             /\ rec.status \in Settled \/ (c \notin Once /\ rec.att >= AttemptsOf(c))
  PROVE  ToldOK(worker[w].call, worker[w].rec.status)
<1>1. Over(worker[w].call)
  BY AtWork DEF Over
<1>2. worker[w].rec.status \notin {"rejected", "blocked"} => journal[worker[w].call].att > 0
  <2>1. PICK c \in Calls : c = worker[w].call
    BY AtWork
  <2>2. AttemptsOf(c) \in Nat \ {0}
    BY ConstantsAssumption DEF AttemptsOf
  <2>3. worker[w].rec.att \in Nat /\ journal[c].att \in Nat /\ worker[w].rec.att <= journal[c].att
    BY <2>1, AtWork DEF IInv, TypeOK, Record
  <2>4. worker[w].rec.status \in Settled \ {"rejected", "blocked"} => worker[w].rec.att > 0
    BY AtWork DEF RecordOK, Settled, Compensated
  <2> QED BY <2>1, <2>2, <2>3, <2>4
<1>3. worker[w].rec.status \in {"rejected", "blocked"} => Refused(worker[w].call)
  BY AtWork DEF RecordOK, Refused
<1> QED BY <1>1, <1>2, <1>3 DEF ToldOK

LEMMA RequestedTells == ASSUME IInv, IInv', CInv, NEW w \in Workers, Requested(w) PROVE CInv'
<1> DEFINE next == IF worker[w].call \in Unexposed THEN "block" ELSE "approve"
<1>1. worker[w].pc \in ToolSteps /\ next \in ToolSteps /\ next # "append"
  BY DEF Requested, AtStep, ToolSteps
<1>2. Fence(w, next)
  BY DEF Requested
<1> HIDE DEF next
<1> QED BY <1>1, <1>2, WorkGoesOn, AtWork, FenceTells

LEMMA BlockTells == ASSUME IInv, IInv', CInv, NEW w \in Workers, Block(w) PROVE CInv'
<1> DEFINE c == worker[w].call
<1>1. /\ worker[w].pc \in ToolSteps /\ "append" \in ToolSteps /\ c \in Unexposed
      /\ "blocked" \in CallStatus \ {"absent"} /\ Refused(c)
  BY Knows DEF Block, AtStep, ToolSteps, RowOK, CallStatus, Refused
<1>2. CASE Goto(w, "append") /\ worker[w].rec.status \in {"blocked", "failed", "rejected"}
  <2>1. ToldOK(c, worker[w].rec.status)
    BY <1>1, <1>2, ToldAtEnd DEF Settled
  <2> QED BY <1>1, <1>2, <2>1, WorkGoesOn, AtWork, GotoTells
<1>3. CASE SetStatus(w, "blocked", "append")
  <2>1. w \in callAt => RecordOK(c, [worker[w].rec EXCEPT !.status = "blocked"])
    BY <1>1, AtWork DEF RecordOK, Record, Compensated
  <2> QED BY <1>1, <1>3, <2>1, SetStatusTells DEF Settled
<1> QED BY <1>2, <1>3 DEF Block

LEMMA ApproveTells == ASSUME IInv, IInv', CInv, NEW w \in Workers, Approve(w) PROVE CInv'
<1> DEFINE c == worker[w].call
<1>1. /\ worker[w].pc \in ToolSteps /\ {"start", "request", "wait", "reject"} \subseteq ToolSteps
      /\ {"waiting_approval", "pending"} \subseteq CallStatus \ {"absent"}
  BY DEF Approve, AtStep, ToolSteps, CallStatus
<1>2. \/ \E next \in {"start", "request", "wait", "reject"} : Goto(w, next)
      \/ SetStatus(w, "waiting_approval", "request") /\ c \in Gated /\ approval[c] = "none"
      \/ SetStatus(w, "pending", "start") /\ worker[w].rec.status = "waiting_approval"
  BY <1>1, AtWork DEF Approve, NeedsApproval, Approval
<1>3. CASE \E next \in {"start", "request", "wait", "reject"} : Goto(w, next)
  BY <1>1, <1>3, WorkGoesOn, AtWork, GotoTells
<1>4. CASE SetStatus(w, "waiting_approval", "request") /\ c \in Gated /\ approval[c] = "none"
  <2>1. w \in callAt => worker[w].rec.att = 0
    BY <1>1, <1>4, AtWork DEF CallOK
  <2>2. w \in callAt => /\ RecordOK(c, [worker[w].rec EXCEPT !.status = "waiting_approval"])
                        /\ worker[w].rec.status # "succeeded"
    BY <1>1, <2>1, AtWork DEF RecordOK, Record, Compensated
  <2> QED BY <1>1, <1>4, <2>2, SetStatusTells
<1>5. CASE SetStatus(w, "pending", "start") /\ worker[w].rec.status = "waiting_approval"
  <2>1. RecordOK(c, [worker[w].rec EXCEPT !.status = "pending"])
    BY <1>1, <1>5, AtWork DEF RecordOK, Record, Compensated
  <2> QED BY <1>1, <1>5, <2>1, SetStatusTells
<1> QED BY <1>2, <1>3, <1>4, <1>5

LEMMA WaitTells == ASSUME IInv, IInv', CInv, NEW w \in Workers, Wait(w) \/ Unknown(w) PROVE CInv'
  BY PauseTells DEF Wait, Unknown, AtStep, ToolSteps, Parked

LEMMA RejectTells == ASSUME IInv, IInv', CInv, NEW w \in Workers, Reject(w) PROVE CInv'
<1> DEFINE c == worker[w].call
<1>1. /\ worker[w].pc \in ToolSteps /\ "append" \in ToolSteps /\ c \in Gated /\ approval[c] = "rejected"
      /\ "rejected" \in CallStatus \ {"absent"} /\ Refused(c)
  BY Knows DEF Reject, AtStep, ToolSteps, RowOK, CallStatus, Refused
<1>2. CASE Goto(w, "append") /\ worker[w].rec.status = "rejected"
  <2>1. ToldOK(c, worker[w].rec.status)
    BY <1>1, <1>2, ToldAtEnd DEF Settled
  <2> QED BY <1>1, <1>2, <2>1, WorkGoesOn, AtWork, GotoTells
<1>3. CASE SetStatus(w, "rejected", "append")
  <2>1. w \in callAt => RecordOK(c, [worker[w].rec EXCEPT !.status = "rejected"])
    BY <1>1, AtWork DEF RecordOK, Record, Compensated
  <2> QED BY <1>1, <1>3, <2>1, SetStatusTells DEF Settled
<1> QED BY <1>2, <1>3 DEF Reject

LEMMA StartTells == ASSUME IInv, IInv', CInv, NEW w \in Workers, Start(w) PROVE CInv'
<1>1. worker[w].pc \in ToolSteps /\ "execute" \in ToolSteps /\ Fence(w, "execute")
  BY DEF Start, AtStep, ToolSteps
<1> QED BY <1>1, WorkGoesOn, AtWork, FenceTells

LEMMA ExecuteTells == ASSUME IInv, IInv', CInv, NEW w \in Workers, Execute(w) PROVE CInv'
<1> DEFINE c == worker[w].call
           rec == worker[w].rec
<1>1. /\ worker[w].pc \in ToolSteps /\ {"append", "unwind", "unknown", "calling"} \subseteq ToolSteps
      /\ {"blocked", "reconciliation_required", "executing"} \subseteq CallStatus \ {"absent"}
  BY DEF Execute, AtStep, ToolSteps, CallStatus
<1>2. CASE rec.status = "succeeded"
  <2>1. Goto(w, "append") /\ ToldOK(c, rec.status)
    BY <1>1, <1>2, ToldAtEnd DEF Execute, Settled
  <2> QED BY <1>1, <2>1, WorkGoesOn, AtWork, GotoTells
<1>3. CASE rec.status = "reconciliation_required"
  <2>1. Goto(w, "unwind")
    BY <1>3 DEF Execute
  <2> QED BY <1>1, <2>1, WorkGoesOn, AtWork, GotoTells
<1>4. CASE rec.status \notin {"succeeded", "reconciliation_required"}
  <2>1. CASE c \in Invalid
    <3>1. SetStatus(w, "blocked", "append") /\ Refused(c)
      BY <1>4, <2>1 DEF Execute, Refused
    <3>2. RecordOK(c, [rec EXCEPT !.status = "blocked"])
      BY <1>1, <2>1, AtWork DEF RecordOK, Record, Compensated
    <3> QED BY <1>1, <3>1, <3>2, SetStatusTells DEF Settled
  <2>2. CASE c \notin Invalid /\ Unobserved(rec, c)
    <3>1. SetStatus(w, "reconciliation_required", "unknown")
      BY <1>4, <2>2 DEF Execute
    <3>2. RecordOK(c, [rec EXCEPT !.status = "reconciliation_required"])
      BY <1>1, <2>2, AtWork DEF Unobserved, RecordOK, Record, Compensated
    <3> QED BY <1>1, <1>4, <3>1, <3>2, SetStatusTells
  <2>3. CASE c \notin Invalid /\ ~Unobserved(rec, c) /\ rec.att >= AttemptsOf(c)
    <3>1. Goto(w, "append")
      BY <1>4, <2>3 DEF Execute
    <3>2. rec.status \in Settled \/ c \notin Once
      <4>1. c \in Once => rec.att > 0
        BY <1>1, <2>3, AtWork DEF AttemptsOf
      <4> QED BY <1>1, <1>4, <2>3, <4>1, AtWork
              DEF Unobserved, RecordOK, Record, CallStatus, Settled
    <3>3. ToldOK(c, rec.status)
      BY <1>1, <2>3, <3>2, ToldAtEnd
    <3> QED BY <1>1, <3>1, <3>3, WorkGoesOn, AtWork, GotoTells
  <2>4. CASE c \notin Invalid /\ ~Unobserved(rec, c) /\ ~(rec.att >= AttemptsOf(c))
    <3>1. Cancelled(w) \/ CallConflict(w)
          \/ Journal(w, [status |-> "executing", att |-> rec.att + 1], "calling")
      BY <1>4, <2>4 DEF Execute, Attempt
    <3>2. PICK new \in Record : /\ new = [status |-> "executing", att |-> rec.att + 1]
                                /\ new.status = "executing" /\ rec.att <= new.att /\ new.att > 0
      <4>1. rec.att + 1 \in Nat /\ rec.att + 1 > 0 /\ rec.att <= rec.att + 1
        BY <1>1, AtWork
      <4>2. [status |-> "executing", att |-> rec.att + 1] \in Record
        BY <4>1 DEF Record, CallStatus
      <4> QED BY <4>1, <4>2
    <3>3. RecordOK(c, new)
      BY <3>2 DEF RecordOK, Compensated
    <3>4. CASE Journal(w, [status |-> "executing", att |-> rec.att + 1], "calling")
      <4>1. Journal(w, new, "calling")
        BY <3>2, <3>4
      <4> QED BY <1>1, <1>4, <3>2, <3>3, <4>1, JournalTells
    <3> QED BY <3>1, <3>4, WithdrawTells, FailTells DEF Cancelled, CallConflict
  <2> QED BY <2>1, <2>2, <2>3, <2>4
<1> QED BY <1>2, <1>3, <1>4

LEMMA ReturnTells ==
  ASSUME IInv, IInv', CInv, NEW w \in Workers, Return(w) \/ Outlive(w) \/ Interrupt(w)
  PROVE  CInv'
<1> DEFINE c == worker[w].call
           rec == worker[w].rec
<1>1. /\ AtStep(w, "calling") /\ worker[w].pc \in ToolSteps
      /\ {"append", "unwind", "unknown", "execute"} \subseteq ToolSteps
      /\ {"succeeded", "failed", "reconciliation_required"} \subseteq CallStatus \ {"absent"}
  BY DEF Return, Outlive, Interrupt, AtStep, ToolSteps, CallStatus
<1>2. w \in callAt => rec.status = "executing" /\ rec.att > 0
  <2>1. w \in callAt => rec.status = "executing"
    BY <1>1 DEF IInv, CopiesOK, Held, AtStep
  <2> QED BY <1>1, <2>1, AtWork DEF RecordOK
<1>3. w \in callAt => \A status \in {"succeeded", "failed", "reconciliation_required"} :
                        RecordOK(c, [rec EXCEPT !.status = status])
  BY <1>1, <1>2, AtWork DEF RecordOK, Record, Compensated
<1>4. CASE Goto(w, "execute")
  BY <1>1, <1>4, WorkGoesOn, AtWork, GotoTells
<1>5. CASE SetStatus(w, "succeeded", "append")
  BY <1>1, <1>2, <1>3, <1>5, SetStatusTells DEF Settled
<1>6. CASE SetStatus(w, "reconciliation_required", "unknown") \/ SetStatus(w, "reconciliation_required", "unwind")
  BY <1>1, <1>2, <1>3, <1>6, SetStatusTells
<1>7. CASE c \notin Once /\ rec.att >= AttemptsOf(c) /\ SetStatus(w, "failed", "append")
  BY <1>1, <1>2, <1>3, <1>7, SetStatusTells DEF Settled
<1>8. \/ Goto(w, "execute") \/ SetStatus(w, "succeeded", "append")
      \/ SetStatus(w, "reconciliation_required", "unknown") \/ SetStatus(w, "reconciliation_required", "unwind")
      \/ c \notin Once /\ rec.att >= AttemptsOf(c) /\ SetStatus(w, "failed", "append")
  BY DEF Return, Outlive, Interrupt, SetStatus
<1> QED BY <1>4, <1>5, <1>6, <1>7, <1>8

\* The approval is asked for: the row of the approval is new.
LEMMA RequestTells == ASSUME IInv, IInv', CInv, NEW w \in Workers, Request(w) PROVE CInv'
<1>1. worker[w].pc \in ToolSteps /\ {"approve", "wait"} \subseteq ToolSteps
  BY DEF Request, AtStep, ToolSteps
<1>2. CASE Goto(w, "approve")
  BY <1>1, <1>2, WorkGoesOn, AtWork, GotoTells
<1>3. CASE approval[worker[w].call] = "none" /\ ~Goto(w, "approve")
  <2>1. PICK c \in Calls : c = worker[w].call
    BY <1>1, AtWork
  <2>2. PICK r \in Worker : /\ r = [worker[w] EXCEPT !.pc = "wait"]
                            /\ r.pc = "wait" /\ r.copy = worker[w].copy /\ r.call = c
    <3>1. worker[w] \in Worker
      BY Knows
    <3>2. [worker[w] EXCEPT !.pc = "wait"] \in Worker
      BY <3>1 DEF Worker, Steps
    <3> QED BY <2>1, <3>1, <3>2 DEF Worker
  <2>3. /\ approval' = [approval EXCEPT ![c] = "pending"] /\ worker' = [worker EXCEPT ![w] = r]
        /\ UNCHANGED <<run, conv, journal, convAt>>
    BY <1>3, <2>1, <2>2 DEF Request, current
  <2>4. \A d \in Calls : approval[d] = "rejected" => approval'[d] = "rejected"
    BY <1>3, <2>1, <2>3 DEF IInv, TypeOK
  <2>5. Onward
    <3>1. \A d \in Calls : journal[d].att <= journal[d].att
      BY DEF IInv, TypeOK, Record
    <3> QED BY <2>3, <2>4, <3>1 DEF Onward, Over, Refused, AttemptsOf
  <2>6. ConvOK' /\ Grown
    BY <2>3, <2>5, ConvStays DEF Journaled
  <2>7. RecordsOK'
    BY <2>3, <2>4 DEF CInv, RecordsOK, RecordOK
  <2>8. CopyOK(r)' /\ WorkOK(r)'
    <3>1. CopyOK(r) /\ WorkOK(r)
      BY <1>1, <2>2, WorkGoesOn
    <3>2. RowOK(worker[w]) /\ worker[w].pc = "request"
      BY Knows DEF Request, AtStep
    <3>3. RowOK(r)
      BY <2>1, <2>2, <3>2 DEF RowOK, ToolSteps, HoldsCall, Resolved
    <3> QED BY <2>5, <2>6, <3>1, <3>3, WorkStays
  <2>9. WorksOK'
    BY <2>3, <2>5, <2>6, <2>8, OthersKnow
  <2>10. CurrentOK'
    <3>1. \A v \in Workers : worker'[v] = IF v = w THEN r ELSE worker[v]
      BY <2>3 DEF IInv, TypeOK
    <3>2. convAt \subseteq Workers /\ "wait" \in Loaded
      BY DEF IInv, TypeOK, Loaded, Steps
    <3> QED BY <2>2, <2>3, <3>1, <3>2 DEF CInv, CurrentOK
  <2>11. EndOK'
    BY <2>3 DEF CInv, EndOK
  <2> QED BY <2>6, <2>7, <2>9, <2>10, <2>11 DEF CInv
<1> QED BY <1>2, <1>3 DEF Request

-----------------------------------------------------------------------------
(* The other nodes, and who is no execution. *)

LEMMA NodeTells ==
  ASSUME IInv, IInv', CInv, NEW w \in Workers,
         \/ Claim(w) \/ Begin(w) \/ Prepare(w) \/ Ready(w) \/ Model(w) \/ Compacted(w) \/ Ask(w)
         \/ Answered(w) \/ Unwind(w) \/ Appended(w) \/ Finish(w) \/ Complete(w) \/ TimeOut(w) \/ Crash(w)
  PROVE  CInv'
<1>0. /\ worker[w] \in Worker /\ CopyOK(worker[w]) /\ (w \in convAt => worker[w].pc \in Loaded)
      /\ (run.status = "completed" => conv.final)
  BY Knows
<1>1. CASE Claim(w)
  <2>1. PICK r \in Worker : r = [Out EXCEPT !.pc = "begin"] /\ r.pc = "begin" /\ r.copy = Unsaved
    <3>1. Out.copy = Unsaved
      BY DEF Out
    <3>2. [Out EXCEPT !.pc = "begin"] \in Worker
      BY OutType DEF Worker, Steps
    <3> QED BY <3>1, <3>2, OutType DEF Worker
  <2>2. CopyOK(r) /\ WorkOK(r)
    BY <2>1 DEF CopyOK, WorkOK, Unsaved, Asking, HoldsCall, ToolSteps
  <2>3. w \notin convAt /\ run'.status # "completed"
    BY <1>0, <1>1 DEF Claim, AtStep, Loaded
  <2> QED BY <1>1, <2>1, <2>2, <2>3, MoveTells DEF Claim
<1>2. CASE Begin(w)
  <2>1. CASE ~MayWrite(w) /\ Withdraw(w)
    BY <2>1, WithdrawTells
  <2>2. CASE MayWrite(w) /\ ~(~MayWrite(w) /\ Withdraw(w))
    <3>1. \E node \in {"prepare"} \cup (IF conv.saved THEN {Route(conv)} ELSE {}) :
            \E resumed \in IF node = "tool" THEN {FALSE, paused} ELSE {FALSE} :
              worker' = [worker EXCEPT ![w] = [Out EXCEPT !.pc = node, !.resumed = resumed]]
      BY <1>2, <2>2 DEF Begin
    <3>2. PICK node \in {"prepare", "finish", "tool", "model"}, resumed \in BOOLEAN :
            /\ worker' = [worker EXCEPT ![w] = [Out EXCEPT !.pc = node, !.resumed = resumed]]
            /\ node # "prepare" => conv.saved
            /\ node = "finish" => conv.final
      <4>1. paused \in BOOLEAN
        BY Parts DEF RestOK
      <4> QED BY <3>1, <4>1 DEF Route
    <3>3. PICK r \in Worker : /\ r = [Out EXCEPT !.pc = node, !.resumed = resumed]
                              /\ r.pc = node /\ r.copy = Unsaved
      <4>1. Out.copy = Unsaved /\ node \in Steps
        BY DEF Out, Steps
      <4>2. [Out EXCEPT !.pc = node, !.resumed = resumed] \in Worker
        BY <4>1, OutType DEF Worker
      <4> QED BY <4>1, <4>2, OutType DEF Worker
    <3>4. CopyOK(r) /\ WorkOK(r)
      BY <3>2, <3>3 DEF CopyOK, WorkOK, Unsaved, Asking, HoldsCall, ToolSteps
    <3>5. w \notin convAt /\ UNCHANGED <<run, conv, journal, approval, convAt>>
      BY <1>0, <1>2, <2>2 DEF Begin, AtStep, Loaded, store
    <3> QED BY <1>0, <3>2, <3>3, <3>4, <3>5, MoveTells
  <2> QED BY <1>2, <2>1, <2>2 DEF Begin
<1>3. CASE Prepare(w) \/ Finish(w) \/ (Model(w) /\ Load(w, "ask"))
  <2>1. PICK next \in {"ready", "open", "ask", "complete"} :
          /\ Load(w, next) /\ (next = "open" => ~conv.saved) /\ (next # "open" => conv.saved)
          /\ next = "ask" => ~conv.final /\ conv.pending = <<>>
          /\ next = "complete" => conv.final
    <3>1. CASE Prepare(w)
      BY <3>1 DEF Prepare
    <3>2. CASE Finish(w)
      BY <1>0, <3>2 DEF Finish, AtStep, CopyOK, CInv, ConvOK
    <3>3. CASE Model(w) /\ Load(w, "ask")
      <4>1. Route(conv) = "model" \/ Cancelled(w) \/ Reroute(w)
        BY <3>3 DEF Model
      <4>2. worker[w].pc = "model" /\ worker'[w].pc = "ask" /\ conv.saved
        BY <1>0, <3>3 DEF Model, AtStep, CopyOK, Load, IInv, TypeOK, Worker
      <4>3. ~Cancelled(w) /\ ~Reroute(w)
        <5>1. Cancelled(w) => worker'[w].pc = "out"
          BY OutType DEF Cancelled, Withdraw, Leave, IInv, TypeOK
        <5>2. Reroute(w) => worker'[w].pc \in {"finish", "tool", "model"}
          <6>1. Entering(Route(conv)).pc = Route(conv)
            BY RouteType, EnteringType DEF Steps
          <6> QED BY <6>1, RouteType DEF Reroute, IInv, TypeOK
        <5> QED BY <4>2, <5>1, <5>2
      <4> QED BY <3>3, <4>1, <4>2, <4>3 DEF Route
    <3> QED BY <1>3, <3>1, <3>2, <3>3
  <2>2. next \in Loaded \ HoldsCall
    BY DEF Loaded, Steps, HoldsCall, ToolSteps
  <2>3. PICK r \in Worker : /\ r = [worker[w] EXCEPT !.pc = next, !.copy = conv]
                            /\ r.pc = next /\ r.copy = conv
    <3>1. [worker[w] EXCEPT !.pc = next, !.copy = conv] \in Worker
      BY <1>0 DEF Worker, Steps, IInv, TypeOK
    <3> QED BY <1>0, <3>1 DEF Worker
  <2>4. CopyOK(r)
    BY <2>1, <2>3 DEF CopyOK, Asking
  <2> QED BY <2>1, <2>2, <2>3, <2>4, LoadTells
<1>4. CASE Model(w) /\ ~Load(w, "ask")
  <2>1. Cancelled(w) \/ Reroute(w)
    BY <1>4 DEF Model
  <2>2. conv.saved /\ w \notin convAt
    BY <1>0, <1>4 DEF Model, AtStep, CopyOK, Loaded
  <2> QED BY <2>1, <2>2, WithdrawTells, RerouteTells DEF Cancelled
<1>5. CASE Ready(w) \/ Answered(w) \/ Appended(w)
  BY <1>5, EndNodeTells, FailTells DEF Ready, Answered, Appended, AtStep
<1>6. CASE Compacted(w) \/ Ask(w)
  <2>1. CASE Fail(w)
    BY <2>1, FailTells
  <2>2. CASE ~Fail(w)
    <3>1. PICK next \in {"turn", "asking"} : Fence(w, next)
      BY <1>6, <2>2 DEF Compacted, Ask
    <3>2. worker[w].pc \in Asking /\ worker[w].pc \in Loaded /\ next \in Loaded
      BY <1>6 DEF Compacted, Ask, AtStep, Asking, Loaded, Steps
    <3>3. LET r == [worker[w] EXCEPT !.pc = next]
          IN  r.pc = next /\ r.copy = worker[w].copy
      BY <1>0 DEF Worker
    <3>4. CopyOK([worker[w] EXCEPT !.pc = next])
      BY <1>0, <3>2, <3>3 DEF CopyOK, Asking
    <3>5. WorkOK([worker[w] EXCEPT !.pc = next])
      BY <3>3 DEF WorkOK, HoldsCall, ToolSteps
    <3> QED BY <3>1, <3>2, <3>4, <3>5, FenceTells
  <2> QED BY <2>1, <2>2
<1>7. CASE Unwind(w) \/ TimeOut(w)
  <2>1. \E status \in RunStatus \ {"completed"} : Mark(w, status)
    BY <1>7 DEF Unwind, TimeOut, RunStatus, Parked, Terminal
  <2> QED BY <2>1, MarkTells
<1>8. CASE Complete(w)
  <2>1. conv.final
    BY <1>0, <1>8 DEF Complete, AtStep, CopyOK
  <2>2. CASE ~(~MayWrite(w) /\ Withdraw(w))
    BY <1>8, <2>1, <2>2, MoveTells, OutTells, OutType DEF Complete
  <2> QED BY <2>2, WithdrawTells
<1>9. CASE Crash(w)
  BY <1>0, <1>9, MoveTells, OutTells, OutType DEF Crash, Leave, store
<1> QED BY <1>1, <1>2, <1>3, <1>4, <1>5, <1>6, <1>7, <1>8, <1>9

\* Nobody who is no execution writes the checkpoint or completes the run.
LEMMA OutsideTells ==
  ASSUME IInv, IInv', CInv, UNCHANGED <<worker, conv, convAt>>, Onward, RecordsOK',
         Journaled' \subseteq Journaled, run'.status = "completed" => run.status = "completed"
  PROVE  CInv'
<1>1. ConvOK' /\ Grown
  BY ConvStays
<1>2. WorksOK'
  <2> SUFFICES ASSUME NEW v \in Workers PROVE CopyOK(worker[v])' /\ WorkOK(worker[v])'
    BY DEF WorksOK
  <2>1. PICK q \in Worker : q = worker[v]
    BY Parts
  <2>2. CopyOK(q)' /\ WorkOK(q)'
    <3>1. RowOK(q) /\ CopyOK(q) /\ WorkOK(q)
      BY <2>1, Knows
    <3> QED BY <1>1, <3>1, WorkStays
  <2> QED BY <2>1, <2>2 DEF CopyOK, WorkOK
<1>3. CurrentOK'
  BY DEF CInv, CurrentOK
<1>4. EndOK'
  BY DEF CInv, EndOK
<1> QED BY <1>1, <1>2, <1>3, <1>4 DEF CInv

LEMMA RowTells ==
  ASSUME IInv, IInv', CInv, Lapse \/ Cancel \/ Reopen \/ Release \/ ReviewerDies \/ UNCHANGED vars
  PROVE  CInv'
<1>1. UNCHANGED <<worker, conv, convAt, journal, approval>>
  BY DEF Lapse, Cancel, Reopen, Release, PutBack, ReviewerDies, vars, store, current, around
<1>2. run'.status = "completed" => run.status = "completed"
  BY DEF Lapse, Cancel, Reopen, Release, PutBack, ReviewerDies, Stored, vars, store, IInv, TypeOK
<1>3. Onward
  BY <1>1, QuietOnward
<1>4. RecordsOK' /\ Journaled' = Journaled
  BY <1>1, QuietConv DEF Journaled
<1> QED BY <1>1, <1>2, <1>3, <1>4, OutsideTells

LEMMA DecideTells ==
  ASSUME IInv, IInv', CInv, NEW c \in Calls, NEW d \in {"approved", "rejected"}, Decide(c, d)
  PROVE  CInv'
<1>1. \A e \in Calls : approval'[e] = IF e = c THEN d ELSE approval[e]
  BY DEF Decide, IInv, TypeOK
<1>2. \A e \in Calls : approval[e] = "rejected" => approval'[e] = "rejected"
  BY <1>1 DEF Decide
<1>3. Onward
  <2>1. \A e \in Calls : journal[e].att <= journal[e].att
    BY DEF IInv, TypeOK, Record
  <2> QED BY <1>2, <2>1 DEF Decide, Onward, Over, Refused, AttemptsOf
<1>4. RecordsOK' /\ Journaled' = Journaled
  BY <1>2 DEF Decide, CInv, RecordsOK, RecordOK, Journaled
<1> QED BY <1>3, <1>4, OutsideTells DEF Decide, current

\* The reviewer and the compensator write the status of a call that was made.
LEMMA OverrideTells ==
  ASSUME IInv, IInv', CInv, NEW c \in Calls,
         NEW status \in {"succeeded", "failed"} \cup Compensated,
         journal[c].status # "absent", journal[c].att > 0,
         journal[c].status = "succeeded" => status \in Compensated,
         status \in Compensated => c \in Compensable,
         journal' = [journal EXCEPT ![c].status = status],
         UNCHANGED <<worker, conv, convAt, approval, run>>
  PROVE  CInv'
<1>1. PICK new \in Record : new.status = status /\ new.att = journal[c].att
                            /\ journal' = [journal EXCEPT ![c] = new]
  <2>1. journal[c] \in Record /\ status \in CallStatus
    BY DEF IInv, TypeOK, CallStatus, Compensated
  <2> QED BY <2>1 DEF Record
<1>2. \A d \in Calls : journal'[d] = IF d = c THEN new ELSE journal[d]
  BY <1>1 DEF IInv, TypeOK
<1>3. Onward
  <2> SUFFICES ASSUME NEW d \in Calls PROVE journal[d].att <= journal'[d].att /\ (Over(d) => Over(d)')
    BY DEF Onward
  <2>1. journal[d].att \in Nat /\ journal'[d].att = journal[d].att
    BY <1>1, <1>2 DEF IInv, TypeOK, Record
  <2>2. CASE d # c \/ journal[d].status # "succeeded"
    BY <1>2, <2>1, <2>2 DEF Over, Refused, AttemptsOf
  <2>3. CASE d = c /\ journal[d].status = "succeeded"
    <3>1. c \in Once => journal[d].att >= AttemptsOf(d)
      BY <2>1, <2>3 DEF AttemptsOf
    <3> QED BY <2>1, <2>3, <3>1 DEF Over, Refused, AttemptsOf
  <2> QED BY <2>1, <2>2, <2>3
<1>4. RecordsOK'
  <2> SUFFICES ASSUME NEW d \in Calls PROVE RecordOK(d, journal[d])'
    BY DEF RecordsOK
  <2>1. RecordOK(d, journal'[d])
    BY <1>1, <1>2 DEF CInv, RecordsOK, RecordOK, Compensated
  <2> QED BY <2>1 DEF RecordOK
<1>5. Journaled' \subseteq Journaled
  BY <1>2 DEF Journaled
<1> QED BY <1>3, <1>4, <1>5, OutsideTells

LEMMA ReviewTells ==
  ASSUME IInv, IInv', CInv, NEW c \in Calls,
         \/ \E s \in {"succeeded", "failed"} : Reconcile(c, s)
         \/ \E s \in Compensated : Compensate(c, s)
  PROVE  CInv'
<1>1. RecordOK(c, journal[c])
  BY DEF CInv, RecordsOK
<1>2. ASSUME NEW s \in {"succeeded", "failed"}, Reconcile(c, s) PROVE CInv'
  BY <1>1, <1>2, OverrideTells DEF Reconcile, RecordOK, Compensated
<1>3. ASSUME NEW s \in Compensated, Compensate(c, s) PROVE CInv'
  BY <1>1, <1>3, OverrideTells DEF Compensate, RecordOK, around
<1> QED BY <1>2, <1>3

-----------------------------------------------------------------------------
(* The invariant of the conversation. *)

LEMMA InitTells == Init => CInv
<1> SUFFICES ASSUME Init PROVE CInv
  OBVIOUS
<1>1. /\ conv = Unsaved /\ ToldCalls = {} /\ PendingCalls = {} /\ DOMAIN conv.results = {}
      /\ DOMAIN conv.pending = {} /\ ~conv.final
  BY DEF Init, Unsaved, ToldCalls, PendingCalls
<1>2. Journaled = {}
  BY DEF Init, Journaled, NoRecord
<1>3. ConvOK
  BY <1>1, <1>2 DEF ConvOK
<1>4. RecordsOK
  BY DEF Init, RecordsOK, RecordOK, NoRecord, Compensated
<1>5. WorksOK /\ CurrentOK
  BY OutTells DEF Init, WorksOK, CurrentOK
<1>6. EndOK
  BY DEF Init, EndOK
<1> QED BY <1>3, <1>4, <1>5, <1>6 DEF CInv

LEMMA NextTells == IInv /\ IInv' /\ CInv /\ [Next]_vars => CInv'
<1> SUFFICES ASSUME IInv, IInv', CInv, [Next]_vars PROVE CInv'
  OBVIOUS
<1>1. ASSUME NEW w \in Workers, Claim(w) \/ Step(w) \/ Interrupt(w) \/ TimeOut(w) \/ Crash(w)
      PROVE  CInv'
  <2>1. CASE Claim(w) \/ Interrupt(w) \/ TimeOut(w) \/ Crash(w)
    BY <2>1, NodeTells, ReturnTells
  <2>2. CASE Step(w)
    BY <2>2, NodeTells, OpenTells, CompactTells, AnswerTells, ToolTells, RequestedTells, BlockTells,
       ApproveTells, WaitTells, RejectTells, StartTells, ExecuteTells, ReturnTells, AppendTells,
       RequestTells DEF Step
  <2> QED BY <1>1, <2>1, <2>2
<1>2. CASE Lapse \/ Cancel \/ UNCHANGED vars
  BY <1>2, RowTells
<1>3. CASE Review
  BY <1>3, RowTells, DecideTells, ReviewTells DEF Review
<1>4. CASE \E c \in Calls : \E s \in {"compensated", "compensation_failed"} : Compensate(c, s)
  BY <1>4, ReviewTells DEF Compensated
<1> QED BY <1>1, <1>2, <1>3, <1>4 DEF Next

LEMMA ConversationInvariant == Spec => [](IInv /\ CInv)
<1>1. Init => IInv /\ CInv
  BY InitHolds, InitTells
<1>2. IInv /\ CInv /\ [Next]_vars => (IInv /\ CInv)'
  BY NextKeeps, NextTells
<1> QED BY <1>1, <1>2, PTL DEF Spec

\* What the model is told of a call that may not be repeated is settled, and it is told
\* of a success only if the call was made and of a refusal only if it was not: whichever
\* execution tells it, with however old a record.
THEOREM ResultsAreKnown == Spec => []KnownResult
<1>1. IInv /\ CInv => KnownResult
  <2> SUFFICES ASSUME IInv, CInv, NEW t \in Told, t[1] \in Once
               PROVE  /\ t[2] \in Settled
                      /\ t[2] \in {"succeeded"} \cup Compensated => invoked[t[1]] = 1
                      /\ t[2] \in {"rejected", "blocked"} => invoked[t[1]] = 0
    BY DEF KnownResult, Settled, Compensated
  <2>1. ToldOK(t[1], t[2]) /\ t[1] \in Calls
    BY ConstantsAssumption DEF CInv, ConvOK, Told
  <2>2. CallOK(t[1]) /\ journal[t[1]].att \in Nat /\ AttemptsOf(t[1]) = 1
    BY <2>1 DEF IInv, CallsOK, TypeOK, Record, AttemptsOf
  <2> QED BY <2>1, <2>2 DEF ToldOK, CallOK, Refused, Compensated
<1> QED BY <1>1, ConversationInvariant, PTL

\* A call has one result at most, after it was asked for, and a completed run has its
\* answer and the result of every call there is in the journal.
THEOREM CallsAreAnswered == Spec => []EveryCallAnswered
<1>1. IInv /\ CInv => EveryCallAnswered
  <2> SUFFICES ASSUME IInv, CInv PROVE EveryCallAnswered
    OBVIOUS
  <2>1. \A i \in DOMAIN conv.pending : \A t \in Told : t[1] # conv.pending[i]
    BY DEF CInv, ConvOK, Told, ToldCalls, PendingCalls
  <2>2. ASSUME run.status = "completed"
        PROVE  /\ conv.final /\ conv.pending = <<>>
               /\ \A c \in Journaled : \E t \in Told : t[1] = c
    <3>1. conv.final /\ conv.pending = <<>>
      BY <2>2 DEF CInv, ConvOK, EndOK
    <3>2. PendingCalls = {}
      BY <3>1 DEF PendingCalls
    <3>3. Journaled \subseteq ToldCalls
      BY <3>2 DEF CInv, ConvOK
    <3> QED BY <3>1, <3>3 DEF Told, ToldCalls
  <2> QED BY <2>1, <2>2 DEF EveryCallAnswered, CInv, ConvOK
<1> QED BY <1>1, ConversationInvariant, PTL

-----------------------------------------------------------------------------
(* What a step does to the conversation, and to the calls that were made. *)

Opened == conv = Unsaved /\ conv' = [Unsaved EXCEPT !.saved = TRUE]
Concluded == conv' = [conv EXCEPT !.final = TRUE]
CallsAsked == \E s \in Asked(ToldCalls) : conv' = [conv EXCEPT !.pending = s]
ResultTold ==
  /\ conv.pending # <<>>
  /\ \E status \in CallStatus :
       conv' = [conv EXCEPT !.pending = Tail(conv.pending),
                            !.results = Append(conv.results, <<Head(conv.pending), status>>)]

\* The conversation moves on by one turn, by an execution that has the stored version.
TurnMade ==
  \/ Opened
  \/ conv.saved /\ ~conv.final /\ conv.pending = <<>> /\ (Concluded \/ CallsAsked)
  \/ conv.saved /\ ~conv.final /\ ResultTold

\* A call is made: the next one, or one that was compensated and may be repeated.
CallMade ==
  /\ conv' = conv
  /\ \E c \in Calls :
       /\ invoked' = [invoked EXCEPT ![c] = @ + 1] /\ invoked[c] < AttemptsOf(c)
       /\ \/ conv.pending # <<>> /\ c = Head(conv.pending)
          \/ c \in Compensable \ Once /\ c \in ToldCalls /\ invoked[c] > 0

Effect == UNCHANGED <<conv, invoked>> \/ (TurnMade /\ UNCHANGED invoked) \/ CallMade

LEMMA QuietEffects ==
  \A w, next, status :
    Withdraw(w) \/ Fail(w) \/ Mark(w, status) \/ EndNode(w) \/ Pause(w, status) \/ Fence(w, next)
    \/ Goto(w, next) \/ Load(w, next) \/ Reroute(w) \/ SetStatus(w, status, next) \/ CallConflict(w)
      => UNCHANGED <<conv, invoked>>
  BY DEF Withdraw, Leave, Fail, Mark, EndNode, Pause, Fence, Goto, Load, Reroute, SetStatus, Journal,
     CallConflict, store, around

LEMMA OpenEffect == ASSUME IInv, CInv, NEW w \in Workers, Open(w) PROVE Effect
<1>1. CASE Fail(w)
  BY <1>1, QuietEffects DEF Effect
<1>2. CASE ~Fail(w)
  <2>1. /\ w \in convAt /\ conv' = [Unsaved EXCEPT !.saved = TRUE] /\ UNCHANGED invoked
    BY <1>2 DEF Open, SaveConv, ConvCurrent, around
  <2>2. conv = Unsaved
    BY <2>1, Knows DEF Open, AtStep, CopyOK, CInv, ConvOK
  <2> QED BY <2>1, <2>2 DEF Effect, TurnMade, Opened
<1> QED BY <1>1, <1>2

LEMMA CompactEffect == ASSUME IInv, CInv, NEW w \in Workers, Compact(w) PROVE Effect
<1>1. w \in convAt => worker[w].copy = conv
  BY Knows
<1> QED BY <1>1, QuietEffects DEF Compact, SaveConv, ConvCurrent, Effect, around

LEMMA AnswerEffect == ASSUME IInv, CInv, NEW w \in Workers, Answer(w) PROVE Effect
<1>1. CASE Cancelled(w) \/ Fail(w)
  BY <1>1, QuietEffects DEF Cancelled, Effect
<1>2. CASE w \notin convAt /\ ~Cancelled(w)
  BY <1>2, QuietEffects DEF Answer, SaveConv, ConvCurrent, Effect
<1>3. CASE w \in convAt /\ ~Cancelled(w) /\ ~Fail(w)
  <2>1. /\ worker[w].copy = conv /\ conv.saved /\ ~conv.final /\ conv.pending = <<>>
    BY <1>3, Knows DEF Answer, AtStep, CopyOK, Asking
  <2>2. Concluded \/ CallsAsked
    <3> DEFINE old == worker[w].copy
               seen == {old.results[i][1] : i \in DOMAIN old.results}
    <3>1. conv' = [old EXCEPT !.final = TRUE] \/ \E s \in Asked(seen) : conv' = [old EXCEPT !.pending = s]
      BY <1>3 DEF Answer, SaveConv
    <3>2. seen = ToldCalls /\ old = conv
      BY <2>1 DEF ToldCalls
    <3> HIDE DEF old, seen
    <3> QED BY <3>1, <3>2 DEF Concluded, CallsAsked
  <2>3. UNCHANGED invoked
    BY <1>3 DEF Answer, SaveConv, around
  <2> QED BY <2>1, <2>2, <2>3 DEF Effect, TurnMade
<1> QED BY <1>1, <1>2, <1>3

LEMMA AppendEffect == ASSUME IInv, CInv, NEW w \in Workers, AppendResult(w) PROVE Effect
<1>1. CASE Fail(w)
  BY <1>1, QuietEffects DEF Effect
<1>2. CASE ~Fail(w)
  <2>1. /\ worker[w].pc \in ToolSteps /\ w \in convAt /\ worker[w].copy = conv /\ UNCHANGED invoked
    BY <1>2, Knows DEF AppendResult, AtStep, ToolSteps, SaveConv, ConvCurrent, around
  <2>2. /\ conv.pending # <<>> /\ worker[w].call = Head(conv.pending) /\ conv.saved
        /\ worker[w].rec.status \in CallStatus
    BY <2>1, Knows DEF RowOK, WorkOK, Worker, Record
  <2>3. ~conv.final
    BY <2>2 DEF CInv, ConvOK
  <2>4. conv' = [conv EXCEPT !.pending = Tail(conv.pending),
                             !.results = Append(conv.results, <<Head(conv.pending), worker[w].rec.status>>)]
    BY <1>2, <2>1, <2>2 DEF AppendResult, SaveConv
  <2> QED BY <2>1, <2>2, <2>3, <2>4 DEF Effect, TurnMade, ResultTold
<1> QED BY <1>1, <1>2

\* An attempt is made with the stored record, and a call that has its result is over.
LEMMA ExecuteEffect == ASSUME IInv, CInv, NEW w \in Workers, Execute(w) PROVE Effect
<1> DEFINE rec == worker[w].rec
<1>1. /\ worker[w].pc = "execute" /\ worker[w].pc \in ToolSteps
  BY DEF Execute, AtStep, ToolSteps
<1>2. PICK c \in Calls : c = worker[w].call
  BY <1>1, AtWork
<1>3. CASE UNCHANGED <<conv, invoked>>
  BY <1>3 DEF Effect
<1>4. CASE ~UNCHANGED <<conv, invoked>>
  <2>1. /\ rec.status \notin {"succeeded", "reconciliation_required"} /\ c \notin Invalid
        /\ ~Unobserved(rec, c) /\ ~(rec.att >= AttemptsOf(c)) /\ Attempt(w)
    BY <1>2, <1>4, QuietEffects DEF Execute, Cancelled
  <2>2. /\ w \in callAt /\ invoked' = [invoked EXCEPT ![c] = @ + 1] /\ conv' = conv
    BY <1>2, <1>4, <2>1, QuietEffects DEF Attempt, Journal, CallCurrent
  <2>3. /\ rec = journal[c] /\ invoked[c] = journal[c].att /\ journal[c].att < AttemptsOf(c)
        /\ journal[c].status # "succeeded"
    BY <1>1, <1>2, <2>1, <2>2, AtWork DEF CallOK
  <2>4. ~Refused(c)
    BY <1>1, <1>2, <2>1, Knows DEF RowOK, Resolved, Refused
  <2>5. c \notin Compensable \ Once => ~Over(c)
    BY <1>1, <1>2, <2>3, <2>4, AtWork DEF Over
  <2>6. c \in ToldCalls => Over(c)
    BY DEF CInv, ConvOK, ToldCalls, ToldOK
  <2>7. Reached(c)
    BY <1>1, <1>2, Knows DEF WorkOK, HoldsCall
  <2>8. c \in ToldCalls => c \in Compensable \ Once /\ invoked[c] > 0
    <3> SUFFICES ASSUME c \in ToldCalls PROVE invoked[c] > 0
      BY <2>5, <2>6
    <3>1. \E status : ToldOK(c, status)
      BY DEF CInv, ConvOK, ToldCalls
    <3> QED BY <2>3, <2>4, <3>1 DEF ToldOK
  <2> QED BY <2>2, <2>3, <2>7, <2>8 DEF Effect, CallMade, Reached
<1> QED BY <1>3, <1>4

LEMMA OtherEffects ==
  ASSUME IInv, NEW w \in Workers,
         \/ Claim(w) \/ Begin(w) \/ Prepare(w) \/ Ready(w) \/ Model(w) \/ Compacted(w) \/ Ask(w)
         \/ Answered(w) \/ Tool(w) \/ Requested(w) \/ Block(w) \/ Approve(w) \/ Request(w) \/ Wait(w)
         \/ Reject(w) \/ Start(w) \/ Return(w) \/ Outlive(w) \/ Unknown(w) \/ Unwind(w) \/ Appended(w)
         \/ Finish(w) \/ Complete(w) \/ Interrupt(w) \/ TimeOut(w) \/ Crash(w)
  PROVE  UNCHANGED <<conv, invoked>>
<1>1. CASE Claim(w) \/ Begin(w) \/ Complete(w) \/ Crash(w)
  BY <1>1, QuietEffects DEF Claim, Begin, Complete, Crash, Leave, store, around
<1>2. CASE Prepare(w) \/ Ready(w) \/ Model(w) \/ Compacted(w) \/ Ask(w) \/ Answered(w)
  BY <1>2, QuietEffects DEF Prepare, Ready, Model, Compacted, Ask, Answered, Cancelled
<1>3. CASE Tool(w) \/ Request(w)
  BY <1>3, QuietEffects DEF Tool, Request, Cancelled, around
<1>4. CASE Requested(w) \/ Block(w) \/ Wait(w) \/ Reject(w) \/ Start(w) \/ Unknown(w) \/ Unwind(w)
  BY <1>4, QuietEffects DEF Requested, Block, Wait, Reject, Start, Unknown, Unwind
<1>5. CASE Approve(w)
  <2>1. worker[w].pc \in ToolSteps
    BY <1>5 DEF Approve, AtStep, ToolSteps
  <2>2. approval[worker[w].call] \in Approval
    BY <2>1, Parts DEF IInv, TypeOK, RowOK, HoldsCall
  <2> QED BY <1>5, <2>2, QuietEffects DEF Approve, NeedsApproval, Approval
<1>6. CASE Return(w) \/ Outlive(w) \/ Interrupt(w)
  BY <1>6, QuietEffects DEF Return, Outlive, Interrupt, Journal
<1>7. CASE Appended(w) \/ Finish(w) \/ TimeOut(w)
  BY <1>7, QuietEffects DEF Appended, Finish, TimeOut
<1> QED BY <1>1, <1>2, <1>3, <1>4, <1>5, <1>6, <1>7

LEMMA Effects == IInv /\ CInv /\ [Next]_vars => Effect
<1> SUFFICES ASSUME IInv, CInv, [Next]_vars PROVE Effect
  OBVIOUS
<1>1. ASSUME NEW w \in Workers, Claim(w) \/ Step(w) \/ Interrupt(w) \/ TimeOut(w) \/ Crash(w)
      PROVE  Effect
  <2>1. CASE Open(w) \/ Compact(w) \/ Answer(w) \/ AppendResult(w) \/ Execute(w)
    BY <2>1, OpenEffect, CompactEffect, AnswerEffect, AppendEffect, ExecuteEffect
  <2>2. CASE ~(Open(w) \/ Compact(w) \/ Answer(w) \/ AppendResult(w) \/ Execute(w))
    BY <1>1, <2>2, OtherEffects DEF Step, Effect
  <2> QED BY <2>1, <2>2
<1>2. CASE Lapse \/ Cancel \/ Review \/ UNCHANGED vars
  BY <1>2 DEF Lapse, Cancel, Review, Reopen, Release, PutBack, ReviewerDies, Decide, Reconcile,
     vars, store, around, Effect
<1>3. CASE \E c \in Calls : \E s \in {"compensated", "compensation_failed"} : Compensate(c, s)
  BY <1>3 DEF Compensate, around, Effect
<1> QED BY <1>1, <1>2, <1>3 DEF Next

\* However its executions overlap: a run's turns are never replaced, lost or repeated.
THEOREM ConversationOnlyGrows == Spec => ConversationGrows
<1> DEFINE Grows ==
      /\ conv.saved => conv'.saved
      /\ conv.final => conv' = conv
      /\ conv.pending # <<>> =>
           \/ conv'.pending = conv.pending /\ conv'.results = conv.results
           \/ /\ conv'.pending = Tail(conv.pending)
              /\ SubSeq(conv'.results, 1, Len(conv.results)) = conv.results
      /\ conv.pending = <<>> => conv'.results = conv.results
<1>1. IInv /\ CInv /\ [Next]_vars => Grows
  <2> SUFFICES ASSUME IInv, CInv, Effect PROVE Grows
    BY Effects
  <2>1. conv \in Conversation
    BY DEF IInv, TypeOK
  <2>2. CASE conv' = conv
    BY <2>2
  <2>3. CASE Opened
    <3>1. conv.pending = <<>> /\ conv.results = <<>> /\ ~conv.final
      BY <2>3 DEF Opened, Unsaved
    <3>2. conv'.saved /\ conv'.results = <<>>
      BY <2>3 DEF Opened, Unsaved
    <3> QED BY <3>1, <3>2
  <2>4. CASE conv.saved /\ ~conv.final /\ conv.pending = <<>> /\ (Concluded \/ CallsAsked)
    <3>1. conv'.saved = conv.saved /\ conv'.results = conv.results
      BY <2>1, <2>4 DEF Concluded, CallsAsked, Conversation
    <3> QED BY <2>4, <3>1
  <2>5. CASE conv.saved /\ ~conv.final /\ ResultTold
    <3>1. PICK t \in Calls \X CallStatus :
            conv' = [conv EXCEPT !.pending = Tail(conv.pending), !.results = Append(conv.results, t)]
      <4>1. PICK status \in CallStatus :
              conv' = [conv EXCEPT !.pending = Tail(conv.pending),
                                   !.results = Append(conv.results, <<Head(conv.pending), status>>)]
        BY <2>5 DEF ResultTold
      <4>2. <<Head(conv.pending), status>> \in Calls \X CallStatus
        BY <2>1, <2>5 DEF ResultTold, Conversation
      <4> QED BY <4>1, <4>2
    <3>2. conv'.saved = conv.saved /\ conv'.pending = Tail(conv.pending)
          /\ conv'.results = Append(conv.results, t)
      BY <2>1, <3>1 DEF Conversation
    <3>3. SubSeq(Append(conv.results, t), 1, Len(conv.results)) = conv.results
      BY <2>1 DEF Conversation
    <3> QED BY <2>5, <3>2, <3>3 DEF ResultTold
  <2> QED BY <2>2, <2>3, <2>4, <2>5 DEF Effect, TurnMade, CallMade
<1>2. Spec => [][Grows]_vars
  BY <1>1, ConversationInvariant, PTL DEF Spec
<1> QED BY <1>2 DEF ConversationGrows

-----------------------------------------------------------------------------
(* The run implements the ledger of tool calls. *)

Asks == [i \in 1..Len(conv.results) |-> conv.results[i][1]] \o conv.pending

\* What a concatenation is made of.
LEMMA Joined ==
  ASSUME NEW s \in Seq(Calls), NEW u \in Seq(Calls)
  PROVE  /\ Len(s) \in Nat /\ Len(u) \in Nat
         /\ s \o u \in Seq(Calls) /\ Len(s \o u) = Len(s) + Len(u)
         /\ \A i \in 1..Len(s) + Len(u) :
              (s \o u)[i] = IF i <= Len(s) THEN s[i] ELSE u[i - Len(s)]
  OBVIOUS

AsksOf(told, owed) == [i \in 1..Len(told) |-> told[i][1]] \o owed

LEMMA AsksIsAsksOf == Asks = AsksOf(conv.results, conv.pending)
  BY DEF Asks, AsksOf

\* The calls of the results, and one more.
LEMMA NamesOf ==
  ASSUME NEW q \in Seq(Calls \X CallStatus)
  PROVE  /\ [i \in 1..Len(q) |-> q[i][1]] \in Seq(Calls)
         /\ Len([i \in 1..Len(q) |-> q[i][1]]) = Len(q)
<1>1. Len(q) \in Nat
  OBVIOUS
<1>2. ASSUME NEW i \in 1..Len(q) PROVE q[i][1] \in Calls
  <2>1. q[i] \in Calls \X CallStatus
    BY ElementOfSeq
  <2> QED BY <2>1
<1> QED BY <1>1, <1>2

LEMMA NamesOfAppend ==
  ASSUME NEW q \in Seq(Calls \X CallStatus), NEW t \in Calls \X CallStatus
  PROVE  [i \in 1..Len(Append(q, t)) |-> Append(q, t)[i][1]]
           = [i \in 1..Len(q) |-> q[i][1]] \o <<t[1]>>
<1> DEFINE old == [i \in 1..Len(q) |-> q[i][1]]
           more == Append(q, t)
           new == [i \in 1..Len(more) |-> more[i][1]]
<1>1. more \in Seq(Calls \X CallStatus) /\ Len(more) = Len(q) + 1 /\ Len(q) \in Nat
      /\ (\A i \in 1..Len(q) : more[i] = q[i]) /\ more[Len(q) + 1] = t
  OBVIOUS
<1>2. /\ old \in Seq(Calls) /\ Len(old) = Len(q)
      /\ new \in Seq(Calls) /\ Len(new) = Len(q) + 1
  <2> HIDE DEF more
  <2> QED BY <1>1, NamesOf
<1>3. t[1] \in Calls /\ <<t[1]>> \in Seq(Calls) /\ Len(<<t[1]>>) = 1 /\ <<t[1]>>[1] = t[1]
  OBVIOUS
<1> DEFINE one == <<t[1]>>
<1>4. ASSUME NEW i \in 1..Len(q) + 1
      PROVE  new[i] = IF i <= Len(q) THEN old[i] ELSE one[i - Len(q)]
  <2>1. new[i] = more[i][1]
    <3> HIDE DEF more
    <3> QED BY <1>1
  <2>2. CASE i <= Len(q)
    <3>1. i \in 1..Len(q)
      BY <1>1, <2>2
    <3> HIDE DEF more
    <3> QED BY <1>1, <2>1, <2>2, <3>1
  <2>3. CASE ~(i <= Len(q))
    <3>1. i = Len(q) + 1 /\ i - Len(q) = 1
      BY <1>1, <2>3
    <3> HIDE DEF more
    <3> QED BY <1>1, <1>3, <2>1, <2>3, <3>1
  <2> QED BY <2>2, <2>3
<1> HIDE DEF old, new, one, more
<1>5. new = old \o one
  <2>1. one \in Seq(Calls) /\ Len(one) = 1
    BY <1>3 DEF one
  <2>2. /\ old \o one \in Seq(Calls) /\ Len(old \o one) = Len(old) + Len(one)
        /\ \A i \in 1..Len(old) + Len(one) :
             (old \o one)[i] = IF i <= Len(old) THEN old[i] ELSE one[i - Len(old)]
    BY <1>2, <2>1, Joined
  <2>3. \A i \in 1..Len(new) : new[i] = (old \o one)[i]
    BY <1>1, <1>2, <1>4, <2>1, <2>2
  <2>4. Len(new) = Len(old \o one) /\ new \in Seq(Calls) /\ old \o one \in Seq(Calls)
    BY <1>1, <1>2, <2>1, <2>2
  <2> QED BY <2>3, <2>4, SeqEqual
<1> QED BY <1>5 DEF old, new, one, more

LEMMA AsksFacts ==
  ASSUME NEW q \in Seq(Calls \X CallStatus), NEW p \in Seq(Calls)
  PROVE  /\ Len(q) \in Nat /\ Len(p) \in Nat
         /\ AsksOf(q, p) \in Seq(Calls) /\ Len(AsksOf(q, p)) = Len(q) + Len(p)
         /\ p # <<>> => Len(q) < Len(AsksOf(q, p)) /\ AsksOf(q, p)[Len(q) + 1] = Head(p)
         /\ AsksOf(q, p) = AsksOf(q, <<>>) \o p
<1> DEFINE ids == [i \in 1..Len(q) |-> q[i][1]]
<1>1. ids \in Seq(Calls) /\ Len(ids) = Len(q)
  BY NamesOf
<1>2. AsksOf(q, p) = ids \o p /\ AsksOf(q, <<>>) = ids \o <<>>
  BY DEF AsksOf
<1> HIDE DEF ids
<1>3. /\ ids \o p \in Seq(Calls) /\ Len(ids \o p) = Len(ids) + Len(p)
      /\ \A i \in 1..Len(ids) + Len(p) : (ids \o p)[i] = IF i <= Len(ids) THEN ids[i] ELSE p[i - Len(ids)]
  BY <1>1, Joined
<1>4. Len(q) \in Nat /\ Len(p) \in Nat /\ (p # <<>> => Len(p) > 0 /\ Head(p) = p[1])
  OBVIOUS
<1>5. ids \o <<>> = ids
  BY <1>1, ConcatEmptySeq
<1>6. p # <<>> => (ids \o p)[Len(q) + 1] = p[1]
  <2> SUFFICES ASSUME p # <<>> PROVE (ids \o p)[Len(q) + 1] = p[1]
    OBVIOUS
  <2>1. Len(q) + 1 \in 1..Len(q) + Len(p) /\ ~(Len(q) + 1 <= Len(q)) /\ Len(q) + 1 - Len(q) = 1
    BY <1>4
  <2> QED BY <1>1, <1>3, <2>1
<1> QED BY <1>1, <1>2, <1>3, <1>4, <1>5, <1>6

\* The calls asked for begin with those that have a result.
LEMMA AsksAreTold ==
  ASSUME NEW i \in DOMAIN conv.results,
         conv.results \in Seq(Calls \X CallStatus), conv.pending \in Seq(Calls)
  PROVE  i \in 1..Len(conv.results) /\ Asks[i] = conv.results[i][1]
<1>1. PICK q, p : q = conv.results /\ p = conv.pending
  OBVIOUS
<1> DEFINE ids == [k \in 1..Len(q) |-> q[k][1]]
<1>2. /\ q \in Seq(Calls \X CallStatus) /\ p \in Seq(Calls)
      /\ Len(q) \in Nat /\ Len(p) \in Nat /\ i \in 1..Len(q)
  BY <1>1
<1>3. ids \in Seq(Calls) /\ Len(ids) = Len(q) /\ ids[i] = q[i][1]
  BY <1>2, NamesOf
<1>4. Asks = ids \o p
  BY <1>1 DEF Asks
<1> HIDE DEF ids
<1>5. (ids \o p)[i] = ids[i]
  BY <1>2, <1>3, Joined
<1> QED BY <1>1, <1>2, <1>3, <1>4, <1>5

\* Telling a result leaves the calls that were asked for as they are.
LEMMA AsksTold ==
  ASSUME NEW q \in Seq(Calls \X CallStatus), NEW p \in Seq(Calls), p # <<>>,
         NEW t \in Calls \X CallStatus, t[1] = Head(p)
  PROVE  AsksOf(Append(q, t), Tail(p)) = AsksOf(q, p)
<1> DEFINE ids == [i \in 1..Len(q) |-> q[i][1]]
           head == <<t[1]>>
           tail == Tail(p)
           more == Append(q, t)
           new == [i \in 1..Len(more) |-> more[i][1]]
<1>1. ids \in Seq(Calls)
  BY NamesOf
<1>2. new = ids \o head
  BY NamesOfAppend
<1>3. head \in Seq(Calls) /\ tail \in Seq(Calls)
  BY HeadTailProperties
<1>4. p = head \o tail
  <2>1. /\ Len(head) = 1 /\ head[1] = p[1] /\ Len(tail) = Len(p) - 1 /\ Len(p) \in Nat
        /\ \A i \in 1..Len(tail) : tail[i] = p[i + 1]
    BY HeadTailProperties
  <2> HIDE DEF head, tail
  <2>2. /\ head \o tail \in Seq(Calls) /\ Len(head \o tail) = Len(head) + Len(tail)
        /\ \A i \in 1..Len(head) + Len(tail) :
             (head \o tail)[i] = IF i <= Len(head) THEN head[i] ELSE tail[i - Len(head)]
    BY <1>3, <2>1, Joined
  <2>3. ASSUME NEW i \in 1..Len(p) PROVE p[i] = (head \o tail)[i]
    <3>1. CASE i <= 1
      <4>1. i = 1
        BY <3>1
      <4> QED BY <2>1, <2>2, <3>1, <4>1
    <3>2. CASE ~(i <= 1)
      <4>1. i - 1 \in 1..Len(tail) /\ i - 1 + 1 = i
        BY <2>1, <3>2
      <4> QED BY <2>1, <2>2, <3>2, <4>1
    <3> QED BY <3>1, <3>2
  <2> QED BY <2>1, <2>2, <2>3, SeqEqual
<1>5. AsksOf(more, tail) = new \o tail /\ AsksOf(q, p) = ids \o p
  BY DEF AsksOf
<1> HIDE DEF ids, head, tail, new
<1>6. (ids \o head) \o tail = ids \o (head \o tail)
  BY <1>1, <1>3, ConcatAssociative
<1>7. AsksOf(more, tail) = AsksOf(q, p)
  BY <1>2, <1>4, <1>5, <1>6
<1> QED BY <1>7 DEF tail

\* A turn of the conversation is a step of the ledger, or none.
LEMMA TurnIsLedgerStep ==
  ASSUME IInv, IInv', CInv, TurnMade, UNCHANGED invoked
  PROVE  [Ledger!Next]_(Ledger!vars)
<1>1. PICK q, p : q = conv.results /\ p = conv.pending
  OBVIOUS
<1>2. /\ conv \in Conversation /\ q \in Seq(Calls \X CallStatus) /\ p \in Seq(Calls)
  BY <1>1 DEF IInv, TypeOK, Conversation
<1>3. Asks = AsksOf(q, p)
  BY <1>1, AsksIsAsksOf
<1>4. CASE Opened
  <2>1. conv'.results = conv.results /\ conv'.pending = conv.pending /\ conv'.final = conv.final
    BY <1>4 DEF Opened, Unsaved
  <2> QED BY <2>1 DEF Ledger!vars
<1>5. CASE conv.saved /\ ~conv.final /\ conv.pending = <<>> /\ Concluded
  <2>1. conv'.results = conv.results /\ conv'.pending = conv.pending /\ conv'.final = TRUE
    BY <1>2, <1>5 DEF Concluded, Conversation
  <2>2. Len(conv.results) = Len(Asks)
    <3>1. p = <<>> /\ Len(p) = 0
      BY <1>1, <1>5
    <3>2. Len(AsksOf(q, p)) = Len(q) + Len(p) /\ Len(q) \in Nat
      BY <1>2, AsksFacts
    <3> QED BY <1>1, <1>3, <3>1, <3>2
  <2> QED BY <1>5, <2>1, <2>2 DEF Ledger!Next, Ledger!Close, Ledger!Idle, Asks
<1>6. CASE conv.saved /\ ~conv.final /\ conv.pending = <<>> /\ CallsAsked
  <2>1. PICK s \in Asked(ToldCalls) : conv' = [conv EXCEPT !.pending = s]
    BY <1>6 DEF CallsAsked
  <2>2. conv'.results = q /\ conv'.pending = s /\ conv'.final = conv.final
    BY <1>1, <1>2, <2>1 DEF Conversation
  <2>3. PICK n \in 1..2 : s \in [1..n -> Calls]
    BY DEF Asked
  <2>4. s \in Seq(Calls)
    BY <2>3
  <2>5. Asks' = AsksOf(q, s)
    BY <2>2 DEF Asks, AsksOf
  <2>6. AsksOf(q, s) = AsksOf(q, <<>>) \o s
    BY <1>2, <2>4, AsksFacts
  <2>7. Asks = AsksOf(q, <<>>) /\ Len(q) = Len(Asks)
    <3>1. p = <<>> /\ Len(p) = 0
      BY <1>1, <1>6
    <3>2. Len(AsksOf(q, p)) = Len(q) + Len(p) /\ Len(q) \in Nat
      BY <1>2, AsksFacts
    <3> QED BY <1>3, <3>1, <3>2
  <2>8. Asks' = Asks \o s
    BY <2>5, <2>6, <2>7
  <2> QED BY <1>1, <1>6, <2>2, <2>3, <2>7, <2>8 DEF Ledger!Next, Ledger!Ask, Ledger!Idle, Asks
<1>7. CASE conv.saved /\ ~conv.final /\ ResultTold
  <2>1. PICK status \in CallStatus :
          conv' = [conv EXCEPT !.pending = Tail(conv.pending),
                               !.results = Append(conv.results, <<Head(conv.pending), status>>)]
    BY <1>7 DEF ResultTold
  <2>2. PICK t : t = <<Head(p), status>>
    OBVIOUS
  <2>3. p # <<>> /\ t \in Calls \X CallStatus /\ t[1] = Head(p)
    <3>1. p # <<>> /\ Head(p) \in Calls
      BY <1>1, <1>2, <1>7 DEF ResultTold
    <3> QED BY <2>2, <3>1
  <2>4. conv'.results = Append(q, t) /\ conv'.pending = Tail(p) /\ conv'.final = conv.final
    BY <1>1, <1>2, <2>1, <2>2 DEF Conversation
  <2>5. Asks' = AsksOf(Append(q, t), Tail(p))
    BY <2>4 DEF Asks, AsksOf
  <2>6. Asks' = Asks
    BY <1>2, <1>3, <2>3, <2>5, AsksTold
  <2>7. Len(q) < Len(Asks) /\ Len(Append(q, t)) = Len(q) + 1
    BY <1>2, <1>3, <2>3, AsksFacts
  <2> QED BY <1>1, <2>4, <2>6, <2>7 DEF Ledger!Next, Ledger!Tell, Asks
<1> QED BY <1>4, <1>5, <1>6, <1>7 DEF TurnMade

\* However executions, reviewers and compensations overlap: tool calls are made one at a time
\* in the order they were asked for, and behind its result only one that may be repeated and
\* whose tool has a compensator (ReliableToolRuntime.execute makes a compensated call again).
THEOREM CallsGoInOrder == Spec => CallsInOrder
<1>1. Init => Ledger!Init
  <2> SUFFICES ASSUME Init PROVE Ledger!Init
    OBVIOUS
  <2>1. conv.results = <<>> /\ conv.pending = <<>> /\ conv.final = FALSE
    BY DEF Init, Unsaved
  <2>2. Asks = <<>> /\ Len(conv.results) = 0
    BY <2>1 DEF Asks
  <2> QED BY <2>1, <2>2 DEF Ledger!Init, Init, Asks
<1>2. IInv /\ CInv /\ (IInv /\ CInv)' /\ [Next]_vars => [Ledger!Next]_(Ledger!vars)
  <2> SUFFICES ASSUME IInv, CInv, IInv', Effect PROVE [Ledger!Next]_(Ledger!vars)
    BY Effects
  <2>1. CASE UNCHANGED <<conv, invoked>>
    BY <2>1 DEF Ledger!vars
  <2>2. CASE TurnMade /\ UNCHANGED invoked
    BY <2>2, TurnIsLedgerStep
  <2>3. CASE CallMade
    <3>1. PICK c \in Calls :
            /\ invoked' = [invoked EXCEPT ![c] = @ + 1] /\ invoked[c] < AttemptsOf(c)
            /\ \/ conv.pending # <<>> /\ c = Head(conv.pending)
               \/ c \in Compensable \ Once /\ c \in ToldCalls /\ invoked[c] > 0
      BY <2>3 DEF CallMade
    <3>2. conv' = conv
      BY <2>3 DEF CallMade
    <3>3. conv.pending \in Seq(Calls) /\ conv.results \in Seq(Calls \X CallStatus)
      BY DEF IInv, TypeOK, Conversation
    <3>4. CASE conv.pending # <<>> /\ c = Head(conv.pending)
      <4>1. Len(conv.results) < Len(Asks) /\ Asks[Len(conv.results) + 1] = c
        BY <3>3, <3>4, AsksFacts, AsksIsAsksOf
      <4> QED BY <3>1, <3>2, <4>1 DEF Ledger!Next, Ledger!Make, Asks
    <3>5. CASE c \in Compensable \ Once /\ c \in ToldCalls /\ invoked[c] > 0
      <4>1. \E i \in 1..Len(conv.results) : Asks[i] = c
        BY <3>3, <3>5, AsksAreTold DEF ToldCalls
      <4> QED BY <3>1, <3>2, <3>5, <4>1 DEF Ledger!Next, Ledger!Again, Asks
    <3> QED BY <3>1, <3>4, <3>5
  <2> QED BY <2>1, <2>2, <2>3 DEF Effect
<1> QED BY <1>1, <1>2, ConversationInvariant, PTL DEF Spec, CallsInOrder, Ledger!Spec

-----------------------------------------------------------------------------
(* A completed run. *)

\* Nobody whose copy of a completed row is current does anything but bring it to its end again.
EndSteps == {"open", "ready", "complete"}
EndInv == run.status = "completed" => \A w \in runAt : worker[w].pc \in EndSteps

\* A step of w that leaves a completed run so.
Still(w) ==
  /\ run'.status = "completed"
  /\ runAt' \subseteq runAt \cup {w}
  /\ w \in runAt' => worker'[w].pc \in EndSteps
  /\ \A v \in Workers \ {w} : worker'[v] = worker[v]

LEMMA StillEnds ==
  ASSUME IInv, EndInv, run.status = "completed", NEW w \in Workers, Still(w)
  PROVE  EndInv'
  BY DEF EndInv, Still, IInv, TypeOK

LEMMA WithdrawStill ==
  ASSUME IInv, run.status = "completed", NEW w \in Workers, Withdraw(w)
  PROVE  Still(w)
  BY DEF Still, Withdraw, Leave, store, IInv, TypeOK

LEMMA MarkStill ==
  ASSUME IInv, run.status = "completed", NEW w \in Workers, NEW status, Mark(w, status)
  PROVE  Still(w)
  BY DEF Still, Mark, IInv, TypeOK

LEMMA FailStill ==
  ASSUME IInv, run.status = "completed", NEW w \in Workers, Fail(w)
  PROVE  Still(w)
  BY MarkStill DEF Fail

LEMMA EndNodeStill ==
  ASSUME IInv, run.status = "completed", NEW w \in Workers, EndNode(w)
  PROVE  Still(w)
<1>1. CASE Withdraw(w)
  BY <1>1, WithdrawStill
<1>2. CASE ~Withdraw(w)
  BY <1>2 DEF EndNode, Still, store, IInv, TypeOK
<1> QED BY <1>1, <1>2

\* Who does not know the row cannot write it.
LEMMA UnknowingStill ==
  ASSUME IInv, run.status = "completed", NEW w \in Workers, w \notin runAt, NEW next,
         \/ Fence(w, next) \/ Pause(w, next) \/ Goto(w, next) \/ SetStatus(w, next, "append")
         \/ Reroute(w)
  PROVE  Still(w)
<1>1. CASE Fence(w, next) \/ Pause(w, next)
  BY <1>1, WithdrawStill DEF Fence, Pause, MayWrite
<1>2. CASE Goto(w, next) \/ Reroute(w)
  BY <1>2 DEF Goto, Reroute, Still, store, current, IInv, TypeOK
<1>3. CASE SetStatus(w, next, "append")
  BY <1>3, FailStill DEF SetStatus, Journal, CallConflict, Still, IInv, TypeOK
<1> QED BY <1>1, <1>2, <1>3

LEMMA SetStatusStill ==
  ASSUME IInv, run.status = "completed", NEW w \in Workers, w \notin runAt, NEW status, NEW next,
         SetStatus(w, status, next) \/ CallConflict(w)
         \/ \E record : Journal(w, record, next)
  PROVE  Still(w)
<1>1. CASE CallConflict(w)
  BY <1>1, FailStill DEF CallConflict
<1>2. CASE \E record : Journal(w, record, next)
  BY <1>2 DEF Journal, Still, IInv, TypeOK
<1>3. CASE SetStatus(w, status, next)
  BY <1>1, <1>2, <1>3 DEF SetStatus
<1> QED BY <1>1, <1>2, <1>3

LEMMA SaveStill ==
  ASSUME IInv, run.status = "completed", NEW w \in Workers, NEW new, NEW next,
         w \notin runAt \/ next \in EndSteps, SaveConv(w, new, next)
  PROVE  Still(w)
<1>1. CASE Fail(w)
  BY <1>1, FailStill
<1>2. CASE ~Fail(w)
  <2>1. UNCHANGED <<run, runAt>> /\ worker' = [worker EXCEPT ![w].copy = new, ![w].pc = next]
    BY <1>2 DEF SaveConv
  <2>2. worker[w] \in Worker /\ worker \in [Workers -> Worker]
    BY DEF IInv, TypeOK
  <2>3. worker'[w].pc = next
    BY <2>1, <2>2 DEF Worker
  <2> QED BY <2>1, <2>2, <2>3 DEF Still
<1> QED BY <1>1, <1>2

LEMMA LoadStill ==
  ASSUME IInv, run.status = "completed", NEW w \in Workers, NEW next \in EndSteps, Load(w, next)
  PROVE  Still(w)
<1>1. run' = run /\ runAt' = runAt \cup {w} /\ worker' = [worker EXCEPT ![w].pc = next, ![w].copy = conv]
  BY DEF Load, store
<1>2. worker[w] \in Worker /\ worker \in [Workers -> Worker]
  BY DEF IInv, TypeOK
<1>3. worker'[w].pc = next
  BY <1>1, <1>2 DEF Worker
<1> QED BY <1>1, <1>2, <1>3 DEF Still

\* Every step of an execution of a completed run.
LEMMA ExecutionStill ==
  ASSUME IInv, CInv, EndInv, run.status = "completed", NEW w \in Workers,
         Claim(w) \/ Step(w) \/ Interrupt(w) \/ TimeOut(w) \/ Crash(w)
  PROVE  Still(w)
<1>0. /\ conv.final /\ conv.pending = <<>> /\ Route(conv) = "finish"
      /\ worker[w].pc \notin EndSteps => w \notin runAt
  BY DEF CInv, ConvOK, EndOK, EndInv, Route
<1>1. CASE Claim(w) \/ Crash(w)
  BY <1>1 DEF Claim, Claimable, Crash, Leave, store, Still, IInv, TypeOK
<1>2. CASE Begin(w)
  <2>1. w \notin runAt
    BY <1>0, <1>2 DEF Begin, AtStep, EndSteps
  <2> QED BY <1>2, <2>1, WithdrawStill DEF Begin, MayWrite
<1>3. CASE Prepare(w) \/ Finish(w)
  BY <1>3, LoadStill DEF Prepare, Finish, EndSteps
<1>4. CASE Open(w)
  BY <1>4, SaveStill, FailStill DEF Open, EndSteps
<1>5. CASE Ready(w) \/ Answered(w) \/ Appended(w)
  BY <1>5, EndNodeStill, FailStill DEF Ready, Answered, Appended
<1>6. CASE Complete(w)
  <2>1. CASE Withdraw(w)
    BY <2>1, WithdrawStill
  <2>2. CASE ~Withdraw(w)
    BY <1>6, <2>2 DEF Complete, Stored, Still, IInv, TypeOK
  <2> QED BY <2>1, <2>2
<1>7. CASE TimeOut(w) \/ Unwind(w)
  BY <1>7, MarkStill DEF TimeOut, Unwind
<1>8. CASE Model(w)
  <2>1. w \notin runAt
    BY <1>0, <1>8 DEF Model, AtStep, EndSteps
  <2> QED BY <1>0, <1>8, <2>1, UnknowingStill, WithdrawStill DEF Model, Cancelled
<1>9. CASE Compacted(w) \/ Ask(w) \/ Requested(w) \/ Start(w) \/ Wait(w) \/ Unknown(w)
  <2>1. w \notin runAt
    BY <1>0, <1>9 DEF Compacted, Ask, Requested, Start, Wait, Unknown, AtStep, EndSteps
  <2> QED BY <1>9, <2>1, UnknowingStill, FailStill DEF Compacted, Ask, Requested, Start, Wait, Unknown
<1>10. CASE Compact(w) \/ Answer(w) \/ AppendResult(w)
  <2>1. w \notin runAt
    BY <1>0, <1>10 DEF Compact, Answer, AppendResult, AtStep, EndSteps
  <2>2. CASE Withdraw(w) \/ Fail(w)
    BY <2>2, WithdrawStill, FailStill
  <2>3. CASE ~Withdraw(w) /\ ~Fail(w)
    <3>1. \E new, next : SaveConv(w, new, next)
      BY <1>10, <2>3 DEF Compact, Answer, AppendResult, Cancelled
    <3> QED BY <2>1, <3>1, SaveStill
  <2> QED BY <2>2, <2>3
<1>11. CASE Tool(w)
  <2>1. w \notin runAt
    BY <1>0, <1>11 DEF Tool, AtStep, EndSteps
  <2> QED BY <1>0, <1>11, <2>1, UnknowingStill DEF Tool
<1>12. CASE Block(w) \/ Reject(w) \/ Return(w) \/ Outlive(w) \/ Interrupt(w)
  <2>1. w \notin runAt
    BY <1>0, <1>12 DEF Block, Reject, Return, Outlive, Interrupt, AtStep, EndSteps
  <2> QED BY <1>12, <2>1, UnknowingStill, SetStatusStill DEF Block, Reject, Return, Outlive, Interrupt
<1>13. CASE Approve(w)
  <2>1. w \notin runAt
    BY <1>0, <1>13 DEF Approve, AtStep, EndSteps
  <2>2. worker[w].pc \in ToolSteps
    BY <1>13 DEF Approve, AtStep, ToolSteps
  <2>3. approval[worker[w].call] \in Approval
    BY <2>2, Parts DEF IInv, TypeOK, RowOK, HoldsCall
  <2>4. (\E next : Goto(w, next)) \/ \E status, next : SetStatus(w, status, next)
    BY <1>13, <2>3 DEF Approve, NeedsApproval, Approval
  <2> QED BY <2>1, <2>4, UnknowingStill, SetStatusStill
<1>14. CASE Request(w)
  <2>1. w \notin runAt
    BY <1>0, <1>14 DEF Request, AtStep, EndSteps
  <2>2. CASE Goto(w, "approve")
    BY <2>1, <2>2, UnknowingStill
  <2>3. CASE ~Goto(w, "approve")
    BY <1>14, <2>1, <2>3 DEF Request, current, Still, IInv, TypeOK
  <2> QED BY <2>2, <2>3
<1>15. CASE Execute(w)
  <2>1. w \notin runAt
    BY <1>0, <1>15 DEF Execute, AtStep, EndSteps
  <2>2. \/ \E next : Goto(w, next)
        \/ \E status, next : SetStatus(w, status, next)
        \/ Withdraw(w) \/ CallConflict(w) \/ \E record, next : Journal(w, record, next)
    BY <1>15 DEF Execute, Cancelled, Attempt
  <2> QED BY <2>1, <2>2, UnknowingStill, SetStatusStill, WithdrawStill
<1> QED BY <1>1, <1>2, <1>3, <1>4, <1>5, <1>6, <1>7, <1>8, <1>9, <1>10, <1>11, <1>12, <1>13, <1>14,
           <1>15 DEF Step

LEMMA Uncompleted ==
  ASSUME run.status # "completed", NEW w, NEW next, NEW new,
         \/ Withdraw(w) \/ Fail(w) \/ Fence(w, next) \/ EndNode(w) \/ Goto(w, next) \/ Load(w, next)
         \/ Reroute(w) \/ SetStatus(w, new, next) \/ Journal(w, new, next) \/ CallConflict(w)
         \/ SaveConv(w, new, next)
         \/ next # "completed" /\ (Mark(w, next) \/ Pause(w, next))
  PROVE  run'.status # "completed"
<1>1. ASSUME NEW s, s # "completed", run' = Stored(s) PROVE run'.status # "completed"
  <2>1. CASE s = "running"
    <3>1. CASE "status" \in DOMAIN run
      BY <1>1, <2>1, <3>1 DEF Stored
    <3>2. CASE "status" \notin DOMAIN run
      BY <1>1, <2>1, <3>2 DEF Stored
    <3> QED BY <3>1, <3>2
  <2>2. CASE s # "running"
    BY <1>1, <2>2 DEF Stored
  <2> QED BY <2>1, <2>2
<1>2. CASE Mark(w, "failed") \/ (next # "completed" /\ Mark(w, next))
  BY <1>1, <1>2 DEF Mark
<1>3. CASE next # "completed" /\ Pause(w, next)
  BY <1>1, <1>3 DEF Pause, Withdraw, store
<1>4. CASE \/ Withdraw(w) \/ Fence(w, next) \/ EndNode(w) \/ Goto(w, next) \/ Load(w, next)
           \/ Reroute(w) \/ Journal(w, new, next)
  BY <1>4 DEF Withdraw, Fence, EndNode, Goto, Load, Reroute, Journal, store
<1>5. CASE SetStatus(w, new, next) \/ CallConflict(w) \/ SaveConv(w, new, next) \/ Fail(w)
  BY <1>2, <1>5 DEF SetStatus, CallConflict, SaveConv, Fail, Journal
<1> QED BY <1>2, <1>3, <1>4, <1>5

\* A run is completed by the finish node only, and nobody knows the new row yet.
LEMMA OthersDoNotComplete ==
  ASSUME IInv, run.status # "completed", NEW w \in Workers, ~Complete(w),
         Claim(w) \/ Step(w) \/ Interrupt(w) \/ TimeOut(w) \/ Crash(w)
  PROVE  run'.status # "completed"
<1>1. CASE Claim(w) \/ Crash(w)
  BY <1>1 DEF Claim, Crash, store
<1>2. CASE Begin(w) \/ Request(w) \/ Tool(w)
  BY <1>2, Uncompleted DEF Begin, Request, Tool, Cancelled, store
<1>3. CASE Prepare(w) \/ Finish(w) \/ Open(w) \/ Ready(w) \/ Answered(w) \/ Appended(w)
  BY <1>3, Uncompleted DEF Prepare, Finish, Open, Ready, Answered, Appended
<1>4. CASE TimeOut(w) \/ Unwind(w)
  BY <1>4, Uncompleted DEF TimeOut, Unwind
<1>5. CASE Model(w) \/ Compacted(w) \/ Ask(w) \/ Requested(w) \/ Start(w) \/ Wait(w) \/ Unknown(w)
  BY <1>5, Uncompleted DEF Model, Compacted, Ask, Requested, Start, Wait, Unknown, Cancelled
<1>6. CASE Compact(w) \/ Answer(w) \/ AppendResult(w)
  BY <1>6, Uncompleted DEF Compact, Answer, AppendResult, Cancelled
<1>7. CASE Block(w) \/ Reject(w) \/ Return(w) \/ Outlive(w) \/ Interrupt(w)
  BY <1>7, Uncompleted DEF Block, Reject, Return, Outlive, Interrupt
<1>8. CASE Approve(w)
  <2>1. worker[w].pc \in ToolSteps
    BY <1>8 DEF Approve, AtStep, ToolSteps
  <2>2. approval[worker[w].call] \in Approval
    BY <2>1, Parts DEF IInv, TypeOK, RowOK, HoldsCall
  <2>3. (\E next : Goto(w, next)) \/ \E status, next : SetStatus(w, status, next)
    BY <1>8, <2>2 DEF Approve, NeedsApproval, Approval
  <2> QED BY <2>3, Uncompleted
<1>9. CASE Execute(w)
  <2>1. \/ \E next : Goto(w, next)
        \/ \E status, next : SetStatus(w, status, next)
        \/ Withdraw(w) \/ CallConflict(w) \/ \E record, next : Journal(w, record, next)
    BY <1>9 DEF Execute, Cancelled, Attempt
  <2> QED BY <2>1, Uncompleted
<1> QED BY <1>1, <1>2, <1>3, <1>4, <1>5, <1>6, <1>7, <1>8, <1>9 DEF Step

LEMMA Completing ==
  ASSUME IInv, run.status # "completed", [Next]_vars, run'.status = "completed"
  PROVE  runAt' = {}
<1>1. ASSUME NEW w \in Workers, Complete(w) PROVE runAt' = {}
  BY <1>1 DEF Complete, Withdraw, store
<1>2. ASSUME Lapse \/ Cancel \/ Review \/ UNCHANGED vars PROVE FALSE
  <2>1. run \in RunRow
    BY Parts DEF RestOK
  <2> QED BY <1>2, <2>1 DEF Lapse, Cancel, Review, Reopen, Release, PutBack, Stored, ReviewerDies,
                           Decide, Reconcile, vars, store, RunRow
<1>3. ASSUME NEW c \in Calls, NEW s, Compensate(c, s) PROVE FALSE
  BY <1>3 DEF Compensate
<1> QED BY <1>1, <1>2, <1>3, OthersDoNotComplete DEF Next

\* The steps that no execution takes.
LEMMA OutsideEnds ==
  ASSUME EndInv, run.status = "completed",
         \/ Lapse \/ Cancel \/ Review \/ UNCHANGED vars
         \/ \E c \in Calls : \E s \in {"compensated", "compensation_failed"} : Compensate(c, s)
  PROVE  run' = run /\ EndInv'
<1>1. run' = run /\ worker' = worker /\ runAt' = runAt
  BY DEF Lapse, Cancel, Terminal, Review, Reopen, Release, PutBack, ReviewerDies, Decide, Reconcile,
         Compensate, vars, store, current
<1> QED BY <1>1 DEF EndInv

LEMMA EndStep ==
  ASSUME IInv, CInv, EndInv, [Next]_vars
  PROVE  EndInv' /\ (run.status = "completed" => run'.status = "completed")
<1>1. CASE run.status # "completed"
  <2>1. run'.status = "completed" => runAt' = {}
    BY <1>1, Completing
  <2> QED BY <1>1, <2>1 DEF EndInv
<1>2. CASE run.status = "completed"
  <2>1. ASSUME NEW w \in Workers, Claim(w) \/ Step(w) \/ Interrupt(w) \/ TimeOut(w) \/ Crash(w)
        PROVE  EndInv' /\ run'.status = "completed"
    <3>1. Still(w)
      BY <1>2, <2>1, ExecutionStill
    <3> QED BY <1>2, <3>1, StillEnds DEF Still
  <2> QED BY <1>2, <2>1, OutsideEnds DEF Next
<1> QED BY <1>1, <1>2

\* A completed run stays completed, whatever executions that lost it, nodes that load it
\* anew, callers and reviewers do.  The like is false of failed and cancelled runs.
THEOREM CompletionIsFinal == Spec => CompletedStays
<1>1. Init => EndInv
  BY DEF Init, EndInv
<1>2. IInv /\ CInv /\ EndInv /\ [Next]_vars => EndInv'
  BY EndStep
<1>3. IInv /\ CInv /\ EndInv /\ [Next]_vars
        => [run.status = "completed" => run'.status = "completed"]_vars
  BY EndStep
<1> QED BY <1>1, <1>2, <1>3, ConversationInvariant, PTL DEF Spec, CompletedStays
=============================================================================
