---------------------------- MODULE EventGateway ----------------------------
(* One session's event stream: the "sse" jobs of the durable ledger, the POSTs  *)
(* that carry them to the Go gateway, its event table and broker, and the       *)
(* browser's EventSource.                                                       *)
(*                                                                              *)
(* Every task has a lane of its own (sse_event_client.py): its jobs are posted  *)
(* in their order, and one at a time until the ledger closes a job under its    *)
(* last running attempt.  What the ledger does for a lane is DurableJobs'       *)
(* matter and appears here as head and tries.  A handler's Append and Publish   *)
(* are two steps.  The client's context ends with its request: a handler that   *)
(* has not committed when the client gives up stores nothing.                   *)
EXTENDS Naturals, Sequences, FiniteSets

CONSTANTS
  Tasks,        \* tasks of the session
  Payloads,     \* what an event can carry
  MaxAttempts,  \* attempts of an "sse" job (8 in the code)
  Buffer,       \* events a subscriber's channel holds (64 in the code)
  ReplayLimit,  \* events one replay lists (500 in the code)
  MaxEvents,    \* bound: events of a task
  MaxFaults     \* bound: lost requests, repeated messages, crashes, broken connections

ASSUME GatewayAssumption ==
  /\ MaxAttempts \in Nat \ {0}
  /\ Buffer \in Nat
  /\ ReplayLimit \in Nat
  /\ MaxEvents \in Nat
  /\ MaxFaults \in Nat

VARIABLES
  emitted,   \* emitted[t]: the payloads of t's jobs, in the order of their rows
  head,      \* head[t]: how many of t's jobs have ended
  tries,     \* tries[t]: attempts of the job at the head of t's lane
  posting,   \* the jobs whose POST waits for its answer
  late,      \* jobs the ledger closed while their last POST was running
  handlers,  \* running publishEvent handlers
  log,       \* dialogue_events of the session; the index is the event_id
  pruned,    \* how many of the oldest events the table has deleted
  conn,      \* the stream's handler in the gateway
  cursor,    \* the browser's Last-Event-ID
  seen,      \* events the browser was given
  last,      \* last[t]: the number of t's event it was given last, but for the late ones
  since,     \* cursor the last connection without a Last-Event-ID started from
  cut,       \* some replay was cut short by ReplayLimit
  overtaken, \* events that a later row of the table was broadcast before
  faults

laneVars == <<emitted, head, tries, posting, late>>
storeVars == <<handlers, log, pruned>>
clientVars == <<conn, cursor, seen, last, since, cut>>
gatewayVars == <<laneVars, storeVars, clientVars, overtaken, faults>>

\* An event of the session: the n-th job of a task.
Events == [task : Tasks, n : Nat \ {0}]

\* No connection; asked: its cursor is known; subscribed: its channel is registered;
\* live: the replay is read; refused: EventSource gave up (readyState CLOSED).
Phases == {"off", "asked", "subscribed", "live", "refused"}

Off == [phase |-> "off", from |-> 0, replay |-> <<>>, queue |-> <<>>, open |-> FALSE,
        sent |-> 0]

GatewayInit ==
  /\ emitted = [t \in Tasks |-> <<>>]
  /\ head = [t \in Tasks |-> 0]
  /\ tries = [t \in Tasks |-> 0]
  /\ posting = {}
  /\ late = {}
  /\ handlers = {}
  /\ log = <<>>
  /\ pruned = 0
  /\ conn = Off
  /\ cursor = 0
  /\ seen = {}
  /\ last = [t \in Tasks |-> 0]
  /\ since = 0
  /\ cut = FALSE
  /\ overtaken = {}
  /\ faults = 0

-----------------------------------------------------------------------------
(* The publisher. *)

\* publish: a row of kind "sse" at the end of t's lane.
Emit(t, p) ==
  /\ Len(emitted[t]) < MaxEvents
  /\ emitted' = [emitted EXCEPT ![t] = Append(@, p)]
  /\ UNCHANGED <<head, tries, posting, late, storeVars, clientVars, overtaken, faults>>

HeadOf(t) == [task |-> t, n |-> head[t] + 1]

\* A worker claims the head of the lane and posts it (publish_http).
Post(t) ==
  /\ head[t] < Len(emitted[t])
  /\ HeadOf(t) \notin posting
  /\ posting' = posting \union {HeadOf(t)}
  /\ tries' = [tries EXCEPT ![t] = @ + 1]
  /\ handlers' = handlers \union
                   {[task |-> t, n |-> head[t] + 1, id |-> 0, waited |-> TRUE]}
  /\ UNCHANGED <<emitted, head, late, log, pruned, clientVars, overtaken, faults>>

\* The job at the head of t's lane ends.
Advance(t) ==
  /\ head' = [head EXCEPT ![t] = @ + 1]
  /\ tries' = [tries EXCEPT ![t] = 0]

\* The message of a job arrives again while its last attempt runs: the ledger closes the
\* job and frees its lane, and the POST goes on.
GiveUp(t) ==
  /\ HeadOf(t) \in posting
  /\ tries[t] >= MaxAttempts
  /\ faults < MaxFaults
  /\ faults' = faults + 1
  /\ Advance(t)
  /\ late' = late \union {HeadOf(t)}
  /\ UNCHANGED <<emitted, posting, storeVars, clientVars, overtaken>>

Awaited(e) == {h \in handlers : h.task = e.task /\ h.n = e.n /\ h.waited}

\* A plausible bug: handlers that ignore the request's context.
AbandonedRunOn(e) ==
  (handlers \ Awaited(e)) \union {[h EXCEPT !.waited = FALSE] : h \in Awaited(e)}

\* What is left of e's handler when its client gives up: an uncommitted one is cancelled
\* with the request's context, a committed one goes on unheard.
Abandoned(e) ==
  (handlers \ Awaited(e)) \union
  {[h EXCEPT !.waited = FALSE] : h \in {g \in Awaited(e) : g.id # 0}}

\* The attempt failed: the job is tried again, or fails for good and frees its lane.
Retried(e) ==
  /\ posting' = posting \ {e}
  /\ IF e = HeadOf(e.task) /\ tries[e.task] >= MaxAttempts
       THEN Advance(e.task) ELSE UNCHANGED <<head, tries>>

\* The POST times out, is answered 500, or its worker dies.
LosePost(e) ==
  /\ e \in posting
  /\ Awaited(e) # {}
  /\ faults < MaxFaults
  /\ faults' = faults + 1
  /\ handlers' = Abandoned(e)
  /\ Retried(e)
  /\ UNCHANGED <<emitted, late, log, pruned, clientVars, overtaken>>

\* Its handler is gone: the connection is reset.
FailPost(e) ==
  /\ e \in posting
  /\ Awaited(e) = {}
  /\ Retried(e)
  /\ UNCHANGED <<emitted, late, storeVars, clientVars, overtaken, faults>>

-----------------------------------------------------------------------------
(* The gateway: publishEvent. *)

\* Append: one transaction gives the event its id.
AppendEvent(h) ==
  /\ h \in handlers
  /\ h.id = 0
  /\ log' = Append(log, [task |-> h.task, n |-> h.n])
  /\ handlers' = (handlers \ {h}) \union {[h EXCEPT !.id = Len(log) + 1]}
  /\ UNCHANGED <<laneVars, pruned, clientVars, overtaken, faults>>

\* A plausible bug: a full channel loses the event and stays open.
OfferedOrDropped(c, id) ==
  IF c.open /\ Len(c.queue) < Buffer THEN [c EXCEPT !.queue = Append(@, id)] ELSE c

\* The channel after Publish: a full one is removed and closed.
Offered(c, id) ==
  IF ~c.open THEN c
  ELSE IF Len(c.queue) < Buffer THEN [c EXCEPT !.queue = Append(@, id)]
  ELSE [c EXCEPT !.open = FALSE]

\* The answer ends the job, unless the ledger has closed it before.
Answered(e) ==
  /\ posting' = posting \ {e}
  /\ IF e = HeadOf(e.task) THEN Advance(e.task) ELSE UNCHANGED <<head, tries>>

Broadcasting == {h \in handlers : h.id # 0}

\* What a client may miss once it is given row id: the earlier rows whose broadcast is still
\* to come, of events that no other row has brought to the channel.
PassedBy(id) ==
  {log[h.id] : h \in {g \in Broadcasting : g.id < id}} \
    ({log[id]} \union
     {log[i] : i \in {k \in 1..Len(log) : \A h \in Broadcasting : h.id # k}})

\* Publish, and the answer to the client if it still waits.
Broadcast(h) ==
  /\ h \in handlers
  /\ h.id # 0
  /\ conn' = Offered(conn, h.id)
  /\ handlers' = handlers \ {h}
  /\ overtaken' = overtaken \union PassedBy(h.id)
  /\ IF h.waited THEN Answered([task |-> h.task, n |-> h.n])
     ELSE UNCHANGED <<head, tries, posting>>
  /\ UNCHANGED <<emitted, late, log, pruned, cursor, seen, last, since, cut, faults>>

\* The gateway restarts: its handlers, channels and connections are gone, the table stays.
GatewayCrash ==
  /\ faults < MaxFaults
  /\ faults' = faults + 1
  /\ handlers' = {}
  /\ conn' = IF conn.phase = "refused" THEN conn ELSE Off
  /\ UNCHANGED <<laneVars, log, pruned, cursor, seen, last, since, cut, overtaken>>

\* The hourly Prune: the oldest events are past the retention, which outlives every handler.
Prune ==
  /\ pruned' \in (pruned + 1)..Len(log)
  /\ \A h \in handlers : h.id # 0 => h.id > pruned'
  /\ UNCHANGED <<laneVars, handlers, log, clientVars, overtaken, faults>>

-----------------------------------------------------------------------------
(* The gateway: streamEvents, and the browser's EventSource. *)

\* A plausible bug: every stream starts from the newest event.
StartFromNewest == Len(log)

\* LatestID: the newest event's id, and 0 when the table is empty.
LatestID == IF pruned = Len(log) THEN 0 ELSE Len(log)

\* The cursor the stream starts from: the client's, or the newest event's id.
StartFrom == IF cursor = 0 THEN LatestID ELSE cursor

Connect ==
  /\ conn.phase = "off"
  /\ conn' = [Off EXCEPT !.phase = "asked", !.from = StartFrom, !.sent = StartFrom]
  /\ since' = IF cursor = 0 THEN LatestID ELSE since
  /\ UNCHANGED <<laneVars, storeVars, cursor, seen, last, cut, overtaken, faults>>

\* Subscribe registers the channel before the table is read.
Subscribe ==
  /\ conn.phase = "asked"
  /\ conn' = [conn EXCEPT !.phase = "subscribed", !.open = TRUE]
  /\ UNCHANGED <<laneVars, storeVars, cursor, seen, last, since, cut, overtaken, faults>>

\* The cursor, or the last event that was deleted.
Kept(from) == IF from < pruned THEN pruned ELSE from

\* The events after a cursor, at most ReplayLimit.
LastListed(from) == IF Len(log) <= from + ReplayLimit THEN Len(log) ELSE from + ReplayLimit

ListedAfter(from) ==
  [i \in 1..(IF LastListed(from) > from THEN LastListed(from) - from ELSE 0) |-> from + i]

List ==
  /\ conn.phase = "subscribed"
  /\ conn' = [conn EXCEPT !.phase = "live", !.replay = ListedAfter(Kept(conn.from))]
  /\ cut' = (cut \/ LastListed(Kept(conn.from)) < Len(log))
  /\ UNCHANGED <<laneVars, storeVars, cursor, seen, last, since, overtaken, faults>>

\* What the stream still has to write: the replay, then the channel.
Pending(c) == c.replay \o c.queue

TakeNext(c) ==
  IF c.replay # <<>> THEN [c EXCEPT !.replay = Tail(@)] ELSE [c EXCEPT !.queue = Tail(@)]

\* An event is written unless its id is not above the last one sent.
Written(id) ==
  /\ conn' = [TakeNext(conn) EXCEPT !.sent = id]
  /\ cursor' = id
  /\ seen' = seen \union {log[id]}
  /\ last' = IF log[id] \in late THEN last ELSE [last EXCEPT ![log[id].task] = log[id].n]

Send ==
  /\ conn.phase = "live"
  /\ Pending(conn) # <<>>
  /\ Head(Pending(conn)) > conn.sent
  /\ Written(Head(Pending(conn)))
  /\ UNCHANGED <<laneVars, storeVars, since, cut, overtaken, faults>>

Skip ==
  /\ conn.phase = "live"
  /\ Pending(conn) # <<>>
  /\ Head(Pending(conn)) <= conn.sent
  /\ conn' = TakeNext(conn)
  /\ UNCHANGED <<laneVars, storeVars, cursor, seen, last, since, cut, overtaken, faults>>

\* The closed channel is drained: the handler returns and the browser reconnects.
EndStream ==
  /\ conn.phase = "live"
  /\ ~conn.open
  /\ Pending(conn) = <<>>
  /\ conn' = Off
  /\ UNCHANGED <<laneVars, storeVars, cursor, seen, last, since, cut, overtaken, faults>>

\* The network breaks the connection; what was written and not received is lost with it.
Disconnect ==
  /\ conn.phase \in {"asked", "subscribed", "live"}
  /\ faults < MaxFaults
  /\ faults' = faults + 1
  /\ conn' = Off
  /\ UNCHANGED <<laneVars, storeVars, cursor, seen, last, since, cut, overtaken>>

\* A connection attempt is answered with an error: EventSource does not try again.
Refuse ==
  /\ conn.phase = "off"
  /\ faults < MaxFaults
  /\ faults' = faults + 1
  /\ conn' = [Off EXCEPT !.phase = "refused"]
  /\ UNCHANGED <<laneVars, storeVars, cursor, seen, last, since, cut, overtaken>>

\* The page makes a new EventSource with the id it remembers.
Reopen ==
  /\ conn.phase = "refused"
  /\ conn' = Off
  /\ UNCHANGED <<laneVars, storeVars, cursor, seen, last, since, cut, overtaken, faults>>

GatewayNext ==
  \/ \E t \in Tasks, p \in Payloads : Emit(t, p)
  \/ \E t \in Tasks : Post(t) \/ GiveUp(t)
  \/ \E e \in posting : LosePost(e) \/ FailPost(e)
  \/ \E h \in handlers : AppendEvent(h) \/ Broadcast(h)
  \/ Connect \/ Subscribe \/ List \/ Send \/ Skip \/ EndStream
  \/ GatewayCrash \/ Prune \/ Disconnect \/ Refuse \/ Reopen

GatewaySpec == GatewayInit /\ [][GatewayNext]_gatewayVars

Handle == \E h \in handlers : AppendEvent(h) \/ Broadcast(h)

Serve == Connect \/ Subscribe \/ List \/ Send \/ Skip \/ EndStream

\* The gateway's goroutines run and EventSource connects again; nothing may be published.
FairGatewaySpec ==
  /\ GatewaySpec
  /\ WF_gatewayVars(Handle)
  /\ WF_gatewayVars(Serve)

-----------------------------------------------------------------------------
(* Properties. *)

GatewayTypeOK ==
  /\ emitted \in [Tasks -> Seq(Payloads)]
  /\ head \in [Tasks -> Nat]
  /\ tries \in [Tasks -> Nat]
  /\ posting \subseteq Events
  /\ late \subseteq Events
  /\ handlers \subseteq
       [task : Tasks, n : Nat \ {0}, id : Nat, waited : BOOLEAN]
  /\ log \in Seq(Events)
  /\ pruned \in Nat
  /\ conn \in [phase : Phases, from : Nat, replay : Seq(Nat), queue : Seq(Nat),
               open : BOOLEAN, sent : Nat]
  /\ cursor \in Nat
  /\ seen \subseteq Events
  /\ last \in [Tasks -> Nat]
  /\ since \in Nat
  /\ cut \in BOOLEAN
  /\ overtaken \subseteq Events
  /\ faults \in Nat

\* The events the stream owes its client: those stored after the cursor it started from,
\* each time they were stored, that are not deleted and were not overtaken.
Owed ==
  {log[i] : i \in 1..Len(log)} \
    ({log[i] : i \in 1..since} \union {log[i] : i \in 1..pruned} \union overtaken)

\* Once the browser's cursor has passed an event it owes, the browser has been given
\* that event: nothing is skipped for good, whatever reconnects, overflows or is posted
\* twice.  (An event can be overtaken, and then lost, where two POSTs run side by side: of
\* two tasks, or of one whose job was closed under its POST.  Append and Publish are two steps.)
NoGap ==
  ~cut => \A i \in 1..Len(log) :
            (i <= cursor /\ log[i] \in Owed) => log[i] \in seen

\* What is stored is written to the browser in the end: an overflowing channel, a broken
\* connection or a restart only delays it, unless EventSource gives up or the replay is cut.
EventsArrive ==
  \A e \in [task : Tasks, n : 1..MaxEvents] :
    (e \in Owed) ~> (e \in seen \/ e \notin Owed \/ cut \/ conn.phase = "refused")

Stream == INSTANCE EventStream WITH refused <- conn.phase = "refused"

\* What the page may expect: the events of a task arrive in the order in which they were
\* published, however often they are posted, replayed or broadcast, but for those the
\* ledger closed under a running POST, and nothing arrives on a refused stream.
StreamKept == Stream!StreamSpec
=============================================================================
