-------------------------- MODULE EventGateway_proof --------------------------
(* The event stream keeps its promise: the events of a task reach the page in the  *)
(* order in which they were published, but for those given up under their POST, and  *)
(* none is skipped for good but those overtaken between Append and Publish.  The      *)
(* page that follows the stream shows only what was true, and is not left alone.      *)
EXTENDS EventGateway, SequenceTheorems, TLAPS

Event(t, n) == [task |-> t, n |-> n]

\* The publisher: what is being posted is the head of its lane, or was closed before.
LanesOK ==
  /\ \A t \in Tasks : head[t] <= Len(emitted[t])
  /\ \A e \in posting : e.n <= Len(emitted[e.task]) /\ e.n <= head[e.task] + 1
  /\ \A e \in posting : e.n <= head[e.task] => e \in late

HandlersOK ==
  /\ \A h \in handlers : h.waited => Event(h.task, h.n) \in posting
  /\ \A h \in handlers : h.id = 0 => h.waited
  /\ \A h \in handlers : h.id # 0 => h.id <= Len(log) /\ log[h.id] = Event(h.task, h.n)
  /\ \A g, h \in handlers : g.waited /\ h.waited /\ g.task = h.task /\ g.n = h.n => g = h

\* The table: the events of a task are stored in their order, but for the late ones.
LogOK ==
  /\ \A i \in 1..Len(log) : log[i].n <= head[log[i].task] + 1
  /\ \A i \in 1..Len(log) : log[i].n <= Len(emitted[log[i].task])
  /\ \A i, j \in 1..Len(log) :
       i <= j /\ log[i].task = log[j].task => log[i].n <= log[j].n \/ log[j] \in late

\* The connection: it holds ids of the table, and has sent what the browser has.
ConnOK ==
  /\ cursor <= Len(log)
  /\ conn.phase \in {"asked", "subscribed", "live"} => cursor <= conn.sent
  /\ conn.replay \in Seq(1..Len(log)) /\ conn.queue \in Seq(1..Len(log))
  /\ conn.phase \in {"off", "refused"} => conn.queue = <<>> /\ ~conn.open
  /\ conn.phase # "live" => conn.replay = <<>>
  /\ \A t \in Tasks :
       last[t] = 0 \/ \E i \in 1..Len(log) : i <= cursor /\ log[i] = Event(t, last[t])

IInv == GatewayTypeOK /\ LanesOK /\ HandlersOK /\ LogOK /\ ConnOK

Handler == [task : Tasks, n : Nat \ {0}, id : Nat, waited : BOOLEAN]

Connection == [phase : Phases, from : Nat, replay : Seq(Nat), queue : Seq(Nat),
               open : BOOLEAN, sent : Nat]

-----------------------------------------------------------------------------
(* What the operations on a connection return. *)

LEMMA OffConnection ==
  /\ Off \in Connection
  /\ Off.phase = "off" /\ Off.replay = <<>> /\ Off.queue = <<>> /\ ~Off.open
  BY DEF Off, Connection, Phases

\* A channel that is offered an event gets it at its end, or is closed, or was closed before.
LEMMA OfferedConnection ==
  ASSUME NEW c \in Connection, NEW id \in Nat
  PROVE  /\ Offered(c, id) \in Connection
         /\ Offered(c, id).phase = c.phase /\ Offered(c, id).from = c.from
         /\ Offered(c, id).replay = c.replay /\ Offered(c, id).sent = c.sent
         /\ Offered(c, id).queue \in {c.queue, Append(c.queue, id)}
         /\ Offered(c, id).open => c.open /\ Offered(c, id).queue = Append(c.queue, id)
         /\ ~c.open => Offered(c, id) = c
<1> DEFINE held == [c EXCEPT !.queue = Append(@, id)]
           closed == [c EXCEPT !.open = FALSE]
<1>1. c.queue \in Seq(Nat) /\ Append(c.queue, id) \in Seq(Nat)
  BY DEF Connection
<1>2. /\ held \in Connection
      /\ held.phase = c.phase /\ held.from = c.from /\ held.replay = c.replay
      /\ held.sent = c.sent /\ held.open = c.open /\ held.queue = Append(c.queue, id)
  BY <1>1 DEF Connection
<1>3. /\ closed \in Connection
      /\ closed.phase = c.phase /\ closed.from = c.from /\ closed.replay = c.replay
      /\ closed.sent = c.sent /\ closed.queue = c.queue /\ ~closed.open
  BY DEF Connection
<1>4. CASE ~c.open
  BY <1>4 DEF Offered
<1>5. CASE c.open /\ Len(c.queue) < Buffer
  <2>1. Offered(c, id) = held
    BY <1>5 DEF Offered
  <2> QED BY <2>1, <1>2, <1>5
<1>6. CASE c.open /\ ~(Len(c.queue) < Buffer)
  <2>1. Offered(c, id) = closed
    BY <1>6 DEF Offered
  <2> QED BY <2>1, <1>3, <1>6
<1> QED BY <1>4, <1>5, <1>6

LEMMA PendingEvents ==
  ASSUME NEW c \in Connection
  PROVE  /\ c.replay \in Seq(Nat) /\ c.queue \in Seq(Nat) /\ Pending(c) \in Seq(Nat)
         /\ Len(Pending(c)) = Len(c.replay) + Len(c.queue)
         /\ \A i \in 1..Len(Pending(c)) :
              Pending(c)[i] = IF i <= Len(c.replay) THEN c.replay[i]
                              ELSE c.queue[i - Len(c.replay)]
<1>1. c.replay \in Seq(Nat) /\ c.queue \in Seq(Nat)
  BY DEF Connection
<1> QED BY <1>1, ConcatProperties DEF Pending

LEMMA TailOfConcat ==
  ASSUME NEW s \in Seq(Nat), NEW r \in Seq(Nat), s # <<>>
  PROVE  Tail(s) \o r = Tail(s \o r)
<1>1. /\ Tail(s) \in Seq(Nat) /\ Len(Tail(s)) = Len(s) - 1
      /\ \A i \in 1..Len(Tail(s)) : Tail(s)[i] = s[i + 1]
  BY HeadTailProperties
<1>2. /\ s \o r \in Seq(Nat) /\ Len(s \o r) = Len(s) + Len(r)
      /\ \A i \in 1..Len(s) + Len(r) : (s \o r)[i] = IF i <= Len(s) THEN s[i] ELSE r[i - Len(s)]
  BY ConcatProperties
<1>3. s \o r # <<>>
  BY ConcatEqualIffEmpty
<1>4. /\ Tail(s \o r) \in Seq(Nat) /\ Len(Tail(s \o r)) = Len(s) + Len(r) - 1
      /\ \A i \in 1..Len(s) + Len(r) - 1 : Tail(s \o r)[i] = (s \o r)[i + 1]
  BY <1>2, <1>3, HeadTailProperties
<1>5. /\ Tail(s) \o r \in Seq(Nat) /\ Len(Tail(s) \o r) = Len(s) - 1 + Len(r)
      /\ \A i \in 1..Len(s) - 1 + Len(r) :
           (Tail(s) \o r)[i] = IF i <= Len(s) - 1 THEN Tail(s)[i] ELSE r[i - (Len(s) - 1)]
  BY <1>1, ConcatProperties
<1>6. Len(s) \in Nat /\ Len(r) \in Nat
  OBVIOUS
<1>7. ASSUME NEW i \in 1..Len(s) + Len(r) - 1
      PROVE  (Tail(s) \o r)[i] = Tail(s \o r)[i]
  <2>1. CASE i <= Len(s) - 1
    BY <1>1, <1>2, <1>4, <1>5, <1>6, <2>1
  <2>2. CASE ~(i <= Len(s) - 1)
    BY <1>2, <1>4, <1>5, <1>6, <2>2
  <2> QED BY <2>1, <2>2
<1>8. Len(Tail(s) \o r) = Len(Tail(s \o r))
  BY <1>4, <1>5, <1>6
<1> QED BY <1>4, <1>5, <1>6, <1>7, <1>8, SeqEqual

\* Taking the next event removes the head of what is pending, and nothing else.
LEMMA TakenConnection ==
  ASSUME NEW c \in Connection, Pending(c) # <<>>
  PROVE  /\ TakeNext(c) \in Connection
         /\ TakeNext(c).phase = c.phase /\ TakeNext(c).from = c.from
         /\ TakeNext(c).open = c.open /\ TakeNext(c).sent = c.sent
         /\ Pending(TakeNext(c)) = Tail(Pending(c))
<1>1. c.replay \in Seq(Nat) /\ c.queue \in Seq(Nat)
  BY DEF Connection
<1>2. CASE c.replay # <<>>
  <2> DEFINE d == [c EXCEPT !.replay = Tail(@)]
  <2>1. TakeNext(c) = d
    BY <1>2 DEF TakeNext
  <2>2. Tail(c.replay) \in Seq(Nat)
    BY <1>1, <1>2
  <2>3. /\ d \in Connection /\ d.replay = Tail(c.replay) /\ d.queue = c.queue
        /\ d.phase = c.phase /\ d.from = c.from /\ d.open = c.open /\ d.sent = c.sent
    BY <2>2 DEF Connection
  <2>4. Tail(c.replay) \o c.queue = Tail(c.replay \o c.queue)
    BY <1>1, <1>2, TailOfConcat
  <2> QED BY <2>1, <2>3, <2>4 DEF Pending
<1>3. CASE c.replay = <<>>
  <2> DEFINE d == [c EXCEPT !.queue = Tail(@)]
  <2>1. TakeNext(c) = d
    BY <1>3 DEF TakeNext
  <2>2. c.replay \o c.queue = c.queue
    BY <1>1, <1>3, ConcatEmptySeq
  <2>3. c.queue # <<>>
    BY <2>2 DEF Pending
  <2>4. Tail(c.queue) \in Seq(Nat)
    BY <1>1, <2>3
  <2>5. /\ d \in Connection /\ d.replay = <<>> /\ d.queue = Tail(c.queue)
        /\ d.phase = c.phase /\ d.from = c.from /\ d.open = c.open /\ d.sent = c.sent
    BY <1>3, <2>4 DEF Connection
  <2>6. d.replay \o d.queue = Tail(c.queue)
    BY <2>4, <2>5, ConcatEmptySeq
  <2> QED BY <2>1, <2>2, <2>5, <2>6 DEF Pending
<1> QED BY <1>2, <1>3

LEMMA SeqWider ==
  ASSUME NEW S, NEW T, S \subseteq T, NEW s \in Seq(S)
  PROVE  s \in Seq(T)
  BY SeqDef

\* What is pending and what is left of it come from the same ids.
LEMMA PendingIds ==
  ASSUME NEW c \in Connection, NEW S, c.replay \in Seq(S), c.queue \in Seq(S), Pending(c) # <<>>
  PROVE  /\ Head(Pending(c)) \in S
         /\ TakeNext(c).replay \in Seq(S) /\ TakeNext(c).queue \in Seq(S)
<1>1. c.replay \o c.queue \in Seq(S) /\ c.replay \o c.queue # <<>>
  BY ConcatProperties DEF Pending
<1>2. Head(Pending(c)) \in S
  <2>1. Head(c.replay \o c.queue) \in S
    BY <1>1, HeadTailProperties
  <2> QED BY <2>1 DEF Pending
<1>3. CASE c.replay # <<>>
  <2>1. Tail(c.replay) \in Seq(S)
    BY <1>3
  <2>2. TakeNext(c).replay = Tail(c.replay) /\ TakeNext(c).queue = c.queue
    BY <1>3 DEF TakeNext, Connection
  <2> QED BY <1>2, <2>1, <2>2
<1>4. CASE c.replay = <<>>
  <2>1. c.queue # <<>>
    BY <1>1, <1>4, ConcatEmptySeq
  <2>2. Tail(c.queue) \in Seq(S)
    BY <2>1
  <2>3. TakeNext(c).replay = c.replay /\ TakeNext(c).queue = Tail(c.queue)
    BY <1>4 DEF TakeNext, Connection
  <2> QED BY <1>2, <2>2, <2>3
<1> QED BY <1>3, <1>4

\* A replay lists consecutive ids of the table after its cursor.
LEMMA Listed ==
  ASSUME NEW from \in Nat, log \in Seq(Events)
  PROVE  /\ ListedAfter(from) \in Seq(Nat)
         /\ from + Len(ListedAfter(from)) <= Len(log) \/ ListedAfter(from) = <<>>
         /\ \A i \in 1..Len(ListedAfter(from)) : ListedAfter(from)[i] = from + i
         /\ LastListed(from) = Len(log) =>
              \A i \in from + 1..Len(log) : i - from \in 1..Len(ListedAfter(from))
<1> DEFINE k == IF LastListed(from) > from THEN LastListed(from) - from ELSE 0
<1>1. Len(log) \in Nat
  OBVIOUS
<1>2. k \in Nat /\ (from + k <= Len(log) \/ k = 0)
      /\ (LastListed(from) = Len(log) => \A i \in from + 1..Len(log) : i - from \in 1..k)
  BY <1>1, GatewayAssumption DEF LastListed
<1>3. ListedAfter(from) = [i \in 1..k |-> from + i]
  BY DEF ListedAfter
<1> HIDE DEF k
<1>4. /\ ListedAfter(from) \in Seq(Nat) /\ Len(ListedAfter(from)) = k
      /\ \A i \in 1..k : ListedAfter(from)[i] = from + i
  BY <1>2, <1>3
<1>5. k = 0 => ListedAfter(from) = <<>>
  BY <1>4
<1> QED BY <1>2, <1>4, <1>5

-----------------------------------------------------------------------------
(* The publisher and the table. *)

\* A step of the stream's handler, the browser or the retention leaves the rest alone.
ClientStep == Connect \/ Subscribe \/ List \/ Send \/ Skip \/ EndStream
              \/ Disconnect \/ Refuse \/ Reopen \/ Prune

LEMMA ClientFrame ==
  ASSUME ClientStep
  PROVE  UNCHANGED <<emitted, head, tries, posting, late, overtaken, handlers, log>>
  BY DEF ClientStep, Connect, Subscribe, List, Send, Skip, EndStream, Disconnect, Refuse, Reopen,
         Prune, laneVars, storeVars

\* What an abandoned handler keeps.
LEMMA AbandonedHandlers ==
  ASSUME NEW e \in Events, handlers \subseteq Handler, NEW h \in Abandoned(e)
  PROVE  /\ h \in Handler
         /\ h.waited => h \in handlers /\ Event(h.task, h.n) # e
         /\ \E g \in handlers : /\ g.task = h.task /\ g.n = h.n /\ g.id = h.id
                                /\ (h = g \/ (~h.waited /\ h.id # 0))
<1>1. CASE h \in handlers \ Awaited(e)
  <2>1. h \in Handler /\ (h.waited => ~(h.task = e.task /\ h.n = e.n))
    BY <1>1 DEF Awaited
  <2>2. h.waited => Event(h.task, h.n) # e
    BY <2>1 DEF Event
  <2> QED BY <1>1, <2>1, <2>2
<1>2. CASE h \in {[g EXCEPT !.waited = FALSE] : g \in {k \in Awaited(e) : k.id # 0}}
  <2>1. PICK g \in Awaited(e) : g.id # 0 /\ h = [g EXCEPT !.waited = FALSE]
    BY <1>2
  <2>2. g \in Handler /\ g \in handlers
    BY DEF Awaited
  <2>3. h \in Handler /\ h.task = g.task /\ h.n = g.n /\ h.id = g.id /\ ~h.waited
    BY <2>1, <2>2 DEF Handler
  <2> QED BY <2>1, <2>2, <2>3
<1> QED BY <1>1, <1>2 DEF Abandoned

\* A committed handler goes on, heard or not.
LEMMA CommittedGoesOn ==
  ASSUME NEW e \in Events, handlers \subseteq Handler, NEW h \in handlers, h.id # 0
  PROVE  \E g \in Abandoned(e) : g.id = h.id
<1>1. CASE h \in Awaited(e)
  <2>1. [h EXCEPT !.waited = FALSE] \in Abandoned(e)
    BY <1>1 DEF Abandoned
  <2>2. h \in Handler
    OBVIOUS
  <2>3. [h EXCEPT !.waited = FALSE].id = h.id
    BY <2>2 DEF Handler
  <2> QED BY <2>1, <2>3
<1>2. CASE h \notin Awaited(e)
  BY <1>2 DEF Abandoned
<1> QED BY <1>1, <1>2

LEMMA LaneType ==
  ASSUME GatewayTypeOK
  PROVE  /\ head \in [Tasks -> Nat] /\ tries \in [Tasks -> Nat]
         /\ posting \subseteq Events /\ late \subseteq Events /\ overtaken \subseteq Events
         /\ emitted \in [Tasks -> Seq(Payloads)]
         /\ \A t \in Tasks : head[t] \in Nat /\ Len(emitted[t]) \in Nat
         /\ \A t \in Tasks : HeadOf(t) \in Events /\ HeadOf(t) = Event(t, head[t] + 1)
         /\ \A e \in Events : e.task \in Tasks /\ e.n \in Nat \ {0} /\ e = Event(e.task, e.n)
<1>1. /\ head \in [Tasks -> Nat] /\ tries \in [Tasks -> Nat]
      /\ posting \subseteq Events /\ late \subseteq Events /\ overtaken \subseteq Events
      /\ emitted \in [Tasks -> Seq(Payloads)]
  BY DEF GatewayTypeOK
<1>2. \A t \in Tasks : head[t] \in Nat /\ Len(emitted[t]) \in Nat
  BY <1>1
<1>3. \A t \in Tasks : HeadOf(t) \in Events /\ HeadOf(t) = Event(t, head[t] + 1)
  BY <1>2 DEF HeadOf, Event, Events
<1>4. \A e \in Events : e.task \in Tasks /\ e.n \in Nat \ {0} /\ e = Event(e.task, e.n)
  BY DEF Events, Event
<1> QED BY <1>1, <1>2, <1>3, <1>4

LEMMA HandlerType == GatewayTypeOK => handlers \subseteq Handler /\ conn \in Connection
  BY DEF GatewayTypeOK, Handler, Connection

\* The end of a job: its lane's head goes one further.
LEMMA AdvancedLane ==
  ASSUME GatewayTypeOK, NEW t \in Tasks, Advance(t)
  PROVE  /\ head' \in [Tasks -> Nat] /\ tries' \in [Tasks -> Nat]
         /\ head'[t] = head[t] + 1
         /\ \A u \in Tasks : u # t => head'[u] = head[u]
  BY LaneType DEF Advance

\* The end of a POST: it is gone, and if its job was at the head, the head may go on.
PostEnds(e) ==
  /\ e \in posting /\ posting' = posting \ {e} /\ late' = late /\ emitted' = emitted
  /\ head' \in [Tasks -> Nat] /\ tries' \in [Tasks -> Nat]
  /\ \/ head' = head
     \/ /\ e = HeadOf(e.task)
        /\ head'[e.task] = head[e.task] + 1
        /\ \A u \in Tasks : u # e.task => head'[u] = head[u]

LEMMA PostLost ==
  ASSUME GatewayTypeOK, NEW e \in posting, LosePost(e) \/ FailPost(e)
  PROVE  PostEnds(e)
<1>1. Retried(e) /\ late' = late /\ emitted' = emitted
  BY DEF LosePost, FailPost
<1>2. e.task \in Tasks
  BY LaneType
<1>3. CASE Advance(e.task) /\ e = HeadOf(e.task)
  BY <1>1, <1>2, <1>3, AdvancedLane DEF Retried, PostEnds
<1>4. CASE UNCHANGED <<head, tries>>
  BY <1>1, <1>4, LaneType DEF Retried, PostEnds
<1> QED BY <1>1, <1>3, <1>4 DEF Retried

LEMMA PostAnswered ==
  ASSUME IInv, NEW h \in handlers, Broadcast(h), h.waited
  PROVE  PostEnds(Event(h.task, h.n))
<1>1. PICK e : e = Event(h.task, h.n)
  OBVIOUS
<1>2. Answered(e) /\ late' = late /\ emitted' = emitted
  BY <1>1 DEF Broadcast, Event
<1>3. e \in posting /\ GatewayTypeOK
  BY <1>1 DEF IInv, HandlersOK
<1>4. e.task \in Tasks
  BY <1>3, LaneType
<1>5. ASSUME Advance(e.task), e = HeadOf(e.task)
      PROVE  PostEnds(e)
  BY <1>2, <1>3, <1>4, <1>5, AdvancedLane DEF Answered, PostEnds
<1>6. ASSUME UNCHANGED <<head, tries>>
      PROVE  PostEnds(e)
  BY <1>2, <1>3, <1>6, LaneType DEF Answered, PostEnds
<1> QED BY <1>1, <1>2, <1>5, <1>6 DEF Answered

LEMMA LanesStep ==
  ASSUME IInv, [GatewayNext]_gatewayVars
  PROVE  LanesOK'
<1> USE DEF IInv
<1>1. /\ head \in [Tasks -> Nat] /\ posting \subseteq Events
      /\ emitted \in [Tasks -> Seq(Payloads)]
      /\ \A t \in Tasks : head[t] \in Nat /\ Len(emitted[t]) \in Nat
      /\ \A e \in Events : e.task \in Tasks /\ e.n \in Nat \ {0} /\ e = Event(e.task, e.n)
      /\ \A t \in Tasks : HeadOf(t) \in Events /\ HeadOf(t) = Event(t, head[t] + 1)
  BY LaneType
<1>2. ASSUME NEW t \in Tasks, NEW p \in Payloads, Emit(t, p)
      PROVE  LanesOK'
  <2>1. \A u \in Tasks : Len(emitted'[u]) \in Nat /\ Len(emitted'[u]) >= Len(emitted[u])
    <3> SUFFICES ASSUME NEW u \in Tasks
                 PROVE  Len(emitted'[u]) \in Nat /\ Len(emitted'[u]) >= Len(emitted[u])
      OBVIOUS
    <3>1. emitted[u] \in Seq(Payloads) /\ emitted'[u] \in {emitted[u], Append(emitted[u], p)}
      BY <1>1, <1>2 DEF Emit
    <3> QED BY <3>1
  <2>2. UNCHANGED <<head, posting, late>>
    BY <1>2 DEF Emit
  <2>3. \A e \in posting : e.n <= Len(emitted'[e.task])
    BY <1>1, <2>1 DEF LanesOK
  <2>4. \A u \in Tasks : head[u] <= Len(emitted'[u])
    BY <1>1, <2>1 DEF LanesOK
  <2> QED BY <2>2, <2>3, <2>4 DEF LanesOK
<1>3. ASSUME NEW t \in Tasks, Post(t)
      PROVE  LanesOK'
  <2>1. /\ posting' = posting \union {HeadOf(t)} /\ head[t] < Len(emitted[t])
        /\ UNCHANGED <<emitted, head, late>>
    BY <1>3 DEF Post
  <2>2. HeadOf(t).task = t /\ HeadOf(t).n = head[t] + 1
    BY DEF HeadOf
  <2>3. HeadOf(t).n <= Len(emitted[t]) /\ ~(HeadOf(t).n <= head[t])
    BY <1>1, <2>1, <2>2
  <2> QED BY <1>1, <2>1, <2>2, <2>3 DEF LanesOK
<1>4. ASSUME NEW e, PostEnds(e)
      PROVE  LanesOK'
  <2>1. /\ e \in posting /\ posting' = posting \ {e} /\ late' = late /\ emitted' = emitted
        /\ head' = head \/ /\ e = HeadOf(e.task)
                           /\ head'[e.task] = head[e.task] + 1
                           /\ \A u \in Tasks : u # e.task => head'[u] = head[u]
    BY <1>4 DEF PostEnds
  <2>2. CASE head' = head
    BY <2>1, <2>2 DEF LanesOK
  <2>3. CASE /\ e = HeadOf(e.task)
             /\ head'[e.task] = head[e.task] + 1
             /\ \A u \in Tasks : u # e.task => head'[u] = head[u]
    <3>1. e.task \in Tasks /\ e.n = head[e.task] + 1
      BY <1>1, <2>1, <2>3 DEF HeadOf
    <3>2. \A u \in Tasks : head'[u] <= Len(emitted[u])
      BY <1>1, <2>1, <2>3, <3>1 DEF LanesOK
    <3>3. ASSUME NEW f \in posting'
          PROVE  /\ f.n <= Len(emitted[f.task]) /\ f.n <= head'[f.task] + 1
                 /\ f.n <= head'[f.task] => f \in late
      <4>1. /\ f \in posting /\ f # e /\ f.task \in Tasks /\ f.n \in Nat
            /\ f = Event(f.task, f.n) /\ e = Event(e.task, e.n)
        BY <1>1, <2>1
      <4>2. /\ f.n <= Len(emitted[f.task]) /\ f.n <= head[f.task] + 1
            /\ f.n <= head[f.task] => f \in late
        BY <4>1 DEF LanesOK
      <4>3. CASE f.task # e.task
        BY <2>3, <4>1, <4>2, <4>3
      <4>4. CASE f.task = e.task
        <5>1. f.n # e.n
          BY <4>1, <4>4
        <5> QED BY <1>1, <2>3, <3>1, <4>1, <4>2, <4>4, <5>1
      <4> QED BY <4>3, <4>4
    <3> QED BY <2>1, <3>2, <3>3 DEF LanesOK
  <2> QED BY <2>1, <2>2, <2>3
<1>5. ASSUME NEW t \in Tasks, GiveUp(t)
      PROVE  LanesOK'
  <2>1. /\ Advance(t) /\ HeadOf(t) \in posting /\ late' = late \union {HeadOf(t)}
        /\ UNCHANGED <<emitted, posting>>
    BY <1>5 DEF GiveUp
  <2>2. head'[t] = head[t] + 1 /\ \A u \in Tasks : u # t => head'[u] = head[u]
    BY <2>1, AdvancedLane
  <2>3. HeadOf(t).task = t /\ HeadOf(t).n = head[t] + 1
    BY DEF HeadOf
  <2>4. \A u \in Tasks : head'[u] <= Len(emitted[u])
    BY <1>1, <2>1, <2>2, <2>3 DEF LanesOK
  <2>5. ASSUME NEW f \in posting
        PROVE  /\ f.n <= Len(emitted[f.task]) /\ f.n <= head'[f.task] + 1
               /\ f.n <= head'[f.task] => f \in late'
    <3>1. /\ f.task \in Tasks /\ f.n \in Nat /\ f = Event(f.task, f.n)
          /\ f.n <= Len(emitted[f.task]) /\ f.n <= head[f.task] + 1
          /\ f.n <= head[f.task] => f \in late
      BY <1>1 DEF LanesOK
    <3>2. CASE f.task # t
      BY <2>1, <2>2, <3>1, <3>2
    <3>3. CASE f.task = t /\ f.n # head[t] + 1
      BY <1>1, <2>1, <2>2, <3>1, <3>3
    <3>4. CASE f.task = t /\ f.n = head[t] + 1
      <4>1. f = HeadOf(t)
        BY <1>1, <3>1, <3>4
      <4> QED BY <1>1, <2>1, <2>2, <3>1, <3>4, <4>1
    <3> QED BY <3>2, <3>3, <3>4
  <2> QED BY <2>1, <2>4, <2>5 DEF LanesOK
<1>6. ASSUME NEW h \in handlers, Broadcast(h)
      PROVE  LanesOK'
  <2>1. CASE ~h.waited
    BY <1>6, <2>1 DEF Broadcast, LanesOK
  <2> QED BY <1>4, <1>6, <2>1, PostAnswered
<1>7. ASSUME NEW h \in handlers, AppendEvent(h)
      PROVE  LanesOK'
  BY <1>7 DEF AppendEvent, LanesOK, laneVars
<1>8. CASE ClientStep \/ UNCHANGED gatewayVars
  BY <1>8, ClientFrame DEF LanesOK, gatewayVars, laneVars
<1>9. CASE GatewayCrash
  BY <1>9 DEF GatewayCrash, LanesOK, laneVars
<1>10. ASSUME NEW e \in posting, LosePost(e) \/ FailPost(e)
       PROVE  LanesOK'
  BY <1>4, <1>10, PostLost
<1> QED BY <1>2, <1>3, <1>5, <1>6, <1>7, <1>8, <1>9, <1>10 DEF GatewayNext, ClientStep

LEMMA HandlersStep ==
  ASSUME IInv, [GatewayNext]_gatewayVars
  PROVE  HandlersOK'
<1> USE DEF IInv
<1>1. /\ posting \subseteq Events /\ log \in Seq(Events) /\ handlers \subseteq Handler
      /\ \A e \in Events : e.task \in Tasks /\ e.n \in Nat \ {0} /\ e = Event(e.task, e.n)
      /\ \A t \in Tasks : HeadOf(t) = Event(t, head[t] + 1)
  BY HandlerType, LaneType DEF GatewayTypeOK
<1>2. ASSUME NEW t \in Tasks, (\E p \in Payloads : Emit(t, p)) \/ GiveUp(t)
      PROVE  HandlersOK'
  BY <1>2 DEF Emit, GiveUp, HandlersOK, storeVars
<1>3. ASSUME NEW t \in Tasks, Post(t)
      PROVE  HandlersOK'
  <2> DEFINE new == [task |-> t, n |-> head[t] + 1, id |-> 0, waited |-> TRUE]
  <2>1. handlers' = handlers \union {new} /\ log' = log
        /\ posting' = posting \union {HeadOf(t)} /\ HeadOf(t) \notin posting
    BY <1>3 DEF Post
  <2>2. Event(new.task, new.n) = HeadOf(t) /\ new.id = 0 /\ new.waited
    BY <1>1
  <2> HIDE DEF new
  <2>3. \A h \in handlers : h.waited => Event(h.task, h.n) \in posting
    BY DEF HandlersOK
  <2>4. \A h \in handlers : h.waited => ~(h.task = new.task /\ h.n = new.n)
    BY <2>1, <2>2, <2>3
  <2>5. \A h \in handlers' : h.waited => Event(h.task, h.n) \in posting'
    BY <2>1, <2>2, <2>3
  <2>6. /\ \A h \in handlers' : h.id = 0 => h.waited
        /\ \A h \in handlers' : h.id # 0 => h \in handlers
    BY <2>1, <2>2 DEF HandlersOK
  <2>7. \A h \in handlers' : h.id # 0 => h.id <= Len(log') /\ log'[h.id] = Event(h.task, h.n)
    BY <2>1, <2>6 DEF HandlersOK
  <2>8. \A g, h \in handlers' : g.waited /\ h.waited /\ g.task = h.task /\ g.n = h.n => g = h
    BY <2>1, <2>4 DEF HandlersOK
  <2> QED BY <2>5, <2>6, <2>7, <2>8 DEF HandlersOK
<1>4. ASSUME NEW e \in posting, LosePost(e)
      PROVE  HandlersOK'
  <2>1. handlers' = Abandoned(e) /\ log' = log /\ posting' = posting \ {e} /\ e \in Events
    BY <1>1, <1>4 DEF LosePost, Retried
  <2>2. \A h \in handlers' : h.waited => h \in handlers /\ Event(h.task, h.n) # e
    BY <1>1, <2>1, AbandonedHandlers
  <2>3. \A h \in handlers' : h.waited => Event(h.task, h.n) \in posting'
    BY <2>1, <2>2 DEF HandlersOK
  <2>4. \A h \in handlers' : h.id = 0 => h.waited
    BY <1>1, <2>1, AbandonedHandlers DEF HandlersOK
  <2>5. \A h \in handlers' : h.id # 0 => h.id <= Len(log) /\ log[h.id] = Event(h.task, h.n)
    <3> SUFFICES ASSUME NEW h \in handlers', h.id # 0
                 PROVE  h.id <= Len(log) /\ log[h.id] = Event(h.task, h.n)
      OBVIOUS
    <3>1. \E g \in handlers : g.task = h.task /\ g.n = h.n /\ g.id = h.id
      BY <1>1, <2>1, AbandonedHandlers
    <3>2. PICK g \in handlers : g.task = h.task /\ g.n = h.n /\ g.id = h.id
      BY <3>1
    <3>3. g.id <= Len(log) /\ log[g.id] = Event(g.task, g.n)
      BY <3>2 DEF HandlersOK
    <3> QED BY <3>2, <3>3
  <2>6. \A g, h \in handlers' : g.waited /\ h.waited /\ g.task = h.task /\ g.n = h.n => g = h
    BY <2>2 DEF HandlersOK
  <2> QED BY <2>1, <2>3, <2>4, <2>5, <2>6 DEF HandlersOK
<1>5. ASSUME NEW e \in posting, FailPost(e)
      PROVE  HandlersOK'
  <2>1. handlers' = handlers /\ log' = log /\ posting' = posting \ {e}
    BY <1>5 DEF FailPost, Retried, storeVars
  <2>2. \A h \in handlers : h.waited => Event(h.task, h.n) # e
    BY <1>5 DEF FailPost, Awaited, Event
  <2> QED BY <2>1, <2>2 DEF HandlersOK
<1>6. ASSUME NEW h \in handlers, AppendEvent(h)
      PROVE  HandlersOK'
  <2> DEFINE new == [h EXCEPT !.id = Len(log) + 1]
  <2>1. handlers' = (handlers \ {h}) \union {new} /\ log' = Append(log, Event(h.task, h.n))
        /\ h.id = 0 /\ posting' = posting
    BY <1>6 DEF AppendEvent, laneVars, Event
  <2>2. h \in Handler /\ h.waited
    BY <1>1, <2>1 DEF HandlersOK
  <2>3. Len(log) \in Nat
    BY <1>1
  <2>4. new.task = h.task /\ new.n = h.n /\ new.id = Len(log) + 1 /\ new.waited
    BY <2>2 DEF Handler
  <2>5. Event(h.task, h.n) \in Events
    BY <2>2 DEF Handler, Event, Events
  <2>6. /\ Len(log') = Len(log) + 1 /\ log'[Len(log) + 1] = Event(h.task, h.n)
        /\ \A i \in 1..Len(log) : log'[i] = log[i]
    BY <1>1, <2>1, <2>5
  <2>7. \A g \in handlers : g.id \in Nat
    BY <1>1 DEF Handler
  <2>8. \A g \in handlers' : g.id # 0 => g.id <= Len(log') /\ log'[g.id] = Event(g.task, g.n)
    <3>1. ASSUME NEW g \in handlers, g.id # 0
          PROVE  g.id <= Len(log') /\ log'[g.id] = Event(g.task, g.n)
      <4>1. g.id <= Len(log) /\ log[g.id] = Event(g.task, g.n) /\ g.id \in Nat
        BY <2>7, <3>1 DEF HandlersOK
      <4>2. g.id \in 1..Len(log)
        BY <2>3, <3>1, <4>1
      <4> QED BY <2>3, <2>6, <4>1, <4>2
    <3>2. new.id <= Len(log') /\ log'[new.id] = Event(new.task, new.n)
      BY <2>3, <2>4, <2>6
    <3> HIDE DEF new
    <3> QED BY <2>1, <3>1, <3>2
  <2> HIDE DEF new
  <2>9. /\ \A g \in handlers' : g.waited => Event(g.task, g.n) \in posting'
        /\ \A g \in handlers' : g.id = 0 => g.waited
    BY <2>1, <2>2, <2>4 DEF HandlersOK
  <2>10. \A g, k \in handlers' : g.waited /\ k.waited /\ g.task = k.task /\ g.n = k.n => g = k
    BY <2>1, <2>2, <2>4 DEF HandlersOK
  <2> QED BY <2>8, <2>9, <2>10 DEF HandlersOK
<1>7. ASSUME NEW h \in handlers, Broadcast(h)
      PROVE  HandlersOK'
  <2>1. handlers' = handlers \ {h} /\ log' = log
    BY <1>7 DEF Broadcast
  <2>2. CASE ~h.waited
    BY <1>7, <2>1, <2>2 DEF Broadcast, HandlersOK
  <2>3. CASE h.waited
    <3>1. posting' = posting \ {Event(h.task, h.n)}
      BY <1>7, <2>3, PostAnswered DEF PostEnds
    <3>2. \A g \in handlers' : g.waited => Event(g.task, g.n) # Event(h.task, h.n)
      BY <2>1, <2>3 DEF HandlersOK, Event
    <3> QED BY <2>1, <3>1, <3>2 DEF HandlersOK
  <2> QED BY <2>2, <2>3
<1>8. CASE ClientStep \/ UNCHANGED gatewayVars
  BY <1>8, ClientFrame DEF HandlersOK, gatewayVars, laneVars, storeVars
<1>9. CASE GatewayCrash
  BY <1>9 DEF GatewayCrash, HandlersOK
<1> QED BY <1>2, <1>3, <1>4, <1>5, <1>6, <1>7, <1>8, <1>9 DEF GatewayNext, ClientStep

LEMMA LogType ==
  ASSUME GatewayTypeOK
  PROVE  /\ log \in Seq(Events) /\ Len(log) \in Nat /\ pruned \in Nat
         /\ \A i \in 1..Len(log) : log[i] \in Events /\ log[i].task \in Tasks /\ log[i].n \in Nat \ {0}
<1>1. log \in Seq(Events) /\ pruned \in Nat
  BY DEF GatewayTypeOK
<1>2. Len(log) \in Nat
  BY <1>1
<1>3. ASSUME NEW i \in 1..Len(log)
      PROVE  log[i] \in Events
  BY <1>1, ElementOfSeq
<1>4. ASSUME NEW e \in Events
      PROVE  e.task \in Tasks /\ e.n \in Nat \ {0}
  BY DEF Events
<1> QED BY <1>1, <1>2, <1>3, <1>4

\* A lane's head only goes forward, and a job that was closed under its POST stays so.
LEMMA HeadGrows ==
  ASSUME IInv, [GatewayNext]_gatewayVars
  PROVE  /\ \A t \in Tasks : head[t] \in Nat /\ head'[t] \in Nat /\ head'[t] >= head[t]
         /\ late \subseteq late'
<1>1. head \in [Tasks -> Nat] /\ \A t \in Tasks : head[t] \in Nat
  BY LaneType DEF IInv
<1> DEFINE Grows == (\A t \in Tasks : head'[t] \in Nat /\ head'[t] >= head[t]) /\ late \subseteq late'
<1>2. ASSUME NEW e, PostEnds(e)
      PROVE  Grows
  <2>1. \A u \in Tasks : head'[u] \in {head[u], head[u] + 1}
    BY <1>2 DEF PostEnds
  <2> QED BY <1>1, <1>2, <2>1 DEF PostEnds
<1>3. ASSUME NEW h \in handlers, Broadcast(h)
      PROVE  Grows
  <2>1. CASE ~h.waited
    BY <1>1, <1>3, <2>1 DEF Broadcast
  <2> QED BY <1>2, <1>3, <2>1, PostAnswered
<1>4. ASSUME NEW t \in Tasks, NEW p \in Payloads, Emit(t, p)
      PROVE  Grows
  BY <1>1, <1>4 DEF Emit
<1>5. ASSUME NEW t \in Tasks, Post(t)
      PROVE  Grows
  BY <1>1, <1>5 DEF Post
<1>6. ASSUME NEW h \in handlers, AppendEvent(h)
      PROVE  Grows
  BY <1>1, <1>6 DEF AppendEvent, laneVars
<1>7. CASE ClientStep \/ UNCHANGED gatewayVars
  BY <1>1, <1>7, ClientFrame DEF gatewayVars, laneVars
<1>8. CASE GatewayCrash
  BY <1>1, <1>8 DEF GatewayCrash, laneVars
<1>9. ASSUME NEW t \in Tasks, GiveUp(t)
      PROVE  Grows
  <2>1. head'[t] = head[t] + 1 /\ \A u \in Tasks : u # t => head'[u] = head[u]
    BY <1>9, AdvancedLane DEF GiveUp, IInv
  <2> QED BY <1>1, <1>9, <2>1 DEF GiveUp
<1>10. ASSUME NEW e \in posting, LosePost(e) \/ FailPost(e)
       PROVE  Grows
  BY <1>2, <1>10, PostLost DEF IInv
<1>11. Grows
  BY <1>3, <1>4, <1>5, <1>6, <1>7, <1>8, <1>9, <1>10 DEF GatewayNext, ClientStep
<1> QED BY <1>1, <1>11

\* So does what was published for a task.
LEMMA EmittedGrows ==
  ASSUME IInv, [GatewayNext]_gatewayVars
  PROVE  \A t \in Tasks : /\ Len(emitted[t]) \in Nat /\ Len(emitted'[t]) \in Nat
                          /\ Len(emitted'[t]) >= Len(emitted[t])
<1>1. \A t \in Tasks : emitted[t] \in Seq(Payloads)
  BY DEF IInv, GatewayTypeOK
<1>2. ASSUME NEW t \in Tasks, NEW p \in Payloads, Emit(t, p), NEW u \in Tasks
      PROVE  Len(emitted'[u]) \in Nat /\ Len(emitted'[u]) >= Len(emitted[u])
  <2>1. emitted \in [Tasks -> Seq(Payloads)]
    BY DEF IInv, GatewayTypeOK
  <2>2. emitted[u] \in Seq(Payloads) /\ emitted'[u] \in {emitted[u], Append(emitted[u], p)}
    BY <1>2, <2>1 DEF Emit
  <2> QED BY <2>2
<1>3. CASE ~\E t \in Tasks, p \in Payloads : Emit(t, p)
  <2>1. emitted' = emitted
    <3>1. ASSUME NEW t \in Tasks, Post(t) \/ GiveUp(t)
          PROVE  emitted' = emitted
      BY <3>1 DEF Post, GiveUp
    <3>2. ASSUME NEW h \in handlers, AppendEvent(h) \/ Broadcast(h)
          PROVE  emitted' = emitted
      BY <3>2 DEF AppendEvent, Broadcast, laneVars
    <3>3. CASE ClientStep \/ UNCHANGED gatewayVars \/ GatewayCrash
      BY <3>3, ClientFrame DEF gatewayVars, laneVars, GatewayCrash
    <3>4. ASSUME NEW e \in posting, LosePost(e) \/ FailPost(e)
          PROVE  emitted' = emitted
      BY <3>4 DEF LosePost, FailPost
    <3> QED BY <1>3, <3>1, <3>2, <3>3, <3>4 DEF GatewayNext, ClientStep
  <2> QED BY <1>1, <2>1
<1> QED BY <1>1, <1>2, <1>3

\* The table changes by one event at its end, that of a handler whose client waits.
LEMMA LogGrows ==
  ASSUME IInv, [GatewayNext]_gatewayVars
  PROVE  \/ log' = log
         \/ \E h \in handlers : /\ Event(h.task, h.n) \in posting
                                /\ UNCHANGED laneVars
                                /\ log' = Append(log, Event(h.task, h.n))
<1>1. ASSUME NEW h \in handlers, AppendEvent(h)
      PROVE  /\ Event(h.task, h.n) \in posting
             /\ UNCHANGED laneVars
             /\ log' = Append(log, Event(h.task, h.n))
  <2>1. h.id = 0 /\ log' = Append(log, Event(h.task, h.n)) /\ UNCHANGED laneVars
    BY <1>1 DEF AppendEvent, Event
  <2>2. Event(h.task, h.n) \in posting
    BY <2>1 DEF IInv, HandlersOK
  <2> QED BY <2>1, <2>2
<1>2. ASSUME NEW t \in Tasks, (\E p \in Payloads : Emit(t, p)) \/ Post(t) \/ GiveUp(t)
      PROVE  log' = log
  BY <1>2 DEF Emit, Post, GiveUp, storeVars
<1>3. ASSUME NEW e \in posting, LosePost(e) \/ FailPost(e)
      PROVE  log' = log
  BY <1>3 DEF LosePost, FailPost, storeVars
<1>4. ASSUME NEW h \in handlers, Broadcast(h)
      PROVE  log' = log
  BY <1>4 DEF Broadcast
<1>5. CASE ClientStep \/ UNCHANGED gatewayVars \/ GatewayCrash
  BY <1>5, ClientFrame DEF gatewayVars, storeVars, GatewayCrash
<1> QED BY <1>1, <1>2, <1>3, <1>4, <1>5 DEF GatewayNext, ClientStep

LEMMA LogStep ==
  ASSUME IInv, [GatewayNext]_gatewayVars
  PROVE  LogOK'
<1> USE DEF IInv
<1>1. /\ \A t \in Tasks : head[t] \in Nat /\ head'[t] \in Nat /\ head'[t] >= head[t]
      /\ late \subseteq late'
  BY HeadGrows
<1>2. \A t \in Tasks : /\ Len(emitted[t]) \in Nat /\ Len(emitted'[t]) \in Nat
                       /\ Len(emitted'[t]) >= Len(emitted[t])
  BY EmittedGrows
<1>3. /\ log \in Seq(Events) /\ Len(log) \in Nat
      /\ \A i \in 1..Len(log) : log[i].task \in Tasks /\ log[i].n \in Nat
  BY LogType
<1>4. CASE log' = log
  <2>1. ASSUME NEW i \in 1..Len(log)
        PROVE  log[i].n <= head'[log[i].task] + 1 /\ log[i].n <= Len(emitted'[log[i].task])
    <3>1. log[i].n <= head[log[i].task] + 1 /\ log[i].n <= Len(emitted[log[i].task])
      BY DEF LogOK
    <3> QED BY <1>1, <1>2, <1>3, <3>1
  <2>2. \A i, j \in 1..Len(log) :
          i <= j /\ log[i].task = log[j].task => log[i].n <= log[j].n \/ log[j] \in late'
    BY <1>1 DEF LogOK
  <2> QED BY <1>4, <2>1, <2>2 DEF LogOK
<1>5. ASSUME NEW e \in posting, UNCHANGED laneVars, log' = Append(log, e)
      PROVE  LogOK'
  <2>1. e \in Events /\ e.task \in Tasks /\ e.n \in Nat
    BY LaneType
  <2>2. head' = head /\ emitted' = emitted /\ late' = late
    BY <1>5 DEF laneVars
  <2>3. /\ Len(log') = Len(log) + 1 /\ log'[Len(log) + 1] = e
        /\ \A i \in 1..Len(log) : log'[i] = log[i]
    BY <1>3, <1>5, <2>1
  <2>4. \A i \in 1..Len(log) : log[i].n <= head[log[i].task] + 1
                                /\ log[i].n <= Len(emitted[log[i].task])
    BY DEF LogOK
  <2>5. /\ e.n <= Len(emitted[e.task]) /\ e.n <= head[e.task] + 1
        /\ e.n <= head[e.task] => e \in late
    BY DEF LanesOK
  <2>6. \A i \in 1..Len(log') : log'[i].n <= head'[log'[i].task] + 1
                                 /\ log'[i].n <= Len(emitted'[log'[i].task])
    BY <1>1, <1>3, <2>1, <2>2, <2>3, <2>4, <2>5
  <2>7. ASSUME NEW i \in 1..Len(log'), NEW j \in 1..Len(log'), i <= j,
               log'[i].task = log'[j].task
        PROVE  log'[i].n <= log'[j].n \/ log'[j] \in late'
    <3>1. CASE j = Len(log) + 1 /\ i \in 1..Len(log)
      <4>1. log'[i] = log[i] /\ log'[j] = e /\ log[i].task = e.task
            /\ log[i].n \in Nat /\ log[i].n <= head[e.task] + 1
        BY <1>3, <2>3, <2>4, <2>7, <3>1
      <4>2. log[i].n <= e.n \/ e.n <= head[e.task]
        BY <1>1, <2>1, <4>1
      <4> QED BY <2>2, <2>5, <4>1, <4>2
    <3>2. CASE i = Len(log) + 1
      BY <1>3, <2>1, <2>3, <2>7, <3>2
    <3>3. CASE j \in 1..Len(log) /\ i \in 1..Len(log)
      BY <2>2, <2>3, <2>7, <3>3 DEF LogOK
    <3> QED BY <1>3, <2>3, <2>7, <3>1, <3>2, <3>3
  <2> QED BY <2>6, <2>7 DEF LogOK
<1> QED BY <1>4, <1>5, LogGrows

-----------------------------------------------------------------------------
(* The connection. *)

LEMMA ConnStep ==
  ASSUME IInv, [GatewayNext]_gatewayVars
  PROVE  ConnOK'
<1> USE DEF IInv
<1>1. /\ conn \in Connection /\ cursor \in Nat /\ last \in [Tasks -> Nat]
      /\ handlers \subseteq Handler
  BY HandlerType DEF GatewayTypeOK
<1>2. /\ log \in Seq(Events) /\ Len(log) \in Nat
      /\ \A i \in 1..Len(log) : log[i].task \in Tasks /\ log[i].n \in Nat
  BY LogType
<1>3. ASSUME log' = log, UNCHANGED clientVars
      PROVE  ConnOK'
  BY <1>3 DEF ConnOK, clientVars
<1>4. ASSUME NEW e \in Events, log' = Append(log, e), conn' = conn, cursor' = cursor, last' = last
      PROVE  ConnOK'
  <2>1. /\ Len(log') = Len(log) + 1
        /\ \A i \in 1..Len(log) : i \in 1..Len(log') /\ log'[i] = log[i]
    BY <1>2, <1>4
  <2>2. conn.replay \in Seq(1..Len(log')) /\ conn.queue \in Seq(1..Len(log'))
    BY <2>1, SeqWider DEF ConnOK
  <2>3. cursor <= Len(log')
    BY <1>1, <1>2, <2>1 DEF ConnOK
  <2> QED BY <1>4, <2>1, <2>2, <2>3 DEF ConnOK
<1>5. ASSUME NEW h \in handlers, Broadcast(h)
      PROVE  ConnOK'
  <2>1. conn' = Offered(conn, h.id) /\ log' = log /\ cursor' = cursor /\ last' = last /\ h.id # 0
    BY <1>5 DEF Broadcast
  <2>2. h.id \in Nat
    BY <1>1 DEF Handler
  <2>3. h.id \in 1..Len(log)
    BY <1>2, <2>1, <2>2 DEF HandlersOK
  <2>4. /\ conn'.phase = conn.phase /\ conn'.replay = conn.replay /\ conn'.sent = conn.sent
        /\ conn'.queue \in {conn.queue, Append(conn.queue, h.id)}
        /\ ~conn.open => conn' = conn
    BY <1>1, <2>1, <2>2, OfferedConnection
  <2>5. conn'.queue \in Seq(1..Len(log))
    <3>1. conn.queue \in Seq(1..Len(log))
      BY DEF ConnOK
    <3>2. Append(conn.queue, h.id) \in Seq(1..Len(log))
      BY <2>3, <3>1, AppendProperties
    <3> QED BY <2>4, <3>1, <3>2
  <2> QED BY <2>1, <2>4, <2>5 DEF ConnOK
<1>6. ASSUME log' = log, cursor' = cursor, last' = last,
             conn' = Off \/ conn' = [Off EXCEPT !.phase = "refused"]
      PROVE  ConnOK'
  <2>1. /\ conn'.phase \in {"off", "refused"} /\ conn'.replay = <<>> /\ conn'.queue = <<>>
        /\ ~conn'.open
    BY <1>6 DEF Off
  <2> QED BY <1>6, <2>1 DEF ConnOK
<1>7. CASE Connect
  <2>1. /\ conn'.phase = "asked" /\ conn'.replay = <<>> /\ conn'.queue = <<>>
        /\ conn'.sent = StartFrom /\ log' = log /\ cursor' = cursor /\ last' = last
    BY <1>7 DEF Connect, Off, storeVars
  <2>2. cursor <= StartFrom
    BY <1>1, <1>2 DEF StartFrom, LatestID
  <2> QED BY <2>1, <2>2 DEF ConnOK
<1>8. CASE Subscribe
  <2>1. /\ conn.phase = "asked" /\ conn'.phase = "subscribed" /\ conn'.replay = conn.replay
        /\ conn'.queue = conn.queue
        /\ conn'.sent = conn.sent /\ log' = log /\ cursor' = cursor /\ last' = last
    BY <1>1, <1>8 DEF Subscribe, Connection, storeVars
  <2> QED BY <2>1 DEF ConnOK
<1>9. CASE List
  <2>1. /\ conn.phase = "subscribed" /\ conn'.phase = "live"
        /\ conn'.replay = ListedAfter(Kept(conn.from)) /\ conn'.queue = conn.queue
        /\ conn'.sent = conn.sent /\ log' = log /\ cursor' = cursor /\ last' = last
    BY <1>1, <1>9 DEF List, Connection, storeVars
  <2> DEFINE from == Kept(conn.from)
  <2>2. from \in Nat
    BY <1>1, LogType DEF Connection, Kept
  <2> HIDE DEF from
  <2>3. ListedAfter(from) \in Seq(1..Len(log))
    <3> DEFINE ids == ListedAfter(from)
    <3>1. /\ ids \in Seq(Nat) /\ (from + Len(ids) <= Len(log) \/ ids = <<>>)
          /\ \A i \in 1..Len(ids) : ids[i] = from + i
      BY <1>2, <2>2, Listed
    <3> HIDE DEF ids
    <3>2. \A i \in 1..Len(ids) : ids[i] \in 1..Len(log)
      BY <1>2, <2>2, <3>1
    <3> QED BY <3>1, <3>2 DEF ids
  <2> QED BY <2>1, <2>3 DEF ConnOK, from
<1>10. ASSUME conn.phase = "live", Pending(conn) # <<>>
       PROVE  /\ TakeNext(conn) \in Connection
              /\ TakeNext(conn).phase = "live" /\ TakeNext(conn).sent = conn.sent
              /\ TakeNext(conn).replay \in Seq(1..Len(log))
              /\ TakeNext(conn).queue \in Seq(1..Len(log))
              /\ Head(Pending(conn)) \in 1..Len(log)
  BY <1>1, <1>10, TakenConnection, PendingIds DEF ConnOK
<1>11. CASE Send
  <2> DEFINE id == Head(Pending(conn))
             c == TakeNext(conn)
  <2>1. /\ conn.phase = "live" /\ Pending(conn) # <<>> /\ id > conn.sent
        /\ conn' = [c EXCEPT !.sent = id] /\ cursor' = id /\ log' = log
        /\ last' = last \/ last' = [last EXCEPT ![log[id].task] = log[id].n]
    BY <1>11 DEF Send, Written, storeVars
  <2>2. /\ c \in Connection /\ c.phase = "live" /\ id \in 1..Len(log)
        /\ c.replay \in Seq(1..Len(log)) /\ c.queue \in Seq(1..Len(log))
    BY <1>10, <2>1
  <2> HIDE DEF c, id
  <2>3. /\ conn'.phase = "live" /\ conn'.sent = id /\ conn'.replay \in Seq(1..Len(log))
        /\ conn'.queue \in Seq(1..Len(log))
    BY <2>1, <2>2 DEF Connection
  <2>4. cursor < id
    BY <1>1, <2>1, <2>2, <1>2 DEF ConnOK, Connection
  <2>5. ASSUME NEW t \in Tasks
        PROVE  last'[t] = 0 \/ \E i \in 1..Len(log) : i <= id /\ log[i] = Event(t, last'[t])
    <3>1. CASE t = log[id].task /\ last' # last
      <4>1. last'[t] = log[id].n
        BY <1>1, <2>1, <3>1
      <4>2. log[id] \in Events
        BY <1>2, <2>2, ElementOfSeq
      <4>3. log[id] = Event(log[id].task, log[id].n)
        BY <4>2 DEF Events, Event
      <4> QED BY <1>2, <2>2, <3>1, <4>1, <4>3
    <3>2. CASE t # log[id].task \/ last' = last
      <4>1. last'[t] = last[t]
        BY <1>1, <2>1, <3>2
      <4>2. last[t] = 0 \/ \E i \in 1..Len(log) : i <= cursor /\ log[i] = Event(t, last[t])
        BY DEF ConnOK
      <4> QED BY <1>1, <1>2, <2>2, <2>4, <4>1, <4>2
    <3> QED BY <3>1, <3>2
  <2>6. id <= Len(log) /\ id <= id
    BY <1>2, <2>2
  <2> QED BY <2>1, <2>3, <2>5, <2>6 DEF ConnOK
<1>12. CASE Skip
  <2>1. /\ conn.phase = "live" /\ Pending(conn) # <<>> /\ conn' = TakeNext(conn)
        /\ cursor' = cursor /\ last' = last /\ log' = log
    BY <1>12 DEF Skip, storeVars
  <2> QED BY <1>10, <2>1 DEF ConnOK
<1>13. CASE EndStream \/ Disconnect \/ Refuse \/ Reopen
  <2>1. /\ log' = log /\ cursor' = cursor /\ last' = last
        /\ conn' = Off \/ conn' = [Off EXCEPT !.phase = "refused"]
    BY <1>13 DEF EndStream, Disconnect, Refuse, Reopen, storeVars
  <2> QED BY <1>6, <2>1
<1>14. CASE GatewayCrash
  <2>1. log' = log /\ cursor' = cursor /\ last' = last /\ (conn' = conn \/ conn' = Off)
    BY <1>14 DEF GatewayCrash
  <2>2. CASE conn' = conn
    BY <2>1, <2>2 DEF ConnOK
  <2> QED BY <1>6, <2>1, <2>2
<1>15. ASSUME NEW t \in Tasks, (\E p \in Payloads : Emit(t, p)) \/ Post(t) \/ GiveUp(t)
       PROVE  ConnOK'
  BY <1>3, <1>15 DEF Emit, Post, GiveUp, storeVars
<1>16. ASSUME NEW h \in handlers, AppendEvent(h)
       PROVE  ConnOK'
  <2>1. log' = Append(log, Event(h.task, h.n)) /\ UNCHANGED clientVars
    BY <1>16 DEF AppendEvent, Event
  <2>2. Event(h.task, h.n) \in Events
    BY <1>1 DEF Handler, Event, Events
  <2> QED BY <1>4, <2>1, <2>2 DEF clientVars
<1>17. CASE UNCHANGED gatewayVars
  BY <1>3, <1>17 DEF gatewayVars, storeVars
<1>18. CASE Prune
  BY <1>3, <1>18 DEF Prune
<1>19. ASSUME NEW e \in posting, LosePost(e) \/ FailPost(e)
       PROVE  ConnOK'
  BY <1>3, <1>19 DEF LosePost, FailPost, storeVars
<1> QED BY <1>5, <1>7, <1>8, <1>9, <1>11, <1>12, <1>13, <1>14, <1>15, <1>16, <1>17, <1>18, <1>19
        DEF GatewayNext

LEMMA TypeStep ==
  ASSUME IInv, [GatewayNext]_gatewayVars
  PROVE  GatewayTypeOK'
<1> USE DEF IInv
<1>1. /\ handlers \subseteq Handler /\ conn \in Connection
      /\ emitted \in [Tasks -> Seq(Payloads)] /\ head \in [Tasks -> Nat]
      /\ tries \in [Tasks -> Nat] /\ posting \subseteq Events /\ late \subseteq Events
      /\ overtaken \subseteq Events
      /\ \A t \in Tasks : HeadOf(t) \in Events
      /\ log \in Seq(Events) /\ cursor \in Nat /\ seen \subseteq Events
      /\ last \in [Tasks -> Nat] /\ since \in Nat /\ cut \in BOOLEAN /\ faults \in Nat
      /\ Len(log) \in Nat /\ pruned \in Nat
  BY HandlerType, LogType, LaneType DEF GatewayTypeOK
<1>2. ASSUME /\ handlers' \subseteq Handler /\ conn' \in Connection
             /\ emitted' \in [Tasks -> Seq(Payloads)] /\ head' \in [Tasks -> Nat]
             /\ tries' \in [Tasks -> Nat] /\ posting' \subseteq Events
             /\ late' \subseteq Events /\ overtaken' \subseteq Events
             /\ log' \in Seq(Events) /\ cursor' \in Nat /\ seen' \subseteq Events
             /\ last' \in [Tasks -> Nat] /\ since' \in Nat /\ cut' \in BOOLEAN
             /\ faults' \in Nat /\ pruned' \in Nat
      PROVE  GatewayTypeOK'
  BY <1>2 DEF GatewayTypeOK, Handler, Connection
<1>3. ASSUME NEW t \in Tasks, NEW p \in Payloads, Emit(t, p)
      PROVE  GatewayTypeOK'
  <2>1. emitted[t] \in Seq(Payloads) /\ emitted' = [emitted EXCEPT ![t] = Append(emitted[t], p)]
    BY <1>1, <1>3 DEF Emit
  <2>2. Append(emitted[t], p) \in Seq(Payloads)
    BY <2>1
  <2>3. emitted' \in [Tasks -> Seq(Payloads)]
    BY <1>1, <2>1, <2>2
  <2> QED BY <1>1, <1>2, <1>3, <2>3 DEF Emit, storeVars, clientVars
<1>4. ASSUME NEW t \in Tasks, Post(t)
      PROVE  GatewayTypeOK'
  <2>1. [task |-> t, n |-> head[t] + 1, id |-> 0, waited |-> TRUE] \in Handler
    BY <1>1 DEF Handler
  <2>2. handlers' \subseteq Handler
    BY <1>1, <1>4, <2>1 DEF Post
  <2>3. posting' \subseteq Events /\ tries' \in [Tasks -> Nat]
    BY <1>1, <1>4 DEF Post
  <2> QED BY <1>1, <1>2, <1>4, <2>2, <2>3 DEF Post, clientVars
<1>5. ASSUME NEW e \in posting, LosePost(e) \/ FailPost(e)
      PROVE  GatewayTypeOK'
  <2>1. /\ head' \in [Tasks -> Nat] /\ tries' \in [Tasks -> Nat] /\ posting' \subseteq Events
    BY <1>1, <1>5, PostLost DEF PostEnds
  <2>2. Abandoned(e) \subseteq Handler
    BY <1>1, AbandonedHandlers
  <2>3. handlers' \subseteq Handler /\ faults' \in Nat
    BY <1>1, <1>5, <2>2 DEF LosePost, FailPost, storeVars
  <2> QED BY <1>1, <1>2, <1>5, <2>1, <2>3 DEF LosePost, FailPost, storeVars, clientVars
<1>6. ASSUME NEW h \in handlers, AppendEvent(h)
      PROVE  GatewayTypeOK'
  <2>1. h \in Handler
    BY <1>1
  <2>2. /\ [h EXCEPT !.id = Len(log) + 1] \in Handler
        /\ Event(h.task, h.n) \in Events
    <3>1. Len(log) + 1 \in Nat
      BY <1>1
    <3>2. [h EXCEPT !.id = Len(log) + 1] \in Handler
      BY <2>1, <3>1 DEF Handler
    <3>3. Event(h.task, h.n) \in Events
      BY <2>1 DEF Handler, Event, Events
    <3> QED BY <3>2, <3>3
  <2>3. handlers' \subseteq Handler
    BY <1>1, <1>6, <2>2 DEF AppendEvent
  <2>4. log' \in Seq(Events)
    BY <1>1, <1>6, <2>2 DEF AppendEvent, Event
  <2> QED BY <1>1, <1>2, <1>6, <2>3, <2>4 DEF AppendEvent, laneVars, clientVars
<1>7. ASSUME NEW h \in handlers, Broadcast(h)
      PROVE  GatewayTypeOK'
  <2>1. h \in Handler /\ h.task \in Tasks /\ h.id \in Nat
    BY <1>1 DEF Handler
  <2>2. conn' \in Connection
    BY <1>1, <1>7, <2>1, OfferedConnection DEF Broadcast
  <2>3. /\ head' \in [Tasks -> Nat] /\ tries' \in [Tasks -> Nat]
        /\ posting' \subseteq Events
    <3>1. CASE h.waited
      BY <1>1, <1>7, <3>1, PostAnswered DEF PostEnds
    <3>2. CASE ~h.waited
      BY <1>1, <1>7, <3>2 DEF Broadcast
    <3> QED BY <3>1, <3>2
  <2>4. \A g \in Broadcasting : log[g.id] \in Events
    <3> SUFFICES ASSUME NEW g \in Broadcasting PROVE log[g.id] \in Events
      OBVIOUS
    <3>1. g \in Handler /\ g.id # 0 /\ log[g.id] = Event(g.task, g.n)
      BY <1>1 DEF Broadcasting, HandlersOK
    <3> QED BY <3>1 DEF Handler, Event, Events
  <2>5. overtaken' \subseteq Events
    BY <1>1, <1>7, <2>4 DEF Broadcast, PassedBy
  <2> QED BY <1>1, <1>2, <1>7, <2>2, <2>3, <2>5 DEF Broadcast
<1>8. CASE Connect
  <2>1. StartFrom \in Nat /\ LatestID \in Nat
    BY <1>1 DEF StartFrom, LatestID
  <2>2. since' \in Nat /\ conn' = [Off EXCEPT !.phase = "asked", !.from = StartFrom, !.sent = StartFrom]
    BY <1>1, <1>8, <2>1 DEF Connect
  <2>3. conn' \in Connection
    BY <2>1, <2>2, OffConnection DEF Connection, Phases
  <2> QED BY <1>1, <1>2, <1>8, <2>2, <2>3 DEF Connect, laneVars, storeVars
<1>9. CASE Subscribe
  <2>1. conn' \in Connection
    BY <1>1, <1>9 DEF Subscribe, Connection, Phases
  <2> QED BY <1>1, <1>2, <1>9, <2>1 DEF Subscribe, laneVars, storeVars
<1>10. CASE List
  <2>1. Kept(conn.from) \in Nat
    BY <1>1 DEF Connection, Kept
  <2>2. ListedAfter(Kept(conn.from)) \in Seq(Nat)
    BY <1>1, <2>1, Listed
  <2>3. conn' \in Connection /\ cut' \in BOOLEAN
    BY <1>1, <1>10, <2>2 DEF List, Connection, Phases
  <2> QED BY <1>1, <1>2, <1>10, <2>3 DEF List, laneVars, storeVars
<1>11. CASE Send
  <2> DEFINE id == Head(Pending(conn))
  <2>1. TakeNext(conn) \in Connection
    BY <1>1, <1>11, TakenConnection DEF Send
  <2>2. id \in 1..Len(log)
    BY <1>1, <1>11, PendingIds DEF Send, ConnOK
  <2>3. /\ conn' = [TakeNext(conn) EXCEPT !.sent = id] /\ cursor' = id
        /\ seen' = seen \union {log[id]}
        /\ last' = last \/ last' = [last EXCEPT ![log[id].task] = log[id].n]
    BY <1>11 DEF Send, Written
  <2> HIDE DEF id
  <2>4. id \in Nat
    BY <1>1, <2>2
  <2>5. log[id] \in Events
    BY <1>1, <2>2, ElementOfSeq
  <2>6. conn' \in Connection
    BY <2>1, <2>3, <2>4 DEF Connection
  <2>7. seen' \subseteq Events /\ cursor' \in Nat /\ last' \in [Tasks -> Nat]
    BY <1>1, <2>3, <2>4, <2>5 DEF Events
  <2> QED BY <1>1, <1>2, <1>11, <2>6, <2>7 DEF Send, laneVars, storeVars
<1>12. CASE Skip
  <2>1. conn' \in Connection
    BY <1>1, <1>12, TakenConnection DEF Skip
  <2> QED BY <1>1, <1>2, <1>12, <2>1 DEF Skip, laneVars, storeVars
<1>13. CASE EndStream \/ Disconnect \/ Refuse \/ Reopen \/ GatewayCrash
  <2>1. [Off EXCEPT !.phase = "refused"] \in Connection
    BY OffConnection DEF Connection, Phases
  <2>2. conn' \in Connection
    BY <1>1, <1>13, <2>1, OffConnection DEF EndStream, Disconnect, Refuse, Reopen, GatewayCrash
  <2>3. faults' \in Nat /\ handlers' \subseteq Handler
    BY <1>1, <1>13 DEF EndStream, Disconnect, Refuse, Reopen, GatewayCrash, storeVars
  <2> QED BY <1>1, <1>2, <1>13, <2>2, <2>3
          DEF EndStream, Disconnect, Refuse, Reopen, GatewayCrash, laneVars, storeVars
<1>14. CASE UNCHANGED gatewayVars
  BY <1>1, <1>2, <1>14 DEF gatewayVars, laneVars, storeVars, clientVars
<1>15. CASE Prune
  <2>1. pruned' \in Nat
    BY <1>1, <1>15 DEF Prune
  <2> QED BY <1>1, <1>2, <1>15, <2>1 DEF Prune, laneVars, clientVars
<1>16. ASSUME NEW t \in Tasks, GiveUp(t)
       PROVE  GatewayTypeOK'
  <2>1. head' \in [Tasks -> Nat] /\ tries' \in [Tasks -> Nat] /\ faults' \in Nat
    BY <1>1, <1>16, AdvancedLane DEF GiveUp
  <2> QED BY <1>1, <1>2, <1>16, <2>1 DEF GiveUp, storeVars, clientVars
<1> QED BY <1>3, <1>4, <1>5, <1>6, <1>7, <1>8, <1>9, <1>10, <1>11, <1>12, <1>13, <1>14, <1>15, <1>16
        DEF GatewayNext

LEMMA InvInit ==
  ASSUME GatewayInit
  PROVE  IInv
<1>1. GatewayTypeOK
  <2>1. conn \in Connection
    BY OffConnection DEF GatewayInit
  <2>2. /\ head \in [Tasks -> Nat] /\ tries \in [Tasks -> Nat]
        /\ last \in [Tasks -> Nat] /\ emitted \in [Tasks -> Seq(Payloads)] /\ log \in Seq(Events)
    BY EmptySeq DEF GatewayInit
  <2> QED BY <2>1, <2>2 DEF GatewayInit, GatewayTypeOK, Connection
<1>2. LanesOK /\ HandlersOK
  BY DEF GatewayInit, LanesOK, HandlersOK
<1>3. Len(log) = 0
  BY DEF GatewayInit
<1>4. LogOK
  BY <1>3 DEF LogOK
<1>5. ConnOK
  BY <1>3 DEF GatewayInit, ConnOK, Off
<1> QED BY <1>1, <1>2, <1>4, <1>5 DEF IInv

LEMMA InvAlways == GatewaySpec => []IInv
<1>1. GatewayInit => IInv
  BY InvInit
<1>2. IInv /\ [GatewayNext]_gatewayVars => IInv'
  BY LanesStep, HandlersStep, LogStep, ConnStep, TypeStep DEF IInv
<1> QED BY <1>1, <1>2, PTL DEF GatewaySpec

\* The types of the gateway's model: in particular a job that was closed is one of a lane,
\* and the ids a stream holds are numbers of rows (publishEvent and streamEvents).
THEOREM GatewayTypes == GatewaySpec => []GatewayTypeOK
<1>1. IInv => GatewayTypeOK
  BY DEF IInv
<1> QED BY <1>1, InvAlways, PTL

-----------------------------------------------------------------------------
(* The promise. *)

LEMMA StreamSteps ==
  ASSUME IInv, [GatewayNext]_gatewayVars
  PROVE  [Stream!StreamNext]_Stream!streamVars
<1> USE DEF IInv, Stream!streamVars
<1>1. ASSUME NEW t \in Tasks, NEW p \in Payloads, Emit(t, p)
      PROVE  Stream!StreamNext
  BY <1>1 DEF Emit, Stream!StreamNext, Stream!Emit, clientVars
<1>2. ASSUME NEW t \in Tasks, Post(t)
      PROVE  UNCHANGED Stream!streamVars
  BY <1>2 DEF Post, clientVars
<1>3. ASSUME NEW h \in handlers, AppendEvent(h) \/ Broadcast(h)
      PROVE  UNCHANGED Stream!streamVars
  <2>1. h.id \in Nat /\ conn \in Connection
    BY HandlerType DEF Handler
  <2>2. Offered(conn, h.id).phase = conn.phase
    BY <2>1, OfferedConnection
  <2> QED BY <1>3, <2>2 DEF AppendEvent, Broadcast, laneVars, clientVars
<1>4. CASE Connect \/ Subscribe \/ List \/ Skip \/ EndStream \/ Disconnect \/ GatewayCrash
  <2>1. conn \in Connection /\ Off.phase = "off"
    BY HandlerType, OffConnection
  <2>2. Skip => conn'.phase = conn.phase /\ conn.phase = "live"
    BY <2>1, TakenConnection DEF Skip
  <2>3. emitted' = emitted /\ last' = last /\ late' = late
    BY <1>4 DEF Connect, Subscribe, List, Skip, EndStream, Disconnect, GatewayCrash, laneVars
  <2>4. Connect \/ Subscribe \/ List => conn.phase # "refused" /\ conn'.phase # "refused"
    BY <2>1 DEF Connect, Subscribe, List, Off, Connection
  <2>5. (conn'.phase = "refused") = (conn.phase = "refused")
    BY <1>4, <2>1, <2>2, <2>4 DEF EndStream, Disconnect, GatewayCrash
  <2> QED BY <2>3, <2>5
<1>5. CASE Send
  <2> DEFINE id == Head(Pending(conn))
             t == log[id].task
             n == log[id].n
  <2>1. /\ conn.phase = "live" /\ Pending(conn) # <<>> /\ id > conn.sent
        /\ conn' = [TakeNext(conn) EXCEPT !.sent = id]
        /\ last' = (IF log[id] \in late THEN last ELSE [last EXCEPT ![t] = n])
        /\ emitted' = emitted /\ late' = late
    BY <1>5 DEF Send, Written, laneVars
  <2>2. conn \in Connection /\ last \in [Tasks -> Nat] /\ cursor \in Nat
    BY HandlerType DEF GatewayTypeOK
  <2>3. id \in 1..Len(log) /\ TakeNext(conn) \in Connection /\ TakeNext(conn).phase = "live"
    BY <2>1, <2>2, PendingIds, TakenConnection DEF ConnOK
  <2> HIDE DEF id
  <2>4. conn'.phase = "live"
    BY <2>1, <2>3 DEF Connection
  <2>5. t \in Tasks /\ n \in Nat \ {0} /\ Len(log) \in Nat
    BY <2>3, LogType
  <2>6. n <= Len(emitted[t])
    BY <2>3 DEF LogOK
  <2>7. Len(emitted[t]) \in Nat
    BY <2>5 DEF GatewayTypeOK
  <2>8. last[t] <= n \/ log[id] \in late
    <3>1. CASE last[t] = 0
      BY <2>5, <3>1
    <3>2. CASE last[t] # 0
      <4>1. PICK i \in 1..Len(log) : i <= cursor /\ log[i] = Event(t, last[t])
        BY <2>5, <3>2 DEF ConnOK
      <4>2. cursor < id
        BY <2>1, <2>2, <2>3, <2>5 DEF ConnOK, Connection
      <4>3. i <= id /\ log[i].task = log[id].task /\ log[i].n = last[t]
        BY <2>2, <2>3, <2>5, <4>1, <4>2 DEF Event
      <4>4. log[i].n <= log[id].n \/ log[id] \in late
        BY <2>3, <4>3 DEF LogOK
      <4> QED BY <4>3, <4>4
    <3> QED BY <3>1, <3>2
  <2>11. log[id] = [task |-> t, n |-> n]
    BY <2>3, LogType, LaneType DEF Event
  <2> HIDE DEF t, n
  <2>9. n \in 1..Len(emitted[t])
    BY <2>5, <2>6, <2>7
  <2>10. Stream!Deliver(t, n)
    BY <2>1, <2>2, <2>4, <2>5, <2>8, <2>9, <2>11 DEF Stream!Deliver
  <2> QED BY <2>5, <2>9, <2>10 DEF Stream!StreamNext
<1>6. CASE Refuse
  <2>1. conn'.phase = "refused" /\ emitted' = emitted /\ last' = last /\ late' = late
    BY <1>6 DEF Refuse, Off, laneVars
  <2> QED BY <2>1 DEF Stream!StreamNext, Stream!Refuse
<1>7. CASE Reopen
  <2>1. conn'.phase = "off" /\ emitted' = emitted /\ last' = last /\ late' = late
    BY <1>7, OffConnection DEF Reopen, laneVars
  <2> QED BY <2>1 DEF Stream!StreamNext, Stream!Reopen
<1>8. CASE UNCHANGED gatewayVars
  BY <1>8 DEF gatewayVars, laneVars, clientVars
<1>9. CASE Prune
  BY <1>9 DEF Prune, laneVars, clientVars
<1>10. ASSUME NEW e \in posting, LosePost(e) \/ FailPost(e)
       PROVE  UNCHANGED Stream!streamVars
  BY <1>10 DEF LosePost, FailPost, clientVars
<1>11. ASSUME NEW t \in Tasks, GiveUp(t)
       PROVE  Stream!StreamNext
  <2>1. /\ late' = late \union {[task |-> t, n |-> head[t] + 1]}
        /\ UNCHANGED <<emitted, last, conn>> /\ HeadOf(t) \in posting
    BY <1>11 DEF GiveUp, HeadOf, clientVars
  <2>2. head[t] + 1 <= Len(emitted[t])
    BY <2>1 DEF LanesOK, HeadOf
  <2>3. head[t] + 1 \in 1..Len(emitted[t])
    BY <2>2, LaneType
  <2> QED BY <2>1, <2>3 DEF Stream!StreamNext, Stream!GiveUp
<1> QED BY <1>1, <1>2, <1>3, <1>4, <1>5, <1>6, <1>7, <1>8, <1>9, <1>10, <1>11 DEF GatewayNext

\* The ledger's lanes, the gateway's table and broker, and EventSource keep the promise of
\* EventStream: a task's events reach the page in the order in which they were published,
\* some of them again, but for those whose job the ledger closed under its running POST
\* (claim), and none while the stream is refused.
THEOREM StreamIsKept == GatewaySpec => StreamKept
<1>1. GatewayInit => Stream!StreamInit
  BY DEF GatewayInit, Stream!StreamInit, Off
<1>2. IInv /\ [GatewayNext]_gatewayVars => [Stream!StreamNext]_Stream!streamVars
  BY StreamSteps
<1> QED BY <1>1, <1>2, InvAlways, PTL DEF GatewaySpec, StreamKept, Stream!StreamSpec

-----------------------------------------------------------------------------
(* Nothing that is owed is skipped for good.                                 *)
(*                                                                           *)
(* A row that a later one is broadcast before is overtaken, unless another   *)
(* row has brought its event to the channel.  What the stream still has to   *)
(* write then holds every event it owes in the table's order.                *)

\* Rows of the table that the stream owes its client and the browser was not given.
Missing == {i \in 1..Len(log) : log[i] \in Owed /\ log[i] \notin seen}

Connected == conn.phase \in {"asked", "subscribed", "live"}

\* The rest of the stream gives an event no later than at its m-th place.
Offers(i, m) == \E k \in 1..m : log[Pending(conn)[k]] = log[i]

\* Nothing is missing below what the stream was sent, or will be sent before it.
InOrder ==
  conn.phase = "live" =>
    \A m \in 1..Len(Pending(conn)) : \A i \in Missing : i <= Pending(conn)[m] => Offers(i, m)

\* The handler that stored a row has broadcast it, or is gone.
Heard(i) == \A h \in handlers : h.id # i

\* What was broadcast is in the channel, if it is open, or was listed.
HeardOffered ==
  conn.phase = "live" /\ conn.open =>
    \A i \in Missing : Heard(i) => Offers(i, Len(Pending(conn)))

\* The events that are excused were stored.
Excused == since <= Len(log) /\ pruned <= Len(log)

GapInv ==
  ~cut => /\ \A i \in Missing : cursor < i
          /\ Connected => conn.sent <= Len(log) /\ \A i \in Missing : conn.sent < i
          /\ Connected /\ conn.phase # "live" => conn.from = conn.sent
          /\ InOrder
          /\ HeardOffered

LEMMA MissingShrinks ==
  ASSUME log' = log, seen \subseteq seen', since' = since, overtaken \subseteq overtaken',
         pruned \in Nat, pruned' \in Nat, pruned <= pruned'
  PROVE  /\ Missing' \subseteq Missing
         /\ \A i \in Missing' : log[i] \notin seen' /\ log[i] \notin overtaken'
<1>1. Owed' \subseteq Owed
  <2>1. {log[i] : i \in 1..pruned} \subseteq {log[i] : i \in 1..pruned'}
    <3>1. 1..pruned \subseteq 1..pruned'
      OBVIOUS
    <3> QED BY <3>1
  <2> QED BY <2>1 DEF Owed
<1>2. \A i \in Missing' : log[i] \notin seen' /\ log[i] \notin overtaken'
  BY DEF Missing, Owed
<1> QED BY <1>1, <1>2 DEF Missing

\* What is pending is rows of the table.
LEMMA PendingRows ==
  ASSUME IInv
  PROVE  /\ conn \in Connection /\ Pending(conn) \in Seq(Nat) /\ Len(Pending(conn)) \in Nat
         /\ \A m \in 1..Len(Pending(conn)) : Pending(conn)[m] \in 1..Len(log)
<1>1. conn \in Connection
  BY HandlerType DEF IInv
<1>2. conn.replay \in Seq(1..Len(log)) /\ conn.queue \in Seq(1..Len(log))
  BY DEF IInv, ConnOK
<1>3. Pending(conn) \in Seq(1..Len(log))
  BY <1>2, ConcatProperties DEF Pending
<1> QED BY <1>1, <1>3, PendingEvents, LenProperties, ElementOfSeq

\* The stream and what it was sent stay; so does what is told of them.
LEMMA StreamStays ==
  ASSUME GapInv, UNCHANGED <<conn, cursor, cut>>, log' = log, Missing' \subseteq Missing,
         \A i \in Missing' : Heard(i)' => Heard(i)
  PROVE  GapInv'
<1> SUFFICES ASSUME ~cut' PROVE GapInv'
  BY DEF GapInv
<1>1. ~cut
  OBVIOUS
<1>2. (\A i \in Missing : cursor < i)'
  BY <1>1 DEF GapInv
<1>3. (Connected => conn.sent <= Len(log) /\ \A i \in Missing : conn.sent < i)'
  BY <1>1 DEF GapInv, Connected
<1>4. (Connected /\ conn.phase # "live" => conn.from = conn.sent)'
  BY <1>1 DEF GapInv, Connected
<1>5. \A i, m : Offers(i, m)' <=> Offers(i, m)
  BY DEF Offers
<1>6. InOrder'
  BY <1>1, <1>5 DEF GapInv, InOrder
<1>7. HeardOffered'
  BY <1>1, <1>5 DEF GapInv, HeardOffered
<1> QED BY <1>2, <1>3, <1>4, <1>6, <1>7 DEF GapInv

\* The stream ends: what is left is the browser's cursor.
LEMMA StreamEnds ==
  ASSUME GapInv, UNCHANGED <<cursor, cut>>, conn'.phase \in {"off", "refused"}, Missing' \subseteq Missing
  PROVE  GapInv'
  BY DEF GapInv, Connected, InOrder, HeardOffered

\* A POST that is lost takes no row's broadcast with it.
LEMMA GapLost ==
  ASSUME IInv, GapInv, NEW e \in posting, LosePost(e) \/ FailPost(e)
  PROVE  GapInv'
<1>1. UNCHANGED <<log, pruned, conn, cursor, seen, since, cut, overtaken>>
  BY DEF LosePost, FailPost, storeVars, clientVars
<1>2. GatewayTypeOK /\ pruned \in Nat /\ handlers \subseteq Handler /\ e \in Events
  BY LogType, HandlerType, LaneType DEF IInv
<1>3. Missing' \subseteq Missing
  BY <1>1, <1>2, MissingShrinks
<1>4. ASSUME NEW i \in Missing', Heard(i)'
      PROVE  Heard(i)
  <2>1. handlers' = handlers \/ handlers' = Abandoned(e)
    BY DEF LosePost, FailPost, storeVars
  <2>2. i # 0
    BY DEF Missing
  <2> QED BY <1>2, <1>4, <2>1, <2>2, CommittedGoesOn DEF Heard
<1> QED BY <1>1, <1>3, <1>4, StreamStays

\* An event that is stored comes after everything the stream holds, and is yet unheard.
LEMMA GapAppended ==
  ASSUME IInv, Excused, GapInv, NEW h \in handlers, AppendEvent(h)
  PROVE  GapInv'
<1> DEFINE e == Event(h.task, h.n)
<1>1. /\ log' = Append(log, e) /\ h.id = 0
      /\ handlers' = (handlers \ {h}) \union {[h EXCEPT !.id = Len(log) + 1]}
      /\ UNCHANGED <<overtaken, pruned, conn, cursor, seen, since, cut>>
  BY DEF AppendEvent, Event, laneVars, clientVars
<1>2. /\ log \in Seq(Events) /\ Len(log) \in Nat /\ h \in Handler /\ e \in Events
      /\ cursor \in Nat /\ cursor <= Len(log) /\ pruned \in Nat /\ since \in Nat
      /\ since <= Len(log) /\ pruned <= Len(log)
  BY LogType, HandlerType DEF IInv, Excused, ConnOK, Handler, GatewayTypeOK, Events, Event
<1>3. \E g \in handlers' : g.id = Len(log) + 1
  <2>1. [h EXCEPT !.id = Len(log) + 1].id = Len(log) + 1
    BY <1>2 DEF Handler
  <2> QED BY <1>1, <2>1
<1> HIDE DEF e
<1>4. /\ Len(log') = Len(log) + 1 /\ log'[Len(log) + 1] = e
      /\ \A i \in 1..Len(log) : log'[i] = log[i]
  BY <1>1, <1>2
<1>5. ASSUME NEW i \in Missing', i # Len(log) + 1
      PROVE  i \in Missing
  <2>1. i \in 1..Len(log) /\ log'[i] = log[i] /\ log'[i] \in Owed' /\ log[i] \notin seen
    BY <1>1, <1>2, <1>4, <1>5 DEF Missing
  <2>2. \A k \in 1..since : log'[k] = log[k]
    BY <1>2, <1>4
  <2>3. \A k \in 1..pruned : log'[k] = log[k]
    BY <1>2, <1>4
  <2>4. \A k \in 1..since : log[k] # log[i]
    BY <1>1, <2>1, <2>2 DEF Owed
  <2>5. \A k \in 1..pruned : log[k] # log[i]
    BY <1>1, <2>1, <2>3 DEF Owed
  <2>6. log[i] \notin overtaken
    BY <1>1, <2>1 DEF Owed
  <2>7. log[i] \in Owed
    BY <2>1, <2>4, <2>5, <2>6 DEF Owed
  <2> QED BY <2>1, <2>7 DEF Missing
<1>6. SUFFICES ASSUME ~cut PROVE GapInv'
  BY <1>1 DEF GapInv
<1>7. (\A i \in Missing : cursor < i)'
  BY <1>1, <1>2, <1>5, <1>6 DEF GapInv
<1>8. (Connected => conn.sent <= Len(log) /\ \A i \in Missing : conn.sent < i)'
  <2> SUFFICES ASSUME Connected PROVE conn.sent <= Len(log') /\ \A i \in Missing' : conn.sent < i
    BY <1>1 DEF Connected
  <2>1. conn.sent <= Len(log) /\ conn.sent \in Nat /\ \A i \in Missing : conn.sent < i
    BY <1>6, PendingRows DEF GapInv, Connection
  <2> QED BY <1>2, <1>4, <1>5, <2>1
<1>9. (Connected /\ conn.phase # "live" => conn.from = conn.sent)'
  BY <1>1, <1>6 DEF GapInv, Connected
<1>10. ASSUME NEW i \in Missing, NEW m \in 0..Len(Pending(conn)), Offers(i, m)
       PROVE  Offers(i, m)'
  <2>1. PICK k \in 1..m : log[Pending(conn)[k]] = log[i]
    BY <1>10 DEF Offers
  <2>2. k \in 1..Len(Pending(conn)) /\ i \in 1..Len(log)
    BY PendingRows DEF Missing
  <2>3. log'[Pending(conn)[k]] = log'[i]
    BY <1>4, <2>1, <2>2, PendingRows
  <2> QED BY <1>1, <2>3 DEF Offers
<1>11. InOrder'
  <2> SUFFICES ASSUME conn.phase = "live", NEW m \in 1..Len(Pending(conn)), NEW i \in Missing',
                      i <= Pending(conn)[m]
               PROVE  Offers(i, m)'
    BY <1>1 DEF InOrder
  <2>1. Pending(conn)[m] \in 1..Len(log) /\ m \in 0..Len(Pending(conn))
    BY PendingRows
  <2>2. i \in Missing
    BY <1>2, <1>5, <2>1
  <2> QED BY <1>6, <1>10, <2>1, <2>2 DEF GapInv, InOrder
<1>12. HeardOffered'
  <2> SUFFICES ASSUME conn.phase = "live", conn.open, NEW i \in Missing', Heard(i)'
               PROVE  Offers(i, Len(Pending(conn)))'
    BY <1>1 DEF HeardOffered
  <2>1. i # Len(log) + 1 /\ i # 0
    BY <1>3 DEF Heard, Missing
  <2>2. i \in Missing
    BY <1>5, <2>1
  <2>3. Heard(i)
    BY <1>1, <2>1 DEF Heard
  <2>4. Offers(i, Len(Pending(conn))) /\ Len(Pending(conn)) \in 0..Len(Pending(conn))
    BY <1>6, <2>2, <2>3, PendingRows DEF GapInv, HeardOffered
  <2>5. PICK n : n = Len(Pending(conn))
    OBVIOUS
  <2>6. Offers(i, n)'
    BY <1>10, <2>2, <2>4, <2>5
  <2>7. n = Len(Pending(conn'))
    BY <1>1, <2>5
  <2> QED BY <2>6, <2>7
<1> QED BY <1>7, <1>8, <1>9, <1>11, <1>12 DEF GapInv

LEMMA AppendLast ==
  ASSUME NEW s \in Seq(Nat), NEW r \in Seq(Nat), NEW x \in Nat
  PROVE  s \o Append(r, x) = Append(s \o r, x)
<1>1. /\ Append(r, x) \in Seq(Nat) /\ Len(Append(r, x)) = Len(r) + 1
      /\ Append(r, x)[Len(r) + 1] = x /\ \A i \in 1..Len(r) : Append(r, x)[i] = r[i]
      /\ Len(s) \in Nat /\ Len(r) \in Nat
  OBVIOUS
<1>2. /\ s \o r \in Seq(Nat) /\ Len(s \o r) = Len(s) + Len(r)
      /\ \A i \in 1..Len(s) + Len(r) : (s \o r)[i] = IF i <= Len(s) THEN s[i] ELSE r[i - Len(s)]
  BY ConcatProperties
<1>3. PICK l, c : l = Append(r, x) /\ c = s \o r
  OBVIOUS
<1>4. /\ s \o l \in Seq(Nat) /\ Len(s \o l) = Len(s) + Len(l)
      /\ \A i \in 1..Len(s) + Len(l) : (s \o l)[i] = IF i <= Len(s) THEN s[i] ELSE l[i - Len(s)]
  BY <1>1, <1>3, ConcatProperties
<1>5. /\ Append(c, x) \in Seq(Nat) /\ Len(Append(c, x)) = Len(c) + 1
      /\ Append(c, x)[Len(c) + 1] = x /\ \A i \in 1..Len(c) : Append(c, x)[i] = c[i]
  BY <1>2, <1>3
<1>6. ASSUME NEW i \in 1..Len(s) + Len(r) + 1
      PROVE  (s \o l)[i] = Append(c, x)[i]
  <2>1. CASE i <= Len(s)
    BY <1>1, <1>2, <1>3, <1>4, <1>5, <2>1
  <2>2. CASE i > Len(s) /\ i <= Len(s) + Len(r)
    BY <1>1, <1>2, <1>3, <1>4, <1>5, <2>2
  <2>3. CASE i = Len(s) + Len(r) + 1
    <3>1. i - Len(s) = Len(r) + 1
      BY <1>1, <2>3
    <3> QED BY <1>1, <1>2, <1>3, <1>4, <1>5, <2>3, <3>1
  <2>4. Len(s) \in Nat /\ Len(r) \in Nat
    OBVIOUS
  <2>5. i <= Len(s) \/ (i > Len(s) /\ i <= Len(s) + Len(r)) \/ i = Len(s) + Len(r) + 1
    BY <2>4
  <2> QED BY <2>1, <2>2, <2>3, <2>5
<1>7. Len(s \o l) = Len(Append(c, x)) /\ Len(s \o l) = Len(s) + Len(r) + 1
  BY <1>1, <1>2, <1>3, <1>4, <1>5
<1>8. s \o l = Append(c, x)
  BY <1>4, <1>5, <1>6, <1>7, SeqEqual
<1> QED BY <1>3, <1>8

\* An offered event is the last that is pending, if the channel stays open.
LEMMA OfferedCases ==
  ASSUME NEW c \in Connection, NEW id \in Nat
  PROVE  \/ /\ c.open /\ Offered(c, id).open
            /\ Pending(Offered(c, id)) = Append(Pending(c), id)
         \/ ~Offered(c, id).open /\ Pending(Offered(c, id)) = Pending(c)
<1>1. c.replay \in Seq(Nat) /\ c.queue \in Seq(Nat) /\ c.open \in BOOLEAN
  BY DEF Connection
<1>2. CASE ~c.open
  BY <1>2 DEF Offered
<1>3. CASE c.open /\ Len(c.queue) < Buffer
  <2>1. Offered(c, id) = [c EXCEPT !.queue = Append(c.queue, id)]
    BY <1>3 DEF Offered
  <2>2. Offered(c, id).replay = c.replay /\ Offered(c, id).queue = Append(c.queue, id)
        /\ Offered(c, id).open
    BY <1>3, <2>1 DEF Connection
  <2>3. c.replay \o Append(c.queue, id) = Append(c.replay \o c.queue, id)
    BY <1>1, AppendLast
  <2> QED BY <1>3, <2>2, <2>3 DEF Pending
<1>4. CASE c.open /\ ~(Len(c.queue) < Buffer)
  <2>1. Offered(c, id) = [c EXCEPT !.open = FALSE]
    BY <1>4 DEF Offered
  <2>2. /\ Offered(c, id).replay = c.replay /\ Offered(c, id).queue = c.queue
        /\ ~Offered(c, id).open
    BY <2>1 DEF Connection
  <2> QED BY <2>2 DEF Pending
<1> QED BY <1>2, <1>3, <1>4

\* A broadcast event comes after every earlier one that is missing: what is not in the
\* channel before it is overtaken.
LEMMA GapBroadcast ==
  ASSUME IInv, GapInv, NEW h \in handlers, Broadcast(h)
  PROVE  GapInv'
<1> SUFFICES ASSUME ~cut PROVE GapInv'
  BY DEF GapInv, Broadcast
<1>1. /\ h.id # 0 /\ conn' = Offered(conn, h.id) /\ handlers' = handlers \ {h}
      /\ overtaken' = overtaken \union PassedBy(h.id)
      /\ UNCHANGED <<log, pruned, cursor, seen, since, cut>>
  BY DEF Broadcast
<1>2. h \in Handler /\ h.id \in Nat /\ h.id \in 1..Len(log) /\ pruned \in Nat
  BY <1>1, HandlerType, LogType DEF IInv, HandlersOK, Handler
<1>3. PICK p, q : p = Pending(conn) /\ q = Pending(conn')
  OBVIOUS
<1>4. /\ p \in Seq(Nat) /\ Len(p) \in Nat
      /\ \A m \in 1..Len(p) : p[m] \in 1..Len(log)
  BY <1>3, PendingRows
<1>5. /\ conn \in Connection
      /\ conn'.phase = conn.phase /\ conn'.from = conn.from /\ conn'.sent = conn.sent
  BY <1>1, <1>2, PendingRows, OfferedConnection
<1>6. \/ conn.open /\ conn'.open /\ q = Append(p, h.id)
      \/ ~conn'.open /\ q = p
  BY <1>1, <1>2, <1>3, <1>5, OfferedCases
<1>7. Missing' \subseteq Missing /\ \A i \in Missing' : log[i] \notin overtaken'
  BY <1>1, <1>2, MissingShrinks
<1>8. ASSUME NEW i \in Missing, NEW m \in 0..Len(p), Offers(i, m)
      PROVE  \E k \in 1..m : log[q[k]] = log[i]
  <2>1. PICK k \in 1..m : log[p[k]] = log[i]
    BY <1>3, <1>8 DEF Offers
  <2>2. k \in 1..Len(p)
    BY <1>4
  <2>3. Append(p, h.id)[k] = p[k]
    BY <1>2, <1>4, <2>2
  <2>4. p[k] = q[k]
    BY <1>6, <2>3
  <2> QED BY <2>1, <2>4
<1>9. ASSUME NEW i \in Missing, conn.open, conn.phase = "live", Heard(i)
      PROVE  \E k \in 1..Len(p) : log[q[k]] = log[i]
  <2>1. Offers(i, Len(p)) /\ Len(p) \in 0..Len(p)
    BY <1>3, <1>4, <1>9 DEF GapInv, HeardOffered
  <2> QED BY <1>8, <2>1
<1>10. ASSUME q = Append(p, h.id)
       PROVE  /\ q[Len(p) + 1] = h.id /\ Len(q) = Len(p) + 1 /\ Len(p) + 1 \in 1..Len(p) + 1
              /\ 1..Len(p) \subseteq 1..Len(p) + 1
  BY <1>2, <1>4, <1>10
<1>11. ASSUME NEW i \in Missing', conn.open, conn.phase = "live", q = Append(p, h.id),
              i <= h.id \/ Heard(i)'
       PROVE  \E k \in 1..Len(p) + 1 : log[q[k]] = log[i]
  <2>1. i \in Missing /\ i \in 1..Len(log)
    BY <1>7 DEF Missing
  <2>2. CASE log[i] = log[h.id]
    BY <1>10, <1>11, <2>2
  <2>3. CASE Heard(i)
    BY <1>9, <1>10, <1>11, <2>1, <2>3
  <2>4. CASE log[i] # log[h.id] /\ ~Heard(i)
    <3>1. PICK g \in handlers : g.id = i
      BY <2>4 DEF Heard
    <3>2. i # h.id /\ i <= h.id
      BY <1>1, <1>11, <2>4, <3>1 DEF Heard
    <3>3. g \in Broadcasting /\ g.id < h.id /\ i < h.id
      BY <1>2, <2>1, <3>1, <3>2 DEF Broadcasting
    <3>4. log[i] \in {log[k.id] : k \in {f \in Broadcasting : f.id < h.id}}
      BY <3>1, <3>3
    <3>5. log[i] \notin PassedBy(h.id)
      BY <1>1, <1>7, <1>11
    <3>6. PICK k \in 1..Len(log) : log[k] = log[i] /\ \A f \in Broadcasting : f.id # k
      BY <2>4, <3>4, <3>5 DEF PassedBy
    <3>7. k \in Missing
      BY <2>1, <3>6 DEF Missing
    <3>8. Heard(k)
      BY <3>6 DEF Heard, Broadcasting
    <3> QED BY <1>9, <1>10, <1>11, <3>6, <3>7, <3>8
  <2> QED BY <2>2, <2>3, <2>4
<1>12. (\A i \in Missing : cursor < i)'
  BY <1>1, <1>7 DEF GapInv
<1>13. (Connected => conn.sent <= Len(log) /\ \A i \in Missing : conn.sent < i)'
  BY <1>1, <1>5, <1>7 DEF GapInv, Connected
<1>14. (Connected /\ conn.phase # "live" => conn.from = conn.sent)'
  BY <1>1, <1>5 DEF GapInv, Connected
<1>15. InOrder'
  <2> SUFFICES ASSUME conn.phase = "live", NEW m \in 1..Len(q), NEW i \in Missing', i <= q[m]
               PROVE  \E k \in 1..m : log[q[k]] = log[i]
    BY <1>1, <1>3, <1>5 DEF InOrder, Offers
  <2>1. CASE m \in 1..Len(p)
    <3>1. q[m] = p[m] /\ m \in 0..Len(p)
      BY <1>2, <1>4, <1>6, <2>1
    <3>2. Offers(i, m) /\ i \in Missing
      BY <1>3, <1>7, <2>1, <3>1 DEF GapInv, InOrder
    <3> QED BY <1>8, <3>1, <3>2
  <2>2. CASE m \notin 1..Len(p)
    <3>1. conn.open /\ q = Append(p, h.id) /\ m = Len(p) + 1 /\ q[m] = h.id
      BY <1>2, <1>4, <1>6, <2>2
    <3> QED BY <1>11, <3>1
  <2> QED BY <2>1, <2>2
<1>16. HeardOffered'
  <2> SUFFICES ASSUME conn.phase = "live", conn'.open, NEW i \in Missing', Heard(i)'
               PROVE  \E k \in 1..Len(q) : log[q[k]] = log[i]
    BY <1>1, <1>3, <1>5 DEF HeardOffered, Offers
  <2>1. conn.open /\ q = Append(p, h.id) /\ Len(q) = Len(p) + 1
    BY <1>2, <1>4, <1>6
  <2> QED BY <1>11, <2>1
<1> QED BY <1>12, <1>13, <1>14, <1>15, <1>16 DEF GapInv

\* A connection starts after the events its cursor says the browser has, or after those
\* that were stored before it, and the missing ones are none of them.
LEMMA GapConnect ==
  ASSUME IInv, GapInv, Connect
  PROVE  GapInv'
<1> SUFFICES ASSUME ~cut PROVE GapInv'
  BY DEF GapInv, Connect
<1>1. /\ conn'.phase = "asked" /\ conn'.from = StartFrom /\ conn'.sent = StartFrom
      /\ since' = (IF cursor = 0 THEN LatestID ELSE since)
      /\ UNCHANGED <<overtaken, log, pruned, cursor, seen>>
  BY OffConnection DEF Connect, Connection, laneVars, storeVars
<1>2. /\ cursor \in Nat /\ cursor <= Len(log) /\ Len(log) \in Nat /\ LatestID \in Nat /\ LatestID <= Len(log)
  BY LogType DEF IInv, ConnOK, GatewayTypeOK, LatestID
<1>3. StartFrom <= Len(log)
  BY <1>2 DEF StartFrom
<1>4. CASE cursor = 0
  <2>1. \A i \in Missing' : i \in 1..Len(log) /\ i \notin 1..since'
    BY <1>1 DEF Missing, Owed
  <2>2. \A i \in Missing' : cursor < i /\ StartFrom < i
    BY <1>1, <1>2, <1>4, <2>1 DEF StartFrom
  <2> QED BY <1>1, <1>3, <2>2 DEF GapInv, Connected, InOrder, HeardOffered
<1>5. CASE cursor # 0
  <2>1. Missing' = Missing /\ StartFrom = cursor
    BY <1>1, <1>5 DEF Missing, Owed, StartFrom
  <2> QED BY <1>1, <1>2, <2>1 DEF GapInv, Connected, InOrder, HeardOffered
<1> QED BY <1>4, <1>5

LEMMA GapSubscribe ==
  ASSUME IInv, GapInv, Subscribe
  PROVE  GapInv'
<1>1. /\ conn.phase = "asked" /\ conn'.phase = "subscribed"
      /\ conn'.from = conn.from /\ conn'.sent = conn.sent
      /\ UNCHANGED <<overtaken, log, pruned, cursor, seen, since, cut>>
  BY PendingRows DEF Subscribe, Connection, laneVars, storeVars
<1>2. Missing' = Missing
  BY <1>1 DEF Missing, Owed
<1> QED BY <1>1, <1>2 DEF GapInv, Connected, InOrder, HeardOffered

\* A replay that is not cut short lists every row after its cursor.
LEMMA GapList ==
  ASSUME IInv, GapInv, List
  PROVE  GapInv'
<1> SUFFICES ASSUME ~cut' PROVE GapInv'
  BY DEF GapInv
<1> DEFINE from == Kept(conn.from)
<1>1. /\ conn.phase = "subscribed" /\ conn' = [conn EXCEPT !.phase = "live", !.replay = ListedAfter(from)]
      /\ ~cut /\ ~(LastListed(from) < Len(log))
      /\ UNCHANGED <<handlers, overtaken, log, pruned, cursor, seen, since>>
  BY DEF List, laneVars, storeVars
<1>2. /\ conn \in Connection /\ log \in Seq(Events) /\ Len(log) \in Nat /\ pruned \in Nat
      /\ conn.from \in Nat /\ from \in Nat
  BY PendingRows, LogType DEF IInv, Connection, Kept
<1>3. /\ conn'.phase = "live" /\ conn'.sent = conn.sent /\ conn'.replay = ListedAfter(from)
      /\ conn'.queue = conn.queue /\ conn' \in Connection
  <2>1. ListedAfter(from) \in Seq(Nat)
    BY <1>2, Listed
  <2> QED BY <1>1, <1>2, <2>1 DEF Connection, Phases
<1>4. Missing' = Missing
  BY <1>1 DEF Missing, Owed
<1>5. ASSUME NEW i \in Missing PROVE from < i /\ i \in 1..Len(log)
  <2>1. conn.sent < i /\ conn.from = conn.sent /\ i \in 1..Len(log)
    BY <1>1 DEF GapInv, Connected, Missing
  <2>2. i \notin 1..pruned
    BY DEF Missing, Owed
  <2> QED BY <1>2, <2>1, <2>2 DEF Kept
<1> HIDE DEF from
<1>6. PICK q, r : q = Pending(conn') /\ r = ListedAfter(from)
  OBVIOUS
<1>7. /\ Len(q) = Len(r) + Len(conn.queue) /\ Len(r) \in Nat /\ Len(conn.queue) \in Nat
      /\ \A k \in 1..Len(r) : q[k] = r[k]
  <2>1. /\ Len(q) = Len(r) + Len(conn.queue) /\ r \in Seq(Nat) /\ conn.queue \in Seq(Nat)
        /\ \A k \in 1..Len(q) : q[k] = IF k <= Len(r) THEN r[k] ELSE conn.queue[k - Len(r)]
    BY <1>3, <1>6, PendingEvents
  <2> QED BY <2>1
<1>8. LastListed(from) = Len(log)
  BY <1>1, <1>2, GatewayAssumption DEF LastListed
<1>9. /\ \A k \in 1..Len(r) : r[k] = from + k
      /\ \A i \in from + 1..Len(log) : i - from \in 1..Len(r)
  BY <1>2, <1>6, <1>8, Listed
<1>10. ASSUME NEW i \in Missing, NEW m \in 1..Len(q), i <= q[m] \/ m = Len(q)
       PROVE  \E k \in 1..m : log[q[k]] = log[i]
  <2>1. from < i /\ i \in 1..Len(log)
    BY <1>5
  <2>2. i - from \in 1..Len(r) /\ q[i - from] = i
    BY <1>2, <1>7, <1>9, <2>1
  <2>3. i - from \in 1..m
    <3>1. CASE m <= Len(r)
      <4>1. CASE i <= q[m]
        <5>1. q[m] = from + m
          BY <1>7, <1>9, <3>1
        <5> QED BY <1>2, <2>1, <4>1, <5>1
      <4>2. CASE m = Len(q)
        BY <1>7, <2>2, <3>1, <4>2
      <4> QED BY <1>10, <4>1, <4>2
    <3>2. CASE ~(m <= Len(r))
      BY <1>7, <2>2, <3>2
    <3> QED BY <3>1, <3>2
  <2> QED BY <2>2, <2>3
<1>11. (\A i \in Missing : cursor < i)'
  BY <1>1, <1>4 DEF GapInv
<1>12. (Connected => conn.sent <= Len(log) /\ \A i \in Missing : conn.sent < i)'
  BY <1>1, <1>3, <1>4 DEF GapInv, Connected
<1>13. InOrder'
  BY <1>1, <1>4, <1>6, <1>10 DEF InOrder, Offers
<1>14. HeardOffered'
  <2> SUFFICES ASSUME NEW i \in Missing
               PROVE  \E k \in 1..Len(q) : log[q[k]] = log[i]
    BY <1>1, <1>4, <1>6 DEF HeardOffered, Offers
  <2>1. from < i /\ i \in 1..Len(log)
    BY <1>5
  <2>2. Len(q) \in 1..Len(q)
    BY <1>2, <1>7, <1>9, <2>1
  <2> QED BY <1>10, <2>2
<1> QED BY <1>3, <1>11, <1>12, <1>13, <1>14 DEF GapInv, Connected

\* The head of what is pending is written: it goes, and nothing below it is missing.
LEMMA GapTaken ==
  ASSUME IInv, GapInv, conn.phase = "live", Pending(conn) # <<>>
  PROVE  LET id == Head(Pending(conn)) IN
         /\ id \in 1..Len(log) /\ id = Pending(conn)[1]
         /\ Len(Tail(Pending(conn))) = Len(Pending(conn)) - 1
         /\ \A m \in 1..Len(Pending(conn)) - 1 : Tail(Pending(conn))[m] = Pending(conn)[m + 1]
         /\ ~cut => \A i \in Missing : log[i] # log[id] =>
              /\ conn.sent < i /\ ~(i <= id)
              /\ \A m \in 1..Len(Pending(conn)) - 1 :
                   (i <= Pending(conn)[m + 1] \/ (Offers(i, Len(Pending(conn))) /\ m = Len(Pending(conn)) - 1))
                     => \E k \in 1..m : log[Pending(conn)[k + 1]] = log[i]
<1>1. PICK p : p = Pending(conn)
  OBVIOUS
<1>2. /\ p \in Seq(Nat) /\ Len(p) \in Nat /\ p # <<>>
      /\ \A m \in 1..Len(p) : p[m] \in 1..Len(log)
  BY <1>1, PendingRows
<1>3. /\ Head(p) = p[1] /\ 1 \in 1..Len(p) /\ Len(Tail(p)) = Len(p) - 1
      /\ \A m \in 1..Len(p) - 1 : Tail(p)[m] = p[m + 1]
  BY <1>2
<1>4. ASSUME ~cut, NEW i \in Missing, log[i] # log[p[1]], NEW m \in 1..Len(p),
             i <= p[m] \/ (Offers(i, Len(p)) /\ m = Len(p))
      PROVE  m # 1 /\ \E k \in 1..m - 1 : log[p[k + 1]] = log[i]
  <2>1. PICK k \in 1..m : log[p[k]] = log[i]
    BY <1>1, <1>4 DEF GapInv, InOrder, Offers
  <2>2. k # 1
    BY <1>4, <2>1
  <2>3. k - 1 \in 1..m - 1 /\ (k - 1) + 1 = k /\ m # 1
    BY <1>2, <2>2
  <2> QED BY <2>1, <2>3
<1>5. ASSUME ~cut, NEW i \in Missing, log[i] # log[p[1]]
      PROVE  /\ conn.sent < i /\ ~(i <= p[1])
             /\ \A m \in 1..Len(p) - 1 :
                  (i <= p[m + 1] \/ (Offers(i, Len(p)) /\ m = Len(p) - 1))
                    => \E k \in 1..m : log[p[k + 1]] = log[i]
  <2>1. ~(i <= p[1])
    BY <1>3, <1>4, <1>5
  <2>2. conn.sent < i
    BY <1>5 DEF GapInv, Connected
  <2>3. ASSUME NEW m \in 1..Len(p) - 1, i <= p[m + 1] \/ (Offers(i, Len(p)) /\ m = Len(p) - 1)
        PROVE  \E k \in 1..m : log[p[k + 1]] = log[i]
    <3>1. m + 1 \in 1..Len(p) /\ (m + 1) - 1 = m /\ (m = Len(p) - 1 => m + 1 = Len(p))
      BY <1>2
    <3> QED BY <1>4, <1>5, <2>3, <3>1
  <2> QED BY <2>1, <2>2, <2>3
<1> QED BY <1>1, <1>2, <1>3, <1>5

LEMMA GapSend ==
  ASSUME IInv, GapInv, Send
  PROVE  GapInv'
<1> SUFFICES ASSUME ~cut PROVE GapInv'
  BY DEF GapInv, Send
<1>1. PICK p, id : p = Pending(conn) /\ id = Head(p)
  OBVIOUS
<1>2. /\ conn.phase = "live" /\ p # <<>> /\ conn' = [TakeNext(conn) EXCEPT !.sent = id]
      /\ cursor' = id /\ seen' = seen \union {log[id]}
      /\ UNCHANGED <<handlers, overtaken, log, pruned, since>>
  BY <1>1 DEF Send, Written, laneVars, storeVars
<1>3. /\ TakeNext(conn) \in Connection /\ TakeNext(conn).phase = "live"
      /\ TakeNext(conn).open = conn.open /\ Pending(TakeNext(conn)) = Tail(p)
  BY <1>1, <1>2, PendingRows, TakenConnection
<1>4. /\ conn'.phase = "live" /\ conn'.sent = id /\ conn'.open = conn.open /\ Pending(conn') = Tail(p)
  BY <1>2, <1>3 DEF Connection, Pending
<1>5. Missing' \subseteq Missing /\ \A i \in Missing' : log[i] # log[id]
  <2>1. pruned \in Nat
    BY LogType DEF IInv
  <2>2. log[id] \in seen'
    BY <1>2
  <2> QED BY <1>2, <2>1, <2>2, MissingShrinks
<1>6. /\ id \in 1..Len(log) /\ id = p[1] /\ Len(Tail(p)) = Len(p) - 1 /\ Len(p) \in Nat
      /\ \A m \in 1..Len(p) - 1 : Tail(p)[m] = p[m + 1]
      /\ \A i \in Missing' :
           /\ ~(i <= id)
           /\ \A m \in 1..Len(p) - 1 :
                (i <= p[m + 1] \/ (Offers(i, Len(p)) /\ m = Len(p) - 1))
                  => \E k \in 1..m : log[p[k + 1]] = log[i]
  BY <1>1, <1>2, <1>5, GapTaken, PendingRows
<1>7. PICK q : q = Pending(conn')
  OBVIOUS
<1>8. Len(q) = Len(p) - 1 /\ \A m \in 1..Len(p) - 1 : q[m] = p[m + 1]
  BY <1>4, <1>6, <1>7
<1>9. ASSUME NEW i \in Missing', NEW m \in 1..Len(p) - 1,
             i <= p[m + 1] \/ (Offers(i, Len(p)) /\ m = Len(p) - 1)
      PROVE  \E k \in 1..m : log[q[k]] = log[i]
  <2>1. PICK k \in 1..m : log[p[k + 1]] = log[i]
    BY <1>6, <1>9
  <2>2. k \in 1..Len(p) - 1
    BY <1>6
  <2> QED BY <1>8, <2>1, <2>2
<1>10. \A i \in Missing' : i \in Nat /\ id < i
  BY <1>2, <1>6 DEF Missing
<1>11. InOrder'
  <2> SUFFICES ASSUME NEW m \in 1..Len(q), NEW i \in Missing', i <= q[m]
               PROVE  \E k \in 1..m : log[q[k]] = log[i]
    BY <1>2, <1>4, <1>7 DEF InOrder, Offers
  <2> QED BY <1>6, <1>9, <1>8
<1>12. HeardOffered'
  <2> SUFFICES ASSUME conn.open, NEW i \in Missing', Heard(i)
               PROVE  \E k \in 1..Len(q) : log[q[k]] = log[i]
    BY <1>2, <1>4, <1>7 DEF HeardOffered, Heard, Offers
  <2>1. Offers(i, Len(p))
    BY <1>1, <1>2, <1>5 DEF GapInv, HeardOffered
  <2>2. PICK k \in 1..Len(p) : log[p[k]] = log[i]
    BY <1>1, <2>1 DEF Offers
  <2>3. k # 1
    BY <1>5, <1>6, <2>2
  <2>4. Len(p) - 1 \in 1..Len(p) - 1
    BY <1>6, <2>3
  <2> QED BY <1>6, <1>9, <1>8, <2>1, <2>4
<1> QED BY <1>2, <1>4, <1>6, <1>10, <1>11, <1>12 DEF GapInv, Connected

\* What is skipped was written before: it is not missing.
LEMMA GapSkip ==
  ASSUME IInv, GapInv, Skip
  PROVE  GapInv'
<1> SUFFICES ASSUME ~cut PROVE GapInv'
  BY DEF GapInv, Skip
<1>1. PICK p, id : p = Pending(conn) /\ id = Head(p)
  OBVIOUS
<1>2. /\ conn.phase = "live" /\ p # <<>> /\ id <= conn.sent /\ conn' = TakeNext(conn)
      /\ UNCHANGED <<handlers, overtaken, log, pruned, since, cursor, seen>>
  BY <1>1 DEF Skip, laneVars, storeVars
<1>3. /\ conn'.phase = "live" /\ conn'.sent = conn.sent /\ conn'.open = conn.open /\ Pending(conn') = Tail(p)
  BY <1>1, <1>2, PendingRows, TakenConnection
<1>4. Missing' = Missing
  BY <1>2 DEF Missing, Owed
<1>5. id \in 1..Len(log) /\ conn.sent \in Nat
  BY <1>1, <1>2, GapTaken, PendingRows DEF Connection
<1>6. \A i \in Missing : log[i] # log[id]
  <2> SUFFICES ASSUME NEW i \in Missing, log[i] = log[id] PROVE FALSE
    OBVIOUS
  <2>1. id \in Missing
    BY <1>5 DEF Missing
  <2>2. conn.sent < id
    BY <1>2, <2>1 DEF GapInv, Connected
  <2> QED BY <1>2, <1>5, <2>2
<1>7. /\ id = p[1] /\ Len(Tail(p)) = Len(p) - 1 /\ Len(p) \in Nat
      /\ \A m \in 1..Len(p) - 1 : Tail(p)[m] = p[m + 1]
      /\ \A i \in Missing :
           \A m \in 1..Len(p) - 1 :
                (i <= p[m + 1] \/ (Offers(i, Len(p)) /\ m = Len(p) - 1))
                  => \E k \in 1..m : log[p[k + 1]] = log[i]
  BY <1>1, <1>2, <1>6, GapTaken, PendingRows
<1>8. PICK q : q = Pending(conn')
  OBVIOUS
<1>9. Len(q) = Len(p) - 1 /\ \A m \in 1..Len(p) - 1 : q[m] = p[m + 1]
  BY <1>3, <1>7, <1>8
<1>10. ASSUME NEW i \in Missing, NEW m \in 1..Len(p) - 1,
             i <= p[m + 1] \/ (Offers(i, Len(p)) /\ m = Len(p) - 1)
      PROVE  \E k \in 1..m : log[q[k]] = log[i]
  <2>1. PICK k \in 1..m : log[p[k + 1]] = log[i]
    BY <1>7, <1>10
  <2>2. k \in 1..Len(p) - 1
    BY <1>7
  <2> QED BY <1>9, <2>1, <2>2
<1>11. InOrder'
  <2> SUFFICES ASSUME NEW m \in 1..Len(q), NEW i \in Missing, i <= q[m]
               PROVE  \E k \in 1..m : log[q[k]] = log[i]
    BY <1>2, <1>3, <1>4, <1>8 DEF InOrder, Offers
  <2> QED BY <1>7, <1>10, <1>9
<1>12. HeardOffered'
  <2> SUFFICES ASSUME conn.open, NEW i \in Missing, Heard(i)
               PROVE  \E k \in 1..Len(q) : log[q[k]] = log[i]
    BY <1>2, <1>3, <1>4, <1>8 DEF HeardOffered, Heard, Offers
  <2>1. Offers(i, Len(p))
    BY <1>1, <1>2 DEF GapInv, HeardOffered
  <2>2. PICK k \in 1..Len(p) : log[p[k]] = log[i]
    BY <1>1, <2>1 DEF Offers
  <2>3. k # 1
    BY <1>6, <1>7, <2>2
  <2>4. Len(p) - 1 \in 1..Len(p) - 1
    BY <1>7, <2>3
  <2> QED BY <1>7, <1>10, <1>9, <2>1, <2>4
<1>13. /\ Connected' /\ Connected
       /\ (\A i \in Missing' : cursor' < i) /\ (\A i \in Missing' : conn'.sent < i)
       /\ conn'.sent <= Len(log')
  BY <1>2, <1>3, <1>4 DEF GapInv, Connected
<1> QED BY <1>3, <1>11, <1>12, <1>13 DEF GapInv, Connected

LEMMA GapStep ==
  ASSUME IInv, Excused, GapInv, [GatewayNext]_gatewayVars
  PROVE  GapInv'
<1>1. pruned \in Nat
  BY LogType DEF IInv
<1>2. ASSUME NEW t \in Tasks, (\E p \in Payloads : Emit(t, p)) \/ Post(t) \/ GiveUp(t)
      PROVE  GapInv'
  <2>1. /\ UNCHANGED <<overtaken, log, pruned, conn, cursor, seen, since, cut>>
        /\ handlers \subseteq handlers'
    BY <1>2 DEF Emit, Post, GiveUp, storeVars, clientVars
  <2> QED BY <1>1, <2>1, MissingShrinks, StreamStays DEF Heard
<1>3. CASE Prune
  <2>1. /\ UNCHANGED <<handlers, overtaken, log, conn, cursor, seen, since, cut>>
        /\ pruned' \in Nat /\ pruned <= pruned'
    BY <1>1, <1>3 DEF Prune, laneVars, clientVars
  <2> QED BY <1>1, <2>1, MissingShrinks, StreamStays DEF Heard
<1>4. CASE UNCHANGED gatewayVars
  <2>1. UNCHANGED <<handlers, overtaken, log, pruned, conn, cursor, seen, since, cut>>
    BY <1>4 DEF gatewayVars, storeVars, clientVars
  <2> QED BY <1>1, <2>1, MissingShrinks, StreamStays DEF Heard
<1>5. CASE EndStream \/ Disconnect \/ Refuse \/ Reopen \/ GatewayCrash
  <2>1. UNCHANGED <<overtaken, log, pruned, cursor, seen, since, cut>>
    BY <1>5 DEF EndStream, Disconnect, Refuse, Reopen, GatewayCrash, laneVars, storeVars
  <2>2. conn'.phase \in {"off", "refused"}
    BY <1>5 DEF EndStream, Disconnect, Refuse, Reopen, GatewayCrash, Off
  <2> QED BY <1>1, <2>1, <2>2, MissingShrinks, StreamEnds
<1> QED BY <1>2, <1>3, <1>4, <1>5, GapLost, GapAppended, GapBroadcast, GapConnect, GapSubscribe,
           GapList, GapSend, GapSkip DEF GatewayNext

LEMMA ExcusedStep ==
  ASSUME IInv, Excused, [GatewayNext]_gatewayVars
  PROVE  Excused'
<1>1. log \in Seq(Events) /\ Len(log) \in Nat /\ pruned \in Nat
  BY LogType DEF IInv
<1>2. LatestID <= Len(log) /\ since \in Nat
  BY <1>1 DEF LatestID, IInv, GatewayTypeOK
<1>3. ASSUME NEW h \in handlers, AppendEvent(h)
      PROVE  Excused'
  <2>1. Event(h.task, h.n) \in Events /\ log' = Append(log, Event(h.task, h.n))
    BY <1>3, HandlerType DEF AppendEvent, IInv, Handler, Events, Event
  <2>2. Len(log') = Len(log) + 1
    BY <1>1, <2>1
  <2> QED BY <1>1, <1>2, <1>3, <2>2 DEF AppendEvent, clientVars, Excused
<1>4. CASE Connect
  BY <1>1, <1>2, <1>4 DEF Connect, storeVars, Excused
<1>5. CASE Prune
  BY <1>1, <1>5 DEF Prune, clientVars, Excused
<1>6. CASE UNCHANGED <<log, pruned, since>>
  BY <1>6 DEF Excused
<1> QED BY <1>3, <1>4, <1>5, <1>6 DEF GatewayNext, Emit, Post, GiveUp, LosePost, FailPost, Broadcast,
           Subscribe, List, Send, Skip, EndStream, GatewayCrash, Disconnect, Refuse, Reopen,
           gatewayVars, storeVars, clientVars

\* Once the browser's cursor has passed an event that the stream owes it, the browser has
\* been given it, whatever tasks the stream carries (streamEvents, publishEvent and the
\* broker).  What is not owed is what was overtaken: a row whose broadcast came after that
\* of a later one, which the stream then skips.
THEOREM NothingIsSkipped == GatewaySpec => []NoGap
<1>1. GatewayInit => Excused /\ GapInv
  BY DEF GatewayInit, Excused, GapInv, Off, Connected, InOrder, HeardOffered, Missing
<1>2. IInv /\ Excused /\ GapInv /\ [GatewayNext]_gatewayVars => (Excused /\ GapInv)'
  BY GapStep, ExcusedStep
<1>3. IInv /\ GapInv => NoGap
  <2> SUFFICES ASSUME IInv, GapInv, ~cut, NEW i \in 1..Len(log), i <= cursor, log[i] \in Owed, log[i] \notin seen
               PROVE  FALSE
    BY DEF NoGap
  <2>1. i \in Missing /\ cursor \in Nat
    BY DEF Missing, IInv, GatewayTypeOK
  <2> QED BY <2>1 DEF GapInv
<1> QED BY <1>1, <1>2, <1>3, InvAlways, PTL DEF GatewaySpec

-----------------------------------------------------------------------------
(* The page over this stream: DialoguePage on what the gateway emitted and delivered. *)

CONSTANTS NoTask, NoView, DiscoveryAttempts, Cards, MaxPageFaults, MaxReloads, Mixed
VARIABLES db, job, step, reply, disc, ledger, discTries, found, watch, page, reloads, pageFaults
\* The page over this gateway's stream: it reads emitted, late and last, and calls the
\* stream refused when the connection is.
Page == INSTANCE DialoguePage WITH
  refused <- conn.phase = "refused", faults <- pageFaults,
  MaxAttempts <- DiscoveryAttempts, MaxFaults <- MaxPageFaults

\* What a view says of a task is true of its reply and of its discovery.
ViewOK(v) ==
  \A t \in Tasks :
    /\ v[t] # "none" => step[t] # "start"
    /\ v[t] = "pending" => disc[t] # "none"
    /\ v[t] = "full" => disc[t] = "none" \/ t \in found
    /\ v[t] = "failed" => discTries[t] > 0

\* What a watcher read of a card's discovery has been its status.
StatusOK(c, status) ==
  /\ c \in Tasks
  /\ step[c] # "start" /\ disc[c] # "none"
  /\ status = "completed" => c \in found
  /\ status = "failed" => discTries[c] > 0

JobsOK ==
  \A t \in Tasks :
    /\ step[t] = "start" => disc[t] = "none"
    /\ disc[t] = "none" => ledger[t] = "none"
    /\ disc[t] \in {"none", "queued"} => discTries[t] = 0
    /\ disc[t] \notin {"none", "queued"} \/ ledger[t] \notin {"none", "queued"} => discTries[t] > 0
    /\ disc[t] = "completed" => t \in found
    /\ ledger[t] = "queued" => discTries[t] < DiscoveryAttempts
    /\ (step[t] \in {"session", "watch", "done", "finish"} \/ watch[t].stage # "none")
         => reply[t] \in Page!Views

WatchOK ==
  \A t \in Tasks :
    /\ watch[t].stage \in {"look", "write", "tell"} => watch[t].current \in Page!Views
    /\ watch[t].stage = "write" => StatusOK(watch[t].card, watch[t].status)

ReadsOK ==
  /\ page.poll.stage # "idle" => page.poll.task \in Tasks
  /\ page.poll.stage = "apply" => page.poll.view \in Page!Views
  /\ page.card.stage = "write" => StatusOK(page.card.task, page.card.status)
  /\ page.card.stage = "apply" => page.card.view \in Page!Views
  /\ page.loading # Page!NoRead => page.loading.view \in Page!Views /\ reloads > 0

\* A view somebody holds, to show it or to write it back: the session, the reply, a watch,
\* an event, or the page and its reads.
Held(v) ==
  \/ v \in {db, page.view, page.poll.view, page.card.view, page.loading.view}
  \/ \E t \in Tasks : v = reply[t] \/ v = watch[t].current
  \/ \E t \in Tasks : \E n \in 1..Len(emitted[t]) : v = emitted[t][n].view

\* What the page knows of the stream is well typed.
StreamOK ==
  /\ late \subseteq [task : Tasks, n : Nat]
  /\ last \in [Tasks -> Nat]
  /\ (conn.phase = "refused") \in BOOLEAN

ViewsOK == \A v \in Page!Views : Held(v) => ViewOK(v)

PageInv ==
  /\ Page!TypeOK
  /\ JobsOK
  /\ WatchOK
  /\ ReadsOK
  /\ ViewsOK
  /\ Page!WaitingIsWatched

-----------------------------------------------------------------------------

LEMMA NoReadType ==
  ASSUME Page!PageAssumption
  PROVE  /\ Page!NoRead \in Page!Reads
         /\ Page!NoRead.task = NoTask /\ Page!NoRead.stage = "idle"
         /\ Page!NoRead.view = NoView /\ NoView \notin Page!Views /\ NoTask \notin Tasks
         /\ Page!Absent \in Page!Views /\ \A t \in Tasks : Page!Absent[t] = "none"
         /\ Page!NoWatch \in Page!Watches
         /\ Page!NoWatch.stage = "none" /\ Page!NoWatch.current = NoView
<1>1. Page!NoRead \in Page!Reads
  BY DEF Page!NoRead, Page!Reads, Page!Statuses, Page!Unfinished
<1>2. Page!Absent \in Page!Views
  BY DEF Page!Absent, Page!Views
<1>3. Page!NoWatch \in Page!Watches
  BY <1>2 DEF Page!NoWatch, Page!Watches, Page!Statuses, Page!Unfinished
<1>4. NoView \notin Page!Views /\ NoTask \notin Tasks
  BY DEF Page!PageAssumption
<1> QED BY <1>1, <1>2, <1>3, <1>4 DEF Page!NoRead, Page!NoWatch, Page!Absent

LEMMA PageInit == ASSUME Page!PageAssumption, Page!Init PROVE PageInv
<1> USE DEF Page!Init
<1>1. db \in Page!Views /\ \A t \in Tasks : db[t] = "none"
  BY NoReadType
<1>2. emitted \in [Tasks -> Seq(Page!PagePayloads)]
  BY DEF Page!StreamInit
<1>3. StreamOK /\ found \subseteq Tasks
  BY DEF Page!StreamInit, StreamOK
<1>4. page \in Page!Pages
  BY <1>1, NoReadType DEF Page!Pages
<1>5. watch \in [Tasks -> Page!Watches]
  BY NoReadType
<1>6. discTries \in [Tasks -> 0..DiscoveryAttempts] /\ reloads \in 0..MaxReloads
      /\ pageFaults \in 0..MaxPageFaults
  BY DEF Page!PageAssumption
<1>7. Page!TypeOK
  BY <1>1, <1>2, <1>3, <1>4, <1>5, <1>6 DEF Page!TypeOK, StreamOK, Page!Statuses, Page!Unfinished
<1>8. JobsOK /\ WatchOK /\ ReadsOK
  BY NoReadType DEF JobsOK, WatchOK, ReadsOK
<1>9. ViewsOK
  <2> SUFFICES ASSUME NEW v \in Page!Views, Held(v) PROVE v = db
    BY <1>1 DEF ViewsOK, ViewOK
  <2>1. \A t \in Tasks : Len(emitted[t]) = 0
    BY DEF Page!StreamInit
  <2> QED BY <2>1, NoReadType DEF Held
<1>10. Page!WaitingIsWatched
  BY DEF Page!WaitingIsWatched
<1> QED BY <1>7, <1>8, <1>9, <1>10 DEF PageInv

-----------------------------------------------------------------------------
(* What a step may do to what is known. *)

\* Replies are not unsaid, and what was found or tried once stays so.
Progress ==
  \A t \in Tasks :
    /\ step[t] # "start" => step'[t] # "start"
    /\ disc[t] # "none" => disc'[t] # "none"
    /\ step[t] # "start" /\ disc[t] = "none" => disc'[t] = "none"
    /\ t \in found => t \in found'
    /\ discTries[t] > 0 => discTries'[t] > 0

LEMMA ViewStays ==
  ASSUME Progress, NEW v \in Page!Views, ViewOK(v)
  PROVE  ViewOK(v)'
<1> SUFFICES ASSUME NEW t \in Tasks
             PROVE  /\ v[t] # "none" => step'[t] # "start"
                    /\ v[t] = "pending" => disc'[t] # "none"
                    /\ v[t] = "full" => disc'[t] = "none" \/ t \in found'
                    /\ v[t] = "failed" => discTries'[t] > 0
  BY DEF ViewOK
<1> QED BY DEF Progress, ViewOK

LEMMA NothingHappens ==
  ASSUME UNCHANGED <<step, disc, ledger, discTries, found>>
  PROVE  Progress
  BY DEF Progress

\* A view that is held was held, or is true by itself.
LEMMA ViewsStay ==
  ASSUME Progress, ViewsOK,
         \A v \in Page!Views : Held(v)' => Held(v) \/ ViewOK(v)'
  PROVE  ViewsOK'
<1> SUFFICES ASSUME NEW v \in Page!Views, Held(v)' PROVE ViewOK(v)'
  BY DEF ViewsOK
<1> QED BY ViewStays DEF ViewsOK

\* What the poll, the card's read and the refresh hold is true while they hold it.
LEMMA ReadsStay ==
  ASSUME Progress, ReadsOK, page' = page, reloads' = reloads
  PROVE  ReadsOK'
<1>1. ASSUME page.card.stage = "write"
      PROVE  StatusOK(page.card.task, page.card.status)'
  BY <1>1 DEF ReadsOK, StatusOK, Progress
<1>3. /\ page'.poll.stage # "idle" => page'.poll.task \in Tasks
      /\ page'.poll.stage = "apply" => page'.poll.view \in Page!Views
      /\ page'.card.stage = "apply" => page'.card.view \in Page!Views
      /\ page'.loading # Page!NoRead => page'.loading.view \in Page!Views /\ reloads' > 0
  BY DEF ReadsOK
<1> QED BY <1>1, <1>3 DEF ReadsOK

\* A watch keeps what it holds.
LEMMA WatchesStay ==
  ASSUME Progress, WatchOK, watch' = watch
  PROVE  WatchOK'
<1>1. ASSUME NEW t \in Tasks, watch[t].stage = "write"
      PROVE  StatusOK(watch[t].card, watch[t].status)'
  BY <1>1 DEF WatchOK, StatusOK, Progress
<1> QED BY <1>1 DEF WatchOK

\* Publishing adds one event, with the view that is published.
LEMMA PublishedView ==
  ASSUME Page!TypeOK, NEW t \in Tasks, NEW type \in Page!Types,
         NEW view \in Page!Views \union {NoView}, Page!Publish(t, type, view)
  PROVE  /\ emitted' \in [Tasks -> Seq(Page!PagePayloads)] /\ late' = late /\ last' = last
         /\ (conn.phase = "refused")' \in BOOLEAN
         /\ \A u \in Tasks : \A n \in 1..Len(emitted'[u]) :
              \/ emitted'[u][n].view = view
              \/ n \in 1..Len(emitted[u]) /\ emitted'[u][n] = emitted[u][n]
<1> DEFINE p == [type |-> type, view |-> view]
<1>1. p \in Page!PagePayloads
  BY DEF Page!PagePayloads
<1>2. /\ emitted' = [emitted EXCEPT ![t] = Append(@, p)] /\ late' = late /\ last' = last
      /\ emitted \in [Tasks -> Seq(Page!PagePayloads)]
  BY DEF Page!Publish, Page!Emit, Page!TypeOK
<1>3. emitted' \in [Tasks -> Seq(Page!PagePayloads)]
  BY <1>1, <1>2
<1>4. ASSUME NEW u \in Tasks, NEW n \in 1..Len(emitted'[u])
      PROVE  \/ emitted'[u][n].view = view
             \/ n \in 1..Len(emitted[u]) /\ emitted'[u][n] = emitted[u][n]
  <2>1. CASE u = t
    <3>1. emitted'[u] = Append(emitted[u], p) /\ emitted[u] \in Seq(Page!PagePayloads)
      BY <1>2, <2>1
    <3>2. Len(emitted'[u]) = Len(emitted[u]) + 1 /\ Len(emitted[u]) \in Nat
      BY <3>1
    <3>3. CASE n = Len(emitted[u]) + 1
      BY <3>1, <3>3
    <3>4. CASE n \in 1..Len(emitted[u])
      BY <3>1, <3>4
    <3> QED BY <3>2, <3>3, <3>4
  <2>2. CASE u # t
    BY <1>2, <2>2
  <2> QED BY <2>1, <2>2
<1> QED BY <1>2, <1>3, <1>4

\* A step of the service or of its workers: the page looks on.
LEMMA BackKeeps ==
  ASSUME PageInv, Progress, page' = page, reloads' = reloads, Page!TypeOK', JobsOK', WatchOK',
         \A v \in Page!Views : Held(v)' => Held(v) \/ ViewOK(v)'
  PROVE  PageInv'
<1>1. ReadsOK' /\ ViewsOK'
  BY ReadsStay, ViewsStay DEF PageInv
<1>2. Page!WaitingIsWatched'
  BY DEF PageInv, Page!WaitingIsWatched
<1> QED BY <1>1, <1>2 DEF PageInv

\* The parts of the page's types that no step of the service touches.
LEMMA BackTypes ==
  ASSUME Page!TypeOK, page' = page, reloads' = reloads, pageFaults' \in 0..MaxPageFaults,
         late' = late, last' = last, (conn.phase = "refused")' \in BOOLEAN,
         emitted' \in [Tasks -> Seq(Page!PagePayloads)], db' \in Page!Views,
         job' \in [Tasks -> Page!Statuses \union {"needs_reconciliation"}],
         step' \in [Tasks -> {"start", "session", "watch", "done", "finish", "raised"}],
         reply' \in [Tasks -> Page!Views \union {NoView}],
         disc' \in [Tasks -> Page!Statuses],
         ledger' \in [Tasks -> Page!Statuses \union {"closed"}], found' \subseteq Tasks,
         discTries' \in [Tasks -> 0..DiscoveryAttempts], watch' \in [Tasks -> Page!Watches]
  PROVE  Page!TypeOK'
  BY DEF Page!TypeOK

-----------------------------------------------------------------------------
(* The dialogue job. *)

LEMMA JobOnly ==
  ASSUME Page!PageAssumption, PageInv, NEW t \in Tasks,
         Page!StartJob(t) \/ Page!FinishJob(t) \/ Page!JobCrashes(t)
  PROVE  PageInv'
<1> USE DEF PageInv
<1>1. /\ UNCHANGED <<emitted, late, last, db, step, reply, disc, ledger, discTries, found, watch, page, reloads>>
      /\ (conn.phase = "refused")' = (conn.phase = "refused")
  BY DEF Page!StartJob, Page!FinishJob, Page!JobCrashes, Page!GoesWrong, Page!streamVars, Page!bounds, Page!discVars
<1>2. \E s \in {"running", "completed", "failed", "needs_reconciliation"} :
         job' = [job EXCEPT ![t] = s]
  BY DEF Page!StartJob, Page!FinishJob, Page!JobCrashes, Page!GoesWrong
<1>3. job' \in [Tasks -> Page!Statuses \union {"needs_reconciliation"}]
  BY <1>2 DEF Page!TypeOK, Page!Statuses, Page!Unfinished
<1>4. pageFaults' \in 0..MaxPageFaults
  BY DEF Page!StartJob, Page!FinishJob, Page!JobCrashes, Page!GoesWrong, Page!bounds, Page!discVars, Page!TypeOK,
     Page!PageAssumption
<1>5. Page!TypeOK'
  BY <1>1, <1>3, <1>4, BackTypes DEF Page!TypeOK
<1>6. Progress /\ JobsOK'
  BY <1>1, NothingHappens DEF JobsOK
<1>7. WatchOK'
  BY <1>1, <1>6, WatchesStay
<1>8. \A v \in Page!Views : Held(v)' => Held(v)
  BY <1>1 DEF Held
<1> QED BY <1>1, <1>5, <1>6, <1>7, <1>8, BackKeeps

\* send_message answers: the session says of the task what its discovery will bear out.
LEMMA ReplyKeeps ==
  ASSUME Page!PageAssumption, PageInv, NEW t \in Tasks, Page!Reply(t)
  PROVE  PageInv'
<1> USE DEF PageInv
<1>1. /\ UNCHANGED <<emitted, late, last, job, discTries, found, watch, page, reloads, pageFaults>>
      /\ (conn.phase = "refused")' = (conn.phase = "refused")
      /\ step[t] = "start" /\ step' = [step EXCEPT ![t] = "session"]
      /\ reply' = [reply EXCEPT ![t] = db']
  BY DEF Page!Reply, Page!streamVars, Page!bounds, Page!discVars
<1>2. PICK card \in {"pending", "full"} :
        /\ db' = [db EXCEPT ![t] = card]
        /\ disc' = [disc EXCEPT ![t] = IF card = "pending" THEN "queued" ELSE "none"]
        /\ ledger' = [ledger EXCEPT ![t] = disc'[t]]
  BY DEF Page!Reply, Page!PageAssumption
<1>3. /\ db' \in Page!Views /\ disc' \in [Tasks -> Page!Statuses]
      /\ ledger' \in [Tasks -> Page!Statuses \union {"closed"}] /\ found' \subseteq Tasks
  <2>1. db' \in Page!Views /\ disc' \in [Tasks -> Page!Statuses]
    BY <1>2 DEF Page!TypeOK, Page!Views, Page!Settled, Page!Statuses, Page!Unfinished
  <2>2. disc'[t] \in Page!Statuses \union {"closed"}
    BY <2>1
  <2>3. ledger' \in [Tasks -> Page!Statuses \union {"closed"}]
    BY <1>2, <2>2 DEF Page!TypeOK
  <2> QED BY <1>1, <2>1, <2>3 DEF Page!TypeOK
<1>4. /\ step' \in [Tasks -> {"start", "session", "watch", "done", "finish", "raised"}]
      /\ reply' \in [Tasks -> Page!Views \union {NoView}]
  BY <1>1, <1>3 DEF Page!TypeOK
<1>5. Page!TypeOK'
  BY <1>1, <1>3, <1>4, BackTypes DEF Page!TypeOK
<1>6. disc[t] = "none" /\ discTries[t] = 0
  BY <1>1 DEF JobsOK
<1>7. /\ \A u \in Tasks : u # t => step'[u] = step[u] /\ disc'[u] = disc[u] /\ db'[u] = db[u]
      /\ step'[t] = "session" /\ db'[t] = card
      /\ disc'[t] = IF card = "pending" THEN "queued" ELSE "none"
      /\ \A u \in Tasks : ledger'[u] = IF u = t THEN disc'[t] ELSE ledger[u]
      /\ \A u \in Tasks : reply'[u] = IF u = t THEN db' ELSE reply[u]
  BY <1>1, <1>2 DEF Page!TypeOK, Page!Views
<1>8. Progress
  BY <1>1, <1>6, <1>7 DEF Progress
<1>9. JobsOK'
  BY <1>1, <1>3, <1>6, <1>7 DEF JobsOK, Page!PageAssumption
<1>10. WatchOK'
  BY <1>1, <1>8, WatchesStay
<1>11. ViewOK(db)'
  <2> SUFFICES ASSUME NEW u \in Tasks
               PROVE  /\ db'[u] # "none" => step'[u] # "start"
                      /\ db'[u] = "pending" => disc'[u] # "none"
                      /\ db'[u] = "full" => disc'[u] = "none" \/ u \in found'
                      /\ db'[u] = "failed" => discTries'[u] > 0
    BY DEF ViewOK
  <2>1. ViewOK(db)
    BY DEF ViewsOK, Held, Page!TypeOK
  <2> QED BY <1>1, <1>7, <2>1 DEF ViewOK
<1>12. ASSUME NEW v \in Page!Views, Held(v)'
       PROVE  Held(v) \/ ViewOK(v)'
  <2>1. CASE v = db'
    BY <1>11, <2>1 DEF ViewOK
  <2>2. CASE v # db'
    BY <1>1, <1>7, <1>12, <2>2 DEF Held
  <2> QED BY <2>1, <2>2
<1> QED BY <1>1, <1>5, <1>8, <1>9, <1>10, <1>12, BackKeeps

\* What was published had been held, or is held now by the job.
LEMMA PublishedHeld ==
  ASSUME NEW view,
         UNCHANGED <<db, page, reply, watch>>,
         \A u \in Tasks : \A n \in 1..Len(emitted'[u]) :
              \/ emitted'[u][n].view = view
              \/ n \in 1..Len(emitted[u]) /\ emitted'[u][n] = emitted[u][n],
         NEW v, Held(v)'
  PROVE  Held(v) \/ v = view
  BY DEF Held

LEMMA PublishKeeps ==
  ASSUME Page!PageAssumption, PageInv, NEW t \in Tasks,
         Page!PublishSession(t) \/ Page!PublishDone(t) \/ Page!JobRaises(t)
  PROVE  PageInv'
<1> USE DEF PageInv
<1>1. /\ UNCHANGED <<db, job, reply, disc, ledger, discTries, found, watch, page, reloads>>
      /\ pageFaults' \in 0..MaxPageFaults
  BY DEF Page!PublishSession, Page!PublishDone, Page!JobRaises, Page!GoesWrong, Page!bounds, Page!discVars, Page!TypeOK,
     Page!PageAssumption
<1>2. PICK type \in Page!Types, view \in {reply[t], NoView} : Page!Publish(t, type, view)
  BY DEF Page!PublishSession, Page!PublishDone, Page!JobRaises, Page!GoesWrong, Page!Types
<1>3. PICK s \in {"watch", "done", "finish", "raised"} :
        /\ step' = [step EXCEPT ![t] = s]
        /\ step[t] \in {"session", "done"} \/ s = "raised"
  BY DEF Page!PublishSession, Page!PublishDone, Page!JobRaises, Page!GoesWrong
<1>4. view \in Page!Views \union {NoView}
  BY DEF Page!TypeOK
<1>5. /\ emitted' \in [Tasks -> Seq(Page!PagePayloads)] /\ late' = late /\ last' = last
      /\ (conn.phase = "refused")' \in BOOLEAN
      /\ \A u \in Tasks : \A n \in 1..Len(emitted'[u]) :
           \/ emitted'[u][n].view = view
           \/ n \in 1..Len(emitted[u]) /\ emitted'[u][n] = emitted[u][n]
  BY <1>2, <1>4, PublishedView
<1>6. \A u \in Tasks : step'[u] = IF u = t THEN s ELSE step[u]
  BY <1>3 DEF Page!TypeOK
<1>7. step' \in [Tasks -> {"start", "session", "watch", "done", "finish", "raised"}]
  BY <1>3 DEF Page!TypeOK
<1>8. Page!TypeOK'
  BY <1>1, <1>5, <1>7, BackTypes DEF Page!TypeOK
<1>9. Progress
  BY <1>1, <1>6 DEF Progress
<1>10. JobsOK'
  BY <1>1, <1>3, <1>6 DEF JobsOK
<1>11. WatchOK'
  BY <1>1, <1>9, WatchesStay
<1>12. ASSUME NEW v \in Page!Views, Held(v)'
       PROVE  Held(v)
  <2>1. Held(v) \/ v = view
    BY <1>1, <1>5, <1>12, PublishedHeld
  <2>2. v = reply[t] => Held(v)
    BY DEF Held
  <2> QED BY <2>1, <2>2, <1>12 DEF Page!PageAssumption
<1> QED BY <1>1, <1>8, <1>9, <1>10, <1>11, <1>12, BackKeeps

-----------------------------------------------------------------------------
(* The discovery job. *)

\* What a step of the discovery does to its row, its job and what was found.
LEMMA DiscoveryMoves ==
  ASSUME Page!PageAssumption, PageInv, NEW t \in Tasks,
         \/ Page!StartDiscovery(t) \/ Page!CompleteDiscovery(t) \/ Page!FinishDiscovery(t)
         \/ Page!FailDiscovery(t) \/ Page!DiscoveryDies(t) \/ Page!CloseDiscovery(t)
  PROVE  \E r \in {"running", "completed", "failed"},
            l \in {"running", "closed", "completed", "queued", "failed"}, n \in 1..DiscoveryAttempts :
           /\ disc[t] # "none"
           /\ disc' = [disc EXCEPT ![t] = r]
           /\ ledger' = [ledger EXCEPT ![t] = l]
           /\ discTries' = [discTries EXCEPT ![t] = n]
           /\ l = "queued" => n < DiscoveryAttempts
           /\ found \subseteq found' /\ found' \subseteq Tasks
           /\ r = "completed" => t \in found'
<1> USE DEF PageInv
<1>1. /\ disc \in [Tasks -> Page!Statuses]
      /\ ledger \in [Tasks -> Page!Statuses \union {"closed"}]
      /\ discTries \in [Tasks -> 0..DiscoveryAttempts] /\ found \subseteq Tasks
      /\ DiscoveryAttempts \in Nat \ {0}
  BY DEF Page!TypeOK, Page!PageAssumption
<1>2. CASE Page!StartDiscovery(t)
  <2>1. /\ ledger[t] = "queued" /\ disc[t] # "none" /\ discTries[t] < DiscoveryAttempts
        /\ disc' = [disc EXCEPT ![t] = "running"]
        /\ ledger' = [ledger EXCEPT ![t] = "running"]
        /\ discTries' = [discTries EXCEPT ![t] = discTries[t] + 1] /\ found' = found
    BY <1>2 DEF Page!StartDiscovery, JobsOK
  <2>2. discTries[t] + 1 \in 1..DiscoveryAttempts
    BY <1>1, <2>1
  <2> QED BY <1>1, <2>1, <2>2
<1>3. ASSUME \/ Page!CompleteDiscovery(t) \/ Page!FinishDiscovery(t) \/ Page!FailDiscovery(t)
             \/ Page!DiscoveryDies(t) \/ Page!CloseDiscovery(t)
      PROVE  /\ ledger[t] \in {"running", "closed"} /\ discTries' = discTries
             /\ disc[t] \in {"running", "completed", "failed"} /\ discTries[t] \in 1..DiscoveryAttempts
  <2>1. ledger[t] \in {"running", "closed"} /\ discTries' = discTries
    BY <1>3 DEF Page!CompleteDiscovery, Page!FinishDiscovery, Page!FailDiscovery,
       Page!DiscoveryDies, Page!CloseDiscovery, Page!Discovering, Page!DiscoveryFault, Page!GoesWrong
  <2>2. disc[t] # "none" /\ discTries[t] > 0
    BY <2>1 DEF JobsOK
  <2>3. disc[t] # "queued"
    BY <1>1, <2>2 DEF JobsOK
  <2> QED BY <1>1, <2>1, <2>2, <2>3 DEF Page!Statuses, Page!Unfinished
<1>4. discTries' = discTries => discTries' = [discTries EXCEPT ![t] = discTries[t]]
  BY <1>1
<1>5. CASE Page!CompleteDiscovery(t)
  <2>1. /\ disc' = [disc EXCEPT ![t] = "completed"] /\ found' = found \union {t}
        /\ ledger' = [ledger EXCEPT ![t] = ledger[t]]
    BY <1>1, <1>5 DEF Page!CompleteDiscovery
  <2>2. /\ ledger[t] \in {"running", "closed"} /\ discTries' = discTries
        /\ disc[t] # "none" /\ discTries[t] \in 1..DiscoveryAttempts
    BY <1>3, <1>5
  <2>3. found \subseteq found' /\ found' \subseteq Tasks /\ t \in found'
    BY <1>1, <2>1
  <2> QED BY <1>4, <2>1, <2>2, <2>3
<1>6. CASE Page!FinishDiscovery(t)
  <2>1. /\ disc' = [disc EXCEPT ![t] = disc[t]] /\ found' = found
        /\ ledger' = [ledger EXCEPT ![t] = "completed"]
    BY <1>1, <1>6 DEF Page!FinishDiscovery
  <2>2. disc[t] = "completed" /\ t \in found
    BY <1>6 DEF Page!FinishDiscovery, JobsOK
  <2> QED BY <1>1, <1>3, <1>4, <1>6, <2>1, <2>2
<1>7. ASSUME Page!TriedAgain(t)
      PROVE  \E l \in {"queued", "failed"} :
               /\ ledger' = [ledger EXCEPT ![t] = l]
               /\ l = "queued" => discTries[t] < DiscoveryAttempts
  BY <1>7 DEF Page!TriedAgain
<1>8. disc[t] = "completed" => t \in found
  BY DEF JobsOK
<1>9. CASE Page!FailDiscovery(t)
  <2>1. disc' = [disc EXCEPT ![t] = "failed"] /\ found' = found /\ Page!TriedAgain(t)
    BY <1>9 DEF Page!FailDiscovery, Page!DiscoveryFault, Page!GoesWrong
  <2>2. PICK l \in {"queued", "failed"} :
          /\ ledger' = [ledger EXCEPT ![t] = l]
          /\ l = "queued" => discTries[t] < DiscoveryAttempts
    BY <1>7, <2>1
  <2> QED BY <1>1, <1>3, <1>4, <1>9, <2>1, <2>2
<1>10. CASE Page!DiscoveryDies(t)
  <2>1. disc' = [disc EXCEPT ![t] = disc[t]] /\ found' = found /\ Page!TriedAgain(t)
    BY <1>1, <1>10 DEF Page!DiscoveryDies, Page!DiscoveryFault, Page!GoesWrong
  <2>2. PICK l \in {"queued", "failed"} :
          /\ ledger' = [ledger EXCEPT ![t] = l]
          /\ l = "queued" => discTries[t] < DiscoveryAttempts
    BY <1>7, <2>1
  <2> QED BY <1>1, <1>3, <1>4, <1>8, <1>10, <2>1, <2>2
<1>11. CASE Page!CloseDiscovery(t)
  <2>1. /\ disc' = [disc EXCEPT ![t] = disc[t]] /\ found' = found
        /\ ledger' = [ledger EXCEPT ![t] = "closed"]
    BY <1>1, <1>11 DEF Page!CloseDiscovery
  <2> QED BY <1>1, <1>3, <1>4, <1>8, <1>11, <2>1
<1> QED BY <1>2, <1>5, <1>6, <1>9, <1>10, <1>11

LEMMA DiscoveryKeeps ==
  ASSUME Page!PageAssumption, PageInv, NEW t \in Tasks,
         \/ Page!StartDiscovery(t) \/ Page!CompleteDiscovery(t) \/ Page!FinishDiscovery(t)
         \/ Page!FailDiscovery(t) \/ Page!DiscoveryDies(t) \/ Page!CloseDiscovery(t)
  PROVE  PageInv'
<1> USE DEF PageInv
<1>1. /\ UNCHANGED <<emitted, late, last, db, job, step, reply, watch, page, reloads>>
      /\ (conn.phase = "refused")' = (conn.phase = "refused")
      /\ pageFaults' \in {pageFaults, pageFaults + 1} /\ pageFaults' \in 0..MaxPageFaults
  BY DEF Page!StartDiscovery, Page!CompleteDiscovery, Page!FinishDiscovery, Page!FailDiscovery,
     Page!DiscoveryDies, Page!CloseDiscovery, Page!DiscoveryFault, Page!GoesWrong, Page!streamVars,
     Page!bounds, Page!TypeOK, Page!PageAssumption
<1>2. PICK r \in {"running", "completed", "failed"},
           l \in {"running", "closed", "completed", "queued", "failed"}, n \in 1..DiscoveryAttempts :
        /\ disc[t] # "none"
        /\ disc' = [disc EXCEPT ![t] = r]
        /\ ledger' = [ledger EXCEPT ![t] = l]
        /\ discTries' = [discTries EXCEPT ![t] = n]
        /\ l = "queued" => n < DiscoveryAttempts
        /\ found \subseteq found' /\ found' \subseteq Tasks
        /\ r = "completed" => t \in found'
  BY DiscoveryMoves
<1>3. /\ disc \in [Tasks -> Page!Statuses]
      /\ ledger \in [Tasks -> Page!Statuses \union {"closed"}]
      /\ discTries \in [Tasks -> 0..DiscoveryAttempts] /\ DiscoveryAttempts \in Nat
  BY DEF Page!TypeOK, Page!PageAssumption
<1>4. /\ disc' \in [Tasks -> Page!Statuses]
      /\ ledger' \in [Tasks -> Page!Statuses \union {"closed"}]
      /\ discTries' \in [Tasks -> 0..DiscoveryAttempts] /\ found' \subseteq Tasks
  BY <1>2, <1>3 DEF Page!Statuses, Page!Unfinished
<1>5. Page!TypeOK'
  BY <1>1, <1>4, BackTypes DEF Page!TypeOK
<1>6. \A u \in Tasks : /\ disc'[u] = IF u = t THEN r ELSE disc[u]
                       /\ ledger'[u] = IF u = t THEN l ELSE ledger[u]
                       /\ discTries'[u] = IF u = t THEN n ELSE discTries[u]
  BY <1>2, <1>3
<1>7. Progress
  BY <1>1, <1>2, <1>6 DEF Progress
<1>8. JobsOK'
  BY <1>1, <1>2, <1>6 DEF JobsOK
<1>9. WatchOK'
  BY <1>1, <1>7, WatchesStay
<1>10. \A v \in Page!Views : Held(v)' => Held(v)
  BY <1>1 DEF Held
<1> QED BY <1>1, <1>5, <1>7, <1>8, <1>9, <1>10, BackKeeps

\* refresh_recommendation_card: whatever has happened to the discovery since its status was
\* read, the session that is written is true.
LEMMA RefreshedView ==
  ASSUME PageInv, NEW c, NEW status \in Page!Statuses, StatusOK(c, status)
  PROVE  \E v \in Page!Views : v = Page!Refreshed(c, status) /\ ViewOK(v)
<1> USE DEF PageInv
<1>1. db \in Page!Views /\ ViewOK(db)
  BY DEF ViewsOK, Held, Page!TypeOK
<1>2. PICK s \in {"pending", "failed", "full"} :
        /\ Page!Refreshed(c, status) = [db EXCEPT ![c] = s]
        /\ s = "failed" => status = "failed"
        /\ s = "full" => status = "completed"
  BY DEF Page!Refreshed, Page!Statuses, Page!Unfinished
<1>3. PICK v \in Page!Views : v = [db EXCEPT ![c] = s]
  BY <1>1, <1>2 DEF StatusOK, Page!Views, Page!Settled
<1>4. \A u \in Tasks : v[u] = IF u = c THEN s ELSE db[u]
  BY <1>1, <1>3 DEF Page!Views
<1>5. ViewOK(v)
  BY <1>1, <1>2, <1>4 DEF ViewOK, StatusOK
<1> QED BY <1>2, <1>3, <1>5

LEMMA WatchType ==
  ASSUME Page!TypeOK, NEW t \in Tasks
  PROVE  /\ watch[t].stage \in {"none", "look", "write", "tell", "over"}
         /\ watch[t].card \in Tasks \union {NoTask} /\ watch[t].status \in Page!Statuses
         /\ watch[t].printed \in Page!Views /\ watch[t].current \in Page!Views \union {NoView}
         /\ watch[t] \in Page!Watches
<1>1. watch[t] \in Page!Watches
  BY DEF Page!TypeOK
<1> QED BY <1>1 DEF Page!Watches

\* One watch changes, and with it at most the session and the events.
LEMMA WatchKeeps ==
  ASSUME Page!PageAssumption, PageInv, NEW t \in Tasks, NEW w \in Page!Watches,
         watch' = [watch EXCEPT ![t] = w],
         w.stage # "none" => reply[t] \in Page!Views,
         w.stage \in {"look", "write", "tell"} => w.current \in Page!Views,
         w.stage = "write" => StatusOK(w.card, w.status),
         w.current \in Page!Views => Held(w.current) \/ ViewOK(w.current),
         db' \in Page!Views, Held(db') \/ ViewOK(db'),
         emitted' \in [Tasks -> Seq(Page!PagePayloads)],
         (conn.phase = "refused")' \in BOOLEAN,
         NEW view \in Page!Views \union {NoView}, view \in Page!Views => Held(view),
         \A u \in Tasks : \A n \in 1..Len(emitted'[u]) :
           \/ emitted'[u][n].view = view
           \/ n \in 1..Len(emitted[u]) /\ emitted'[u][n] = emitted[u][n],
         NEW s \in {"start", "session", "watch", "done", "finish", "raised"},
         step' = [step EXCEPT ![t] = s], s = step[t] \/ (s = "done" /\ reply[t] \in Page!Views),
         UNCHANGED <<late, last, job, reply, disc, ledger, discTries, found, page, reloads>>,
         pageFaults' \in 0..MaxPageFaults
  PROVE  PageInv'
<1> USE DEF PageInv
<1>1. \A u \in Tasks : watch'[u] = IF u = t THEN w ELSE watch[u]
  BY DEF Page!TypeOK
<1>2. \A u \in Tasks : step'[u] = IF u = t THEN s ELSE step[u]
  BY DEF Page!TypeOK
<1>3. watch' \in [Tasks -> Page!Watches]
  BY DEF Page!TypeOK
<1>4. step' \in [Tasks -> {"start", "session", "watch", "done", "finish", "raised"}]
  BY DEF Page!TypeOK
<1>5. Page!TypeOK'
  BY <1>3, <1>4, BackTypes DEF Page!TypeOK
<1>6. Progress
  BY <1>2 DEF Progress
<1>7. JobsOK'
  BY <1>1, <1>2 DEF JobsOK
<1>8. WatchOK'
  <2>1. ASSUME NEW u \in Tasks, watch'[u].stage = "write"
        PROVE  StatusOK(watch[u].card, watch[u].status)'
    BY <1>1, <1>6, <2>1 DEF WatchOK, StatusOK, Progress
  <2>2. ASSUME NEW u \in Tasks, watch'[u].stage \in {"look", "write", "tell"}
        PROVE  watch'[u].current \in Page!Views
    BY <1>1, <2>2 DEF WatchOK
  <2> QED BY <2>1, <2>2 DEF WatchOK
<1>9. ASSUME NEW v \in Page!Views, Held(v)'
      PROVE  Held(v) \/ ViewOK(v)'
  <2>1. CASE v = w.current
    BY <1>6, <2>1, ViewStays
  <2>2. CASE v = db'
    BY <1>6, <2>2, ViewStays
  <2>3. CASE v = view
    BY <2>3
  <2>4. CASE v # w.current /\ v # db' /\ v # view
    <3>1. CASE v \in {page.view, page.poll.view, page.card.view, page.loading.view}
      BY <3>1 DEF Held
    <3>2. CASE \E u \in Tasks : v = reply'[u] \/ v = watch'[u].current
      BY <1>1, <2>4, <3>2 DEF Held
    <3>3. CASE \E u \in Tasks : \E n \in 1..Len(emitted'[u]) : v = emitted'[u][n].view
      <4>1. PICK u \in Tasks : \E n \in 1..Len(emitted'[u]) : v = emitted'[u][n].view
        BY <3>3
      <4>2. PICK n \in 1..Len(emitted'[u]) : v = emitted'[u][n].view
        BY <4>1
      <4>3. n \in 1..Len(emitted[u]) /\ emitted'[u][n] = emitted[u][n]
        BY <2>4, <4>2
      <4> QED BY <4>2, <4>3 DEF Held
    <3> QED BY <1>9, <2>4, <3>1, <3>2, <3>3 DEF Held
  <2> QED BY <2>1, <2>2, <2>3, <2>4
<1> QED BY <1>5, <1>6, <1>7, <1>8, <1>9, BackKeeps

\* A watch that ran before has a reply to start from; so has one that starts now.
LEMMA NewWatchType ==
  ASSUME Page!PageAssumption, Page!TypeOK, NEW t \in Tasks, reply[t] \in Page!Views
  PROVE  /\ Page!NewWatch(t) \in Page!Watches
         /\ Page!NewWatch(t).stage = "look" /\ Page!NewWatch(t).current = reply[t]
<1>1. /\ Page!NoWatch = [stage |-> "none", card |-> NoTask, status |-> "none",
                         printed |-> Page!Absent, current |-> NoView]
      /\ Page!NoWatch \in Page!Watches
  BY NoReadType DEF Page!NoWatch
<1> QED BY <1>1 DEF Page!NewWatch, Page!Watches

\* Nothing is published.
LEMMA NothingPublished ==
  ASSUME Page!TypeOK, emitted' = emitted
  PROVE  /\ emitted' \in [Tasks -> Seq(Page!PagePayloads)]
         /\ NoView \in Page!Views \union {NoView}
         /\ \A u \in Tasks : \A n \in 1..Len(emitted'[u]) :
              \/ emitted'[u][n].view = NoView
              \/ n \in 1..Len(emitted[u]) /\ emitted'[u][n] = emitted[u][n]
  BY DEF Page!TypeOK

\* The watch starts, or starts again, from the reply.
LEMMA WatchStartKeeps ==
  ASSUME Page!PageAssumption, PageInv, NEW t \in Tasks,
         Page!EnqueueWatch(t) \/ Page!WatchCrashes(t)
  PROVE  PageInv'
<1> USE DEF PageInv
<1>1. /\ watch' = [watch EXCEPT ![t] = Page!NewWatch(t)]
      /\ UNCHANGED <<emitted, late, last, db, job, reply, disc, ledger, discTries, found, page, reloads>>
      /\ (conn.phase = "refused")' = (conn.phase = "refused")
      /\ pageFaults' \in 0..MaxPageFaults
  BY DEF Page!EnqueueWatch, Page!WatchCrashes, Page!GoesWrong, Page!streamVars, Page!bounds, Page!discVars, Page!TypeOK,
     Page!PageAssumption
<1>2. reply[t] \in Page!Views
  BY DEF Page!EnqueueWatch, Page!WatchCrashes, Page!GoesWrong, JobsOK
<1>3. PICK w \in Page!Watches : w = Page!NewWatch(t) /\ w.stage = "look" /\ w.current = reply[t]
  BY <1>2, NewWatchType
<1>4. PICK s \in {"start", "session", "watch", "done", "finish", "raised"} :
        step' = [step EXCEPT ![t] = s] /\ (s = step[t] \/ s = "done")
  <2>1. CASE Page!EnqueueWatch(t)
    BY <2>1 DEF Page!EnqueueWatch
  <2>2. CASE Page!WatchCrashes(t)
    BY <2>2 DEF Page!WatchCrashes, Page!GoesWrong, Page!TypeOK
  <2> QED BY <2>1, <2>2
<1>5. db' \in Page!Views /\ Held(db') /\ Held(w.current) /\ (conn.phase = "refused")' \in BOOLEAN
  BY <1>1, <1>3 DEF Held, Page!TypeOK
<1>6. NoView \notin Page!Views
  BY DEF Page!PageAssumption
<1> QED BY <1>1, <1>2, <1>3, <1>4, <1>5, <1>6, NothingPublished, WatchKeeps

LEMMA StepRests ==
  ASSUME Page!TypeOK, NEW t \in Tasks, step' = step
  PROVE  /\ step[t] \in {"start", "session", "watch", "done", "finish", "raised"}
         /\ step' = [step EXCEPT ![t] = step[t]]
  BY DEF Page!TypeOK

\* job_status of a card that is pending: a status the session can be refreshed with.
LEMMA StatusRead ==
  ASSUME PageInv, NEW c \in Tasks, disc[c] # "none", step[c] # "start"
  PROVE  Page!Status(c) \in Page!Statuses /\ StatusOK(c, Page!Status(c))
<1>1. disc[c] \in Page!Statuses
  BY DEF PageInv, Page!TypeOK
<1>2. disc[c] = "failed" \/ ledger[c] \in {"failed", "closed"} => discTries[c] > 0
  BY DEF PageInv, JobsOK
<1>3. disc[c] = "completed" => c \in found
  BY DEF PageInv, JobsOK
<1> QED BY <1>1, <1>2, <1>3 DEF Page!Status, StatusOK, Page!Statuses

LEMMA WatchReadKeeps ==
  ASSUME Page!PageAssumption, PageInv, NEW t \in Tasks, Page!WatchRead(t)
  PROVE  PageInv'
<1> USE DEF PageInv
<1>1. /\ watch[t].stage = "look"
      /\ UNCHANGED <<emitted, late, last, db, job, step, reply, disc, ledger, discTries, found, page, reloads, pageFaults>>
      /\ (conn.phase = "refused")' = (conn.phase = "refused")
  BY DEF Page!WatchRead, Page!streamVars, Page!bounds, Page!discVars
<1>2. PICK c \in Tasks :
        /\ watch[t].current[c] = "pending"
        /\ watch' = [watch EXCEPT ![t].stage = "write", ![t].card = c,
                                  ![t].status = Page!Status(c)]
  BY DEF Page!WatchRead
<1>3. watch[t].current \in Page!Views /\ reply[t] \in Page!Views
  BY <1>1 DEF WatchOK, JobsOK
<1>4. ViewOK(watch[t].current)
  BY <1>3 DEF ViewsOK, Held
<1>5. disc[c] # "none" /\ step[c] # "start"
  BY <1>2, <1>4 DEF ViewOK
<1>6. PICK status \in Page!Statuses : status = Page!Status(c) /\ StatusOK(c, status)
  BY <1>5, StatusRead
<1>7. PICK w : w = [watch[t] EXCEPT !.stage = "write", !.card = c, !.status = status]
  OBVIOUS
<1>8. /\ w \in Page!Watches /\ w.stage = "write" /\ w.card = c /\ w.status = status
      /\ w.current = watch[t].current
  BY <1>6, <1>7, WatchType DEF Page!Watches
<1>9. watch' = [watch EXCEPT ![t] = w]
  BY <1>2, <1>6, <1>7 DEF Page!TypeOK
<1>10. /\ db' \in Page!Views /\ Held(db') /\ Held(w.current) /\ (conn.phase = "refused")' \in BOOLEAN
       /\ pageFaults' \in 0..MaxPageFaults
  BY <1>1, <1>8 DEF Held, Page!TypeOK
<1>11. NoView \notin Page!Views
  BY DEF Page!PageAssumption
<1>12. PICK s \in {"start", "session", "watch", "done", "finish", "raised"} :
         s = step[t] /\ step' = [step EXCEPT ![t] = s]
  BY <1>1, StepRests
<1>13. /\ emitted' \in [Tasks -> Seq(Page!PagePayloads)]
       /\ \A u \in Tasks : \A n \in 1..Len(emitted'[u]) :
            \/ emitted'[u][n].view = NoView
            \/ n \in 1..Len(emitted[u]) /\ emitted'[u][n] = emitted[u][n]
  BY <1>1, NothingPublished
<1>14. w.stage = "write" /\ StatusOK(w.card, w.status) /\ w.current \in Page!Views
  BY <1>3, <1>6, <1>8
<1> HIDE DEF PageInv
<1> QED BY <1>1, <1>3, <1>8, <1>9, <1>10, <1>11, <1>12, <1>13, <1>14, WatchKeeps

\* The watch writes a session refreshed with the status it read before.
LEMMA WatchWriteKeeps ==
  ASSUME Page!PageAssumption, PageInv, NEW t \in Tasks, Page!WatchWrite(t)
  PROVE  PageInv'
<1> USE DEF PageInv
<1>1. /\ watch[t].stage = "write"
      /\ UNCHANGED <<emitted, late, last, job, step, reply, disc, ledger, discTries, found, page, reloads, pageFaults>>
      /\ (conn.phase = "refused")' = (conn.phase = "refused")
      /\ db' = Page!Refreshed(watch[t].card, watch[t].status)
  BY DEF Page!WatchWrite, Page!streamVars, Page!bounds, Page!discVars
<1>2. PICK c \in Tasks, status \in Page!Statuses :
        c = watch[t].card /\ status = watch[t].status /\ StatusOK(c, status)
  BY <1>1, WatchType DEF WatchOK, StatusOK
<1>3. PICK v \in Page!Views : v = Page!Refreshed(c, status) /\ ViewOK(v)
  BY <1>2, RefreshedView
<1>4. db' = v
  BY <1>1, <1>2, <1>3
<1>5. PICK stage \in {"look", "tell"} :
        watch' = [watch EXCEPT ![t] =
          [stage |-> stage, card |-> NoTask, status |-> "none",
           printed |-> [watch[t].printed EXCEPT ![c] = db'[c]], current |-> db']]
  BY <1>2 DEF Page!WatchWrite
<1>6. PICK printed \in Page!Views : printed = [watch[t].printed EXCEPT ![c] = v[c]]
  BY <1>3, WatchType DEF Page!Views
<1>7. PICK w : w = [stage |-> stage, card |-> NoTask, status |-> "none", printed |-> printed,
                    current |-> v]
  OBVIOUS
<1>8. w \in Page!Watches /\ w.stage = stage /\ w.current = v
  BY <1>7 DEF Page!Watches, Page!Statuses, Page!Unfinished
<1>9. watch' = [watch EXCEPT ![t] = w]
  BY <1>4, <1>5, <1>6, <1>7
<1>10. reply[t] \in Page!Views
  BY <1>1 DEF JobsOK
<1>11. (conn.phase = "refused")' \in BOOLEAN /\ pageFaults' \in 0..MaxPageFaults
  BY <1>1 DEF Page!TypeOK
<1>12. NoView \notin Page!Views
  BY DEF Page!PageAssumption
<1>13. PICK s \in {"start", "session", "watch", "done", "finish", "raised"} :
         s = step[t] /\ step' = [step EXCEPT ![t] = s]
  BY <1>1, StepRests
<1>14. /\ w.stage # "write" /\ w.current \in Page!Views /\ ViewOK(w.current)
       /\ db' \in Page!Views /\ ViewOK(db')
  BY <1>3, <1>4, <1>8
<1> QED BY <1>1, <1>8, <1>9, <1>10, <1>11, <1>12, <1>13, <1>14, NothingPublished, WatchKeeps

\* The watch publishes what it wrote last, and goes on or ends.
LEMMA WatchPublishKeeps ==
  ASSUME Page!PageAssumption, PageInv, NEW t \in Tasks, Page!WatchTell(t) \/ Page!WatchEnd(t)
  PROVE  PageInv'
<1> USE DEF PageInv
<1>1. /\ watch[t].stage \in {"look", "tell"}
      /\ UNCHANGED <<db, job, step, reply, disc, ledger, discTries, found, page, reloads, pageFaults>>
      /\ \E type \in Page!Types : Page!Publish(t, type, watch[t].current)
  BY DEF Page!WatchTell, Page!WatchEnd, Page!bounds, Page!discVars, Page!Types
<1>2. /\ watch[t].current \in Page!Views /\ reply[t] \in Page!Views
  BY <1>1 DEF WatchOK, JobsOK
<1>3. PICK view \in Page!Views : view = watch[t].current /\ Held(view)
  BY <1>2 DEF Held
<1>4. /\ emitted' \in [Tasks -> Seq(Page!PagePayloads)] /\ late' = late /\ last' = last
      /\ (conn.phase = "refused")' \in BOOLEAN
      /\ \A u \in Tasks : \A n \in 1..Len(emitted'[u]) :
           \/ emitted'[u][n].view = view
           \/ n \in 1..Len(emitted[u]) /\ emitted'[u][n] = emitted[u][n]
  BY <1>1, <1>3, PublishedView
<1>5. PICK w \in Page!Watches :
        /\ watch' = [watch EXCEPT ![t] = w]
        /\ w.stage \in {"look", "over"}
        /\ w.stage = "look" => w.current = view
        /\ w.current \in {view, NoView}
  <2>1. CASE Page!WatchTell(t)
    <3> DEFINE w == [watch[t] EXCEPT !.stage = "look"]
    <3>1. w \in Page!Watches /\ w.stage = "look" /\ w.current = view
      BY <1>3, WatchType DEF Page!Watches
    <3>2. watch' = [watch EXCEPT ![t] = w]
      BY <2>1 DEF Page!WatchTell, Page!TypeOK
    <3> QED BY <3>1, <3>2
  <2>2. CASE Page!WatchEnd(t)
    <3> DEFINE w == [Page!NoWatch EXCEPT !.stage = "over"]
    <3>1. /\ Page!NoWatch = [stage |-> "none", card |-> NoTask, status |-> "none",
                             printed |-> Page!Absent, current |-> NoView]
          /\ Page!NoWatch \in Page!Watches
      BY NoReadType DEF Page!NoWatch
    <3>2. w \in Page!Watches /\ w.stage = "over" /\ w.current = NoView
      BY <3>1 DEF Page!Watches
    <3>3. watch' = [watch EXCEPT ![t] = w]
      BY <2>2 DEF Page!WatchEnd
    <3> QED BY <3>2, <3>3
  <2> QED BY <2>1, <2>2
<1>6. db' \in Page!Views /\ Held(db') /\ pageFaults' \in 0..MaxPageFaults
  BY <1>1 DEF Held, Page!TypeOK
<1>7. w.current \in Page!Views => Held(w.current)
  BY <1>3, <1>5 DEF Page!PageAssumption
<1>8. PICK s \in {"start", "session", "watch", "done", "finish", "raised"} :
        s = step[t] /\ step' = [step EXCEPT ![t] = s]
  BY <1>1, StepRests
<1>9. view \in Page!Views \union {NoView} /\ w.stage # "write"
      /\ (w.stage \in {"look", "write", "tell"} => w.current \in Page!Views)
  BY <1>5
<1>10. UNCHANGED <<late, last, job, reply, disc, ledger, discTries, found, page, reloads>>
  BY <1>1, <1>4
<1>11. watch' = [watch EXCEPT ![t] = w]
  BY <1>5
<1> HIDE DEF PageInv
<1> QED BY <1>2, <1>3, <1>4, <1>6, <1>7, <1>8, <1>9, <1>10, <1>11, WatchKeeps

-----------------------------------------------------------------------------
(* The page. *)

LEMMA PageType ==
  ASSUME Page!TypeOK
  PROVE  /\ page \in Page!Pages
         /\ page.view \in Page!Views /\ page.sending \in BOOLEAN
         /\ page.asked \in Tasks \union {NoTask} /\ page.active \in Tasks \union {NoTask}
         /\ page.accepted \in SUBSET Tasks /\ page.completed \in SUBSET Tasks
         /\ page.poll \in Page!Reads /\ page.card \in Page!Reads /\ page.loading \in Page!Reads
<1>1. page \in Page!Pages
  BY DEF Page!TypeOK
<1> QED BY <1>1 DEF Page!Pages

\* A step of the page, and of the session it refreshes: what it shows and holds now was held.
LEMMA PageKeeps ==
  ASSUME Page!PageAssumption, PageInv, UNCHANGED <<step, disc, ledger, discTries, found, reply, watch>>,
         db' \in Page!Views, Held(db') \/ ViewOK(db'),
         job' \in [Tasks -> Page!Statuses \union {"needs_reconciliation"}],
         emitted' \in [Tasks -> Seq(Page!PagePayloads)],
         \A u \in Tasks : \A n \in 1..Len(emitted'[u]) :
           \/ emitted'[u][n].view = NoView
           \/ n \in 1..Len(emitted[u]) /\ emitted'[u][n] = emitted[u][n],
         StreamOK',
         page' \in Page!Pages, reloads' \in 0..MaxReloads, pageFaults' \in 0..MaxPageFaults,
         \A v \in Page!Views :
           v \in {page'.view, page'.poll.view, page'.card.view, page'.loading.view}
             => Held(v) \/ v = db',
         ReadsOK', Page!WaitingIsWatched'
  PROVE  PageInv'
<1> USE DEF PageInv
<1>1. Page!TypeOK'
  BY DEF Page!TypeOK, StreamOK
<1>2. Progress
  BY NothingHappens
<1>3. JobsOK'
  BY DEF JobsOK
<1>4. WatchOK'
  BY <1>2, WatchesStay
<1>5. ASSUME NEW v \in Page!Views, Held(v)'
      PROVE  Held(v) \/ ViewOK(v)'
  <2>1. CASE v = db'
    BY <1>2, <2>1, ViewStays
  <2>2. CASE v \in {page'.view, page'.poll.view, page'.card.view, page'.loading.view}
    BY <2>1, <2>2
  <2>3. CASE \E u \in Tasks : v = reply'[u] \/ v = watch'[u].current
    BY <2>3 DEF Held
  <2>4. CASE \E u \in Tasks : \E n \in 1..Len(emitted'[u]) : v = emitted'[u][n].view
    <3>1. PICK u \in Tasks : \E n \in 1..Len(emitted'[u]) : v = emitted'[u][n].view
      BY <2>4
    <3>2. PICK n \in 1..Len(emitted'[u]) : v = emitted'[u][n].view
      BY <3>1
    <3>3. n \in 1..Len(emitted[u]) /\ emitted'[u][n] = emitted[u][n]
      BY <3>2 DEF Page!PageAssumption
    <3> QED BY <3>2, <3>3 DEF Held
  <2> QED BY <1>5, <2>1, <2>2, <2>3, <2>4 DEF Held
<1>6. ViewsOK'
  BY <1>2, <1>5, ViewsStay
<1> QED BY <1>1, <1>3, <1>4, <1>6

\* Its reads, when the card's goes on and the poll is what it may be.
LEMMA PollMoves ==
  ASSUME Page!TypeOK, ReadsOK, UNCHANGED <<step, disc, ledger, discTries, found, reloads>>,
         page'.card = page.card, page'.loading = page.loading,
         page'.poll.stage # "idle" => page'.poll.task \in Tasks,
         page'.poll.stage = "apply" => page'.poll.view \in Page!Views
  PROVE  ReadsOK'
<1>1. ASSUME page'.card.stage = "write"
      PROVE  StatusOK(page.card.task, page.card.status)'
  BY <1>1 DEF ReadsOK, StatusOK
<1>2. /\ page'.card.stage = "apply" => page'.card.view \in Page!Views
      /\ page'.loading # Page!NoRead => page'.loading.view \in Page!Views /\ reloads' > 0
  BY DEF ReadsOK
<1> QED BY <1>1, <1>2 DEF ReadsOK

\* A page that moves alone: the session, the jobs and the events rest.
LEMMA PageAlone ==
  ASSUME Page!PageAssumption, PageInv, UNCHANGED <<db, job, emitted, step, disc, ledger, discTries, found, reply, watch>>,
         StreamOK',
         page' \in Page!Pages, reloads' \in 0..MaxReloads, pageFaults' \in 0..MaxPageFaults,
         \A v \in Page!Views :
           v \in {page'.view, page'.poll.view, page'.card.view, page'.loading.view} => Held(v),
         ReadsOK', Page!WaitingIsWatched'
  PROVE  PageInv'
<1>1. /\ db' \in Page!Views /\ Held(db')
      /\ job' \in [Tasks -> Page!Statuses \union {"needs_reconciliation"}]
  BY DEF PageInv, Page!TypeOK, Held
<1>2. /\ emitted' \in [Tasks -> Seq(Page!PagePayloads)]
      /\ \A u \in Tasks : \A n \in 1..Len(emitted'[u]) :
           \/ emitted'[u][n].view = NoView
           \/ n \in 1..Len(emitted[u]) /\ emitted'[u][n] = emitted[u][n]
  BY NothingPublished DEF PageInv
<1> QED BY <1>1, <1>2, PageKeeps

\* finishActiveTask: the page stops waiting, or goes on as it was.
LEMMA FinishedPage ==
  ASSUME Page!PageAssumption, NEW p \in Page!Pages, NEW t
  PROVE  /\ Page!Finished(p, t) \in Page!Pages
         /\ Page!Finished(p, t).view = p.view /\ Page!Finished(p, t).asked = p.asked
         /\ Page!Finished(p, t).card = p.card /\ Page!Finished(p, t).loading = p.loading
         /\ Page!Finished(p, t).poll \in {p.poll, Page!NoRead}
         /\ Page!Finished(p, t).sending => p.sending /\ Page!Finished(p, t) = p
<1>1. CASE p.active \notin {NoTask, t}
  BY <1>1 DEF Page!Finished
<1>2. CASE p.active \in {NoTask, t}
  <2>1. PICK poll \in Page!Reads :
          poll = IF p.poll.stage = "armed" THEN Page!NoRead ELSE p.poll
    BY NoReadType DEF Page!Pages
  <2>2. Page!Finished(p, t) = [p EXCEPT !.active = NoTask, !.sending = FALSE, !.poll = poll]
    BY <1>2, <2>1 DEF Page!Finished
  <2>3. [p EXCEPT !.active = NoTask, !.sending = FALSE, !.poll = poll] \in Page!Pages
    BY DEF Page!Pages
  <2> QED BY <2>1, <2>2, <2>3 DEF Page!Pages
<1> QED BY <1>1, <1>2

\* What every step of the page leaves alone.
LEMMA PageLeaves ==
  ASSUME Page!PageAssumption, Page!TypeOK,
         \/ Page!Answer \/ Page!AnswerLost \/ Page!PollStep \/ Page!CardApply \/ Page!Reload
         \/ Page!ReloadApply \/ \E t \in Tasks : Page!CardRead(t)
         \/ \E t \in Tasks : \E n \in 1..Len(emitted[t]) :
              Page!Receive(t, n) \/ Page!ReceiveLate(t, n)
  PROVE  /\ UNCHANGED <<db, job, emitted, step, disc, ledger, discTries, found, reply, watch>>
         /\ StreamOK'
         /\ pageFaults' \in 0..MaxPageFaults
<1> USE DEF Page!streamVars, Page!backVars, Page!bounds, Page!discVars, Page!TypeOK, StreamOK,
            Page!PageAssumption
<1>1. CASE Page!Answer
  BY <1>1 DEF Page!Answer, Page!Reopen
<1>2. CASE Page!AnswerLost
  BY <1>2 DEF Page!AnswerLost, Page!GoesWrong
<1>3. CASE Page!PollStep
  BY <1>3 DEF Page!PollStep, Page!PollStatus, Page!PollFetch, Page!PollApply
<1>4. CASE Page!CardApply \/ \E t \in Tasks : Page!CardRead(t)
  BY <1>4 DEF Page!CardApply, Page!CardRead
<1>5. CASE Page!Reload
  BY <1>5 DEF Page!Reload
<1>6. CASE Page!ReloadApply
  BY <1>6 DEF Page!ReloadApply, Page!Reopen
<1>7. ASSUME NEW t \in Tasks, NEW n \in 1..Len(emitted[t]),
             Page!Receive(t, n) \/ Page!ReceiveLate(t, n)
      PROVE  /\ UNCHANGED <<db, job, emitted, step, disc, ledger, discTries, found, reply, watch>>
             /\ StreamOK'
             /\ pageFaults' \in 0..MaxPageFaults
  <2>1. /\ UNCHANGED <<db, job, emitted, step, disc, ledger, discTries, found, reply, watch>>
        /\ last' \in {last, [last EXCEPT ![t] = n]}
        /\ late' \in {late, late \union {[task |-> t, n |-> n]}}
        /\ (conn.phase = "refused")' = (conn.phase = "refused")
    BY <1>7 DEF Page!Receive, Page!ReceiveLate, Page!GoesWrong, Page!Deliver, Page!GiveUp
  <2>2. n \in Nat
    OBVIOUS
  <2>3. last' \in [Tasks -> Nat]
    BY <2>1, <2>2
  <2>4. late' \subseteq [task : Tasks, n : Nat]
    <3>1. [task |-> t, n |-> n] \in [task : Tasks, n : Nat]
      BY <2>2
    <3> QED BY <2>1, <3>1
  <2>5. pageFaults' \in 0..MaxPageFaults
    BY <1>7 DEF Page!Receive, Page!ReceiveLate, Page!GoesWrong
  <2> QED BY <2>1, <2>3, <2>4, <2>5
<1> QED BY <1>1, <1>2, <1>3, <1>4, <1>5, <1>6, <1>7

\* What the page holds is held.
LEMMA PageHolds ==
  ASSUME Page!TypeOK
  PROVE  /\ Held(db) /\ Held(page.view) /\ Held(page.poll.view) /\ Held(page.card.view)
         /\ Held(page.loading.view)
  BY DEF Held

\* sendMessage: the task is queued, its event published, and the page waits for the answer.
LEMMA SubmitKeeps ==
  ASSUME Page!PageAssumption, PageInv, NEW t \in Tasks, Page!Submit(t)
  PROVE  PageInv'
<1> USE DEF PageInv
<1>1. /\ UNCHANGED <<db, step, reply, disc, ledger, discTries, found, watch, reloads, pageFaults>>
      /\ page' = [page EXCEPT !.sending = TRUE, !.asked = t]
      /\ job' = [job EXCEPT ![t] = "queued"]
      /\ Page!Publish(t, "task", NoView)
  BY DEF Page!Submit, Page!bounds, Page!discVars
<1>2. "task" \in Page!Types /\ NoView \in Page!Views \union {NoView}
  BY DEF Page!Types
<1>3. /\ emitted' \in [Tasks -> Seq(Page!PagePayloads)] /\ late' = late /\ last' = last
      /\ (conn.phase = "refused")' \in BOOLEAN
      /\ \A u \in Tasks : \A n \in 1..Len(emitted'[u]) :
           \/ emitted'[u][n].view = NoView
           \/ n \in 1..Len(emitted[u]) /\ emitted'[u][n] = emitted[u][n]
  BY <1>1, <1>2, PublishedView
<1>4. /\ page' \in Page!Pages /\ page'.view = page.view /\ page'.poll = page.poll
      /\ page'.card = page.card /\ page'.loading = page.loading /\ page'.asked = t
  BY <1>1, PageType DEF Page!Pages
<1>5. ReadsOK'
  BY <1>1, <1>4, PollMoves DEF ReadsOK
<1>6. Page!WaitingIsWatched'
  BY <1>4 DEF Page!WaitingIsWatched, Page!PageAssumption
<1>7. job' \in [Tasks -> Page!Statuses \union {"needs_reconciliation"}]
  BY <1>1 DEF Page!TypeOK, Page!Statuses, Page!Unfinished
<1>8. /\ db' \in Page!Views /\ Held(db') /\ StreamOK'
      /\ reloads' \in 0..MaxReloads /\ pageFaults' \in 0..MaxPageFaults
  BY <1>1, <1>3, PageHolds DEF Page!TypeOK, StreamOK
<1>9. \A v \in Page!Views :
        v \in {page'.view, page'.poll.view, page'.card.view, page'.loading.view} => Held(v)
  BY <1>4, PageHolds
<1> HIDE DEF PageInv
<1> QED BY <1>1, <1>3, <1>4, <1>5, <1>6, <1>7, <1>8, <1>9, PageKeeps

\* The answer: the page follows the task with its poll, unless the task is over already.
LEMMA AnswerKeeps ==
  ASSUME Page!PageAssumption, PageInv, Page!Answer
  PROVE  PageInv'
<1> USE DEF PageInv
<1>1. /\ UNCHANGED <<db, job, emitted, step, disc, ledger, discTries, found, reply, watch>>
      /\ StreamOK'
      /\ pageFaults' \in 0..MaxPageFaults /\ reloads' = reloads /\ reloads' \in 0..MaxReloads
  BY PageLeaves DEF Page!Answer, Page!bounds, Page!discVars, Page!TypeOK
<1>2. PICK t \in Tasks : t = page.asked /\ t # NoTask
  BY PageType DEF Page!Answer
<1>3. PICK poll \in Page!Reads :
        /\ poll = [Page!NoRead EXCEPT !.task = t, !.stage = "armed"]
        /\ poll.task = t /\ poll.stage = "armed" /\ poll.view = NoView
  <2> DEFINE read == [Page!NoRead EXCEPT !.task = t, !.stage = "armed"]
  <2>1. read \in Page!Reads /\ read.task = t /\ read.stage = "armed" /\ read.view = NoView
    BY NoReadType DEF Page!Reads
  <2> QED BY <2>1
<1>4. PICK accepted \in SUBSET Tasks, completed \in SUBSET Tasks :
        \/ page' = [page EXCEPT !.asked = NoTask, !.accepted = accepted,
                                !.completed = completed, !.sending = FALSE]
        \/ page' = [page EXCEPT !.asked = NoTask, !.accepted = accepted, !.active = t,
                                !.poll = poll]
  <2>1. page.accepted \union {t} \in SUBSET Tasks /\ page.completed \ {t} \in SUBSET Tasks
    BY PageType
  <2> QED BY <1>2, <1>3, <2>1, PageType DEF Page!Answer
<1>5. /\ page' \in Page!Pages /\ page'.view = page.view /\ page'.card = page.card
      /\ page'.loading = page.loading
      /\ \/ ~page'.sending /\ page'.poll = page.poll
         \/ page'.active = t /\ page'.poll = poll
  <2>1. CASE page' = [page EXCEPT !.asked = NoTask, !.accepted = accepted,
                                  !.completed = completed, !.sending = FALSE]
    BY <2>1, PageType DEF Page!Pages
  <2>2. CASE page' = [page EXCEPT !.asked = NoTask, !.accepted = accepted, !.active = t,
                                  !.poll = poll]
    BY <2>2, PageType DEF Page!Pages
  <2> QED BY <1>4, <2>1, <2>2
<1>6. ReadsOK'
  BY <1>1, <1>3, <1>5, PollMoves DEF ReadsOK
<1>7. Page!WaitingIsWatched'
  BY <1>2, <1>3, <1>5 DEF Page!WaitingIsWatched
<1>8. \A v \in Page!Views :
        v \in {page'.view, page'.poll.view, page'.card.view, page'.loading.view} => Held(v)
  BY <1>3, <1>5, PageHolds DEF Page!PageAssumption
<1> HIDE DEF PageInv
<1> QED BY <1>1, <1>5, <1>6, <1>7, <1>8, PageAlone

LEMMA AnswerLostKeeps ==
  ASSUME Page!PageAssumption, PageInv, Page!AnswerLost
  PROVE  PageInv'
<1> USE DEF PageInv
<1>1. /\ UNCHANGED <<db, job, emitted, step, disc, ledger, discTries, found, reply, watch>>
      /\ StreamOK'
      /\ pageFaults' \in 0..MaxPageFaults /\ reloads' = reloads /\ reloads' \in 0..MaxReloads
  BY PageLeaves DEF Page!AnswerLost, Page!GoesWrong, Page!TypeOK
<1>2. page' = [page EXCEPT !.asked = NoTask, !.sending = FALSE]
  BY DEF Page!AnswerLost, Page!GoesWrong
<1>3. /\ page' \in Page!Pages /\ page'.view = page.view /\ page'.card = page.card
      /\ page'.loading = page.loading /\ ~page'.sending /\ page'.poll = page.poll
  BY <1>2, PageType DEF Page!Pages
<1>4. ReadsOK'
  BY <1>1, <1>3, PollMoves DEF ReadsOK
<1>5. Page!WaitingIsWatched'
  BY <1>3 DEF Page!WaitingIsWatched
<1>6. \A v \in Page!Views :
        v \in {page'.view, page'.poll.view, page'.card.view, page'.loading.view} => Held(v)
  BY <1>3, PageHolds
<1> HIDE DEF PageInv
<1> QED BY <1>1, <1>3, <1>4, <1>5, <1>6, PageAlone

\* handleStreamEvent: an event shows its session, and may end or begin a task, never a wait.
LEMMA HandledPage ==
  ASSUME Page!PageAssumption, NEW p \in Page!Pages, NEW t \in Tasks,
         NEW payload \in Page!PagePayloads
  PROVE  LET q == Page!Handled(p, t, payload)
         IN /\ q \in Page!Pages /\ q.view \in {p.view, payload.view}
            /\ q.asked = p.asked /\ q.card = p.card /\ q.loading = p.loading
            /\ q.poll \in {p.poll, Page!NoRead}
            /\ q.sending => /\ p.sending /\ q.poll = p.poll
                            /\ q.active = p.active \/ p.active = NoTask
<1>1. PICK shown \in Page!Pages :
        /\ shown = IF payload.view = NoView THEN p ELSE [p EXCEPT !.view = payload.view]
        /\ shown.view \in {p.view, payload.view} /\ shown.asked = p.asked /\ shown.card = p.card
        /\ shown.loading = p.loading /\ shown.poll = p.poll /\ shown.sending = p.sending
        /\ shown.active = p.active /\ shown.completed = p.completed
  <2>1. CASE payload.view = NoView
    BY <2>1
  <2>2. CASE payload.view # NoView
    <3> DEFINE shown == [p EXCEPT !.view = payload.view]
    <3>1. payload.view \in Page!Views
      BY <2>2 DEF Page!PagePayloads
    <3>2. /\ shown \in Page!Pages
          /\ shown.view = payload.view /\ shown.asked = p.asked /\ shown.card = p.card
          /\ shown.loading = p.loading /\ shown.poll = p.poll /\ shown.sending = p.sending
          /\ shown.active = p.active /\ shown.completed = p.completed
      BY <3>1 DEF Page!Pages
    <3> HIDE DEF shown
    <3>3. shown = IF payload.view = NoView THEN p ELSE [p EXCEPT !.view = payload.view]
      BY <2>2 DEF shown
    <3> QED BY <3>2, <3>3
  <2> QED BY <2>1, <2>2
<1>2. PICK told \in Page!Pages :
        /\ told = [shown EXCEPT !.completed = @ \union {t}]
        /\ told.view = shown.view /\ told.asked = shown.asked /\ told.card = shown.card
        /\ told.loading = shown.loading /\ told.poll = shown.poll
        /\ told.sending = shown.sending /\ told.active = shown.active
  <2> DEFINE told == [shown EXCEPT !.completed = @ \union {t}]
  <2>1. shown.completed \union {t} \in SUBSET Tasks
    BY DEF Page!Pages
  <2>2. /\ told \in Page!Pages
        /\ told.view = shown.view /\ told.asked = shown.asked /\ told.card = shown.card
        /\ told.loading = shown.loading /\ told.poll = shown.poll
        /\ told.sending = shown.sending /\ told.active = shown.active
    BY <2>1 DEF Page!Pages
  <2> QED BY <2>2
<1>3. PICK begun \in Page!Pages :
        /\ begun = [shown EXCEPT !.active = t]
        /\ begun.view = shown.view /\ begun.asked = shown.asked /\ begun.card = shown.card
        /\ begun.loading = shown.loading /\ begun.poll = shown.poll
        /\ begun.sending = shown.sending
  <2> DEFINE begun == [shown EXCEPT !.active = t]
  <2>1. /\ begun \in Page!Pages
        /\ begun.view = shown.view /\ begun.asked = shown.asked /\ begun.card = shown.card
        /\ begun.loading = shown.loading /\ begun.poll = shown.poll
        /\ begun.sending = shown.sending
    BY DEF Page!Pages
  <2> QED BY <2>1
<1>4. \/ Page!Handled(p, t, payload) = begun /\ p.active = NoTask
      \/ Page!Handled(p, t, payload) = Page!Finished(shown, t)
      \/ Page!Handled(p, t, payload) = Page!Finished(told, t)
      \/ Page!Handled(p, t, payload) = shown
  <2>1. Page!Handled(p, t, payload) =
          CASE payload.type = "task" /\ p.sending /\ p.active = NoTask -> begun
            [] payload.type = "error" -> Page!Finished(shown, t)
            [] payload.type = "done" -> Page!Finished(told, t)
            [] OTHER -> shown
    BY <1>1, <1>2, <1>3 DEF Page!Handled
  <2> QED BY <2>1
<1>5. CASE Page!Handled(p, t, payload) = begun /\ p.active = NoTask
  BY <1>1, <1>3, <1>5
<1>6. CASE Page!Handled(p, t, payload) = Page!Finished(shown, t)
  <2>1. PICK f \in Page!Pages :
          /\ f = Page!Finished(shown, t) /\ f.view = shown.view /\ f.asked = shown.asked
          /\ f.card = shown.card /\ f.loading = shown.loading
          /\ f.poll \in {shown.poll, Page!NoRead} /\ (f.sending => shown.sending /\ f = shown)
    BY FinishedPage
  <2>2. f.sending => p.sending /\ f.poll = p.poll /\ f.active = p.active
    BY <1>1, <2>1
  <2> QED BY <1>1, <1>6, <2>1, <2>2
<1>7. CASE Page!Handled(p, t, payload) = Page!Finished(told, t)
  <2>1. PICK f \in Page!Pages :
          /\ f = Page!Finished(told, t) /\ f.view = told.view /\ f.asked = told.asked
          /\ f.card = told.card /\ f.loading = told.loading
          /\ f.poll \in {told.poll, Page!NoRead} /\ (f.sending => told.sending /\ f = told)
    BY FinishedPage
  <2>2. f.sending => p.sending /\ f.poll = p.poll /\ f.active = p.active
    BY <1>1, <1>2, <2>1
  <2> QED BY <1>1, <1>2, <1>7, <2>1, <2>2
<1>8. CASE Page!Handled(p, t, payload) = shown
  BY <1>1, <1>8
<1> QED BY <1>4, <1>5, <1>6, <1>7, <1>8

\* A poll that ends, or goes on as it was, holds nothing new.
LEMMA PollRests ==
  ASSUME Page!PageAssumption, ReadsOK, page'.poll \in {page.poll, Page!NoRead}
  PROVE  /\ page'.poll.stage # "idle" => page'.poll.task \in Tasks
         /\ page'.poll.stage = "apply" => page'.poll.view \in Page!Views
         /\ page'.poll.view \in {page.poll.view, NoView}
  BY NoReadType DEF ReadsOK

LEMMA ReceiveKeeps ==
  ASSUME Page!PageAssumption, PageInv, NEW t \in Tasks, NEW n \in 1..Len(emitted[t]),
         Page!Receive(t, n) \/ Page!ReceiveLate(t, n)
  PROVE  PageInv'
<1> USE DEF PageInv
<1>1. /\ UNCHANGED <<db, job, emitted, step, disc, ledger, discTries, found, reply, watch>>
      /\ StreamOK'
      /\ pageFaults' \in 0..MaxPageFaults
  BY PageLeaves
<1>2. reloads' = reloads /\ reloads' \in 0..MaxReloads
  BY DEF Page!Receive, Page!ReceiveLate, Page!GoesWrong, Page!TypeOK
<1>3. PICK payload \in Page!PagePayloads : payload = emitted[t][n]
  BY DEF Page!TypeOK
<1>4. PICK p \in Page!Pages : p = page
  BY PageType
<1>5. page' = Page!Handled(p, t, payload)
  BY <1>3, <1>4 DEF Page!Receive, Page!ReceiveLate, Page!GoesWrong
<1>6. /\ page' \in Page!Pages /\ page'.view \in {page.view, payload.view}
      /\ page'.asked = page.asked /\ page'.card = page.card /\ page'.loading = page.loading
      /\ page'.poll \in {page.poll, Page!NoRead}
      /\ page'.sending => /\ page.sending /\ page'.poll = page.poll
                          /\ page'.active = page.active \/ page.active = NoTask
  BY <1>4, <1>5, HandledPage
<1>7. ReadsOK'
  BY <1>1, <1>2, <1>6, PollRests, PollMoves
<1>8. Page!WaitingIsWatched'
  BY <1>2, <1>6 DEF Page!WaitingIsWatched
<1>9. Held(payload.view)
  BY <1>3 DEF Held
<1>10. \A v \in Page!Views :
         v \in {page'.view, page'.poll.view, page'.card.view, page'.loading.view} => Held(v)
  BY <1>6, <1>9, PageHolds, PollRests DEF Page!PageAssumption
<1> HIDE DEF PageInv
<1> QED BY <1>1, <1>2, <1>6, <1>7, <1>8, <1>10, PageAlone

\* armTaskReconciliation: what became of the task is read, then the session is read and shown.
LEMMA PollKeeps ==
  ASSUME Page!PageAssumption, PageInv, Page!PollStep
  PROVE  PageInv'
<1> USE DEF PageInv
<1>1. /\ UNCHANGED <<db, job, emitted, step, disc, ledger, discTries, found, reply, watch>>
      /\ StreamOK'
      /\ pageFaults' \in 0..MaxPageFaults
  BY PageLeaves
<1>2. reloads' = reloads /\ reloads' \in 0..MaxReloads /\ db \in Page!Views
  BY DEF Page!PollStep, Page!PollStatus, Page!PollFetch, Page!PollApply, Page!bounds, Page!discVars, Page!TypeOK
<1>3. PICK p \in Page!Pages : p = page
  BY PageType
<1>4. ASSUME NEW poll \in Page!Reads, page' = [page EXCEPT !.poll = poll],
             poll.stage # "idle" => poll.task \in Tasks,
             poll.stage = "apply" => poll.view \in Page!Views,
             poll.view \in Page!Views => Held(poll.view),
             \/ poll.task = page.poll.task /\ poll.stage # "idle" /\ page.poll.stage # "idle"
             \/ page.active # page.poll.task
      PROVE  PageInv'
  <2>1. /\ page' \in Page!Pages /\ page'.view = page.view /\ page'.card = page.card
        /\ page'.loading = page.loading /\ page'.poll = poll /\ page'.sending = page.sending
        /\ page'.asked = page.asked /\ page'.active = page.active
    BY <1>4, PageType DEF Page!Pages
  <2>2. ReadsOK'
    BY <1>1, <1>2, <1>4, <2>1, PollMoves
  <2>3. Page!WaitingIsWatched'
    BY <1>2, <1>4, <2>1 DEF Page!WaitingIsWatched
  <2>4. \A v \in Page!Views :
          v \in {page'.view, page'.poll.view, page'.card.view, page'.loading.view} => Held(v)
    BY <1>4, <2>1, PageHolds
  <2> HIDE DEF PageInv
  <2> QED BY <1>1, <1>2, <2>1, <2>2, <2>3, <2>4, PageAlone
<1>5. ASSUME NEW q \in Page!Pages, NEW t, page' = Page!Finished(q, t),
             q.view \in Page!Views, Held(q.view), q.poll \in {page.poll, Page!NoRead},
             q.card = page.card, q.loading = page.loading, q.asked = page.asked,
             q.sending = page.sending, q.active = page.active,
             q.poll = page.poll \/ page.active = t
      PROVE  PageInv'
  <2>1. PICK f \in Page!Pages :
          /\ f = Page!Finished(q, t) /\ f.view = q.view /\ f.asked = q.asked
          /\ f.card = q.card /\ f.loading = q.loading
          /\ f.poll \in {q.poll, Page!NoRead} /\ (f.sending => q.sending /\ f = q)
    BY FinishedPage
  <2>2. f = page' /\ page'.poll \in {page.poll, Page!NoRead}
    BY <1>5, <2>1
  <2>3. ReadsOK'
    BY <1>1, <1>2, <1>5, <2>1, <2>2, PollRests, PollMoves
  <2>4. f.sending => f.poll = page.poll /\ f.active = page.active
    <3>1. ASSUME page.active = t, f.sending PROVE FALSE
      <4>1. ~f.sending
        BY <1>5, <2>1, <3>1 DEF Page!Finished, Page!Pages
      <4> QED BY <3>1, <4>1
    <3> QED BY <1>5, <2>1, <3>1
  <2>5. Page!WaitingIsWatched'
    BY <1>2, <1>5, <2>1, <2>2, <2>4 DEF Page!WaitingIsWatched
  <2>6. \A v \in Page!Views :
          v \in {page'.view, page'.poll.view, page'.card.view, page'.loading.view} => Held(v)
    BY <1>5, <2>1, <2>2, PageHolds, PollRests DEF Page!PageAssumption
  <2> HIDE DEF PageInv
  <2> QED BY <1>1, <1>2, <2>1, <2>2, <2>3, <2>5, <2>6, PageAlone
<1>6. PICK t : t = page.poll.task
  OBVIOUS
<1>7. CASE Page!PollStatus
  <2>1. page.poll.stage = "armed" /\ t \in Tasks
    BY <1>6, <1>7 DEF Page!PollStatus, ReadsOK
  <2>2. CASE page' = [page EXCEPT !.poll.stage = "fetch"]
    <3>1. PICK poll \in Page!Reads :
            /\ poll = [page.poll EXCEPT !.stage = "fetch"]
            /\ poll.stage = "fetch" /\ poll.task = page.poll.task /\ poll.view = page.poll.view
      <4> DEFINE poll == [page.poll EXCEPT !.stage = "fetch"]
      <4>1. /\ poll \in Page!Reads
            /\ poll.stage = "fetch" /\ poll.task = page.poll.task /\ poll.view = page.poll.view
        BY PageType DEF Page!Reads
      <4> QED BY <4>1
    <3>2. page' = [page EXCEPT !.poll = poll]
      BY <2>2, <3>1, PageType DEF Page!Pages
    <3> QED BY <1>4, <1>6, <2>1, <3>1, <3>2, PageHolds
  <2>3. CASE page' = Page!Finished(page, t)
    <3>1. page' = Page!Finished(p, t)
      BY <1>3, <2>3
    <3> QED BY <1>3, <1>5, <3>1, PageType, PageHolds
  <2> QED BY <1>6, <1>7, <2>2, <2>3 DEF Page!PollStatus
<1>8. CASE Page!PollFetch
  <2>1. page.poll.stage = "fetch" /\ t \in Tasks
    BY <1>6, <1>8 DEF Page!PollFetch, ReadsOK
  <2>2. PICK poll \in Page!Reads :
          /\ poll = [page.poll EXCEPT !.stage = "apply", !.view = db]
          /\ poll.stage = "apply" /\ poll.task = page.poll.task /\ poll.view = db
    <3> DEFINE poll == [page.poll EXCEPT !.stage = "apply", !.view = db]
    <3>1. /\ poll \in Page!Reads
          /\ poll.stage = "apply" /\ poll.task = page.poll.task /\ poll.view = db
      BY <1>2, PageType DEF Page!Reads
    <3> QED BY <3>1
  <2>3. page' = [page EXCEPT !.poll = poll]
    BY <1>8, <2>2, PageType DEF Page!PollFetch, Page!Pages
  <2>4. Held(poll.view)
    BY <2>2, PageHolds
  <2> QED BY <1>2, <1>4, <1>6, <2>1, <2>2, <2>3, <2>4
<1>9. CASE Page!PollApply
  <2>1. page.poll.stage = "apply" /\ t \in Tasks /\ page.poll.view \in Page!Views
    BY <1>6, <1>9 DEF Page!PollApply, ReadsOK
  <2>2. CASE page.active # t
    <3>1. page' = [page EXCEPT !.poll = Page!NoRead]
      BY <1>6, <1>9, <2>2 DEF Page!PollApply
    <3>2. PICK poll \in Page!Reads : poll = Page!NoRead /\ poll.stage = "idle" /\ poll.view \notin Page!Views
      BY NoReadType
    <3> QED BY <1>4, <1>6, <2>2, <3>1, <3>2
  <2>3. CASE page.active = t
    <3>1. PICK q \in Page!Pages :
            /\ q = [page EXCEPT !.view = page.poll.view, !.completed = @ \union {t},
                                !.poll = Page!NoRead]
            /\ q.view = page.poll.view /\ q.poll = Page!NoRead /\ q.card = page.card
            /\ q.loading = page.loading /\ q.asked = page.asked
            /\ q.sending = page.sending /\ q.active = page.active
      <4> DEFINE q == [page EXCEPT !.view = page.poll.view, !.completed = @ \union {t},
                                   !.poll = Page!NoRead]
      <4>1. page.completed \union {t} \in SUBSET Tasks /\ Page!NoRead \in Page!Reads
        BY <2>1, PageType, NoReadType
      <4>2. /\ q \in Page!Pages
            /\ q.view = page.poll.view /\ q.poll = Page!NoRead /\ q.card = page.card
            /\ q.loading = page.loading /\ q.asked = page.asked
            /\ q.sending = page.sending /\ q.active = page.active
        BY <2>1, <4>1, PageType DEF Page!Pages
      <4> QED BY <4>2
    <3>2. page' = Page!Finished(q, t)
      BY <1>6, <1>9, <2>3, <3>1 DEF Page!PollApply
    <3>3. Held(q.view)
      BY <3>1, PageHolds
    <3> QED BY <1>5, <2>1, <2>3, <3>1, <3>2, <3>3
  <2> QED BY <2>2, <2>3
<1> QED BY <1>7, <1>8, <1>9 DEF Page!PollStep

\* reconcileDiscovery: the status of a pending card is read, the session refreshed with it,
\* and shown.
LEMMA CardReadKeeps ==
  ASSUME Page!PageAssumption, PageInv, NEW c \in Tasks, Page!CardRead(c)
  PROVE  PageInv'
<1> USE DEF PageInv
<1>1. /\ UNCHANGED <<db, job, emitted, step, disc, ledger, discTries, found, reply, watch>>
      /\ StreamOK'
      /\ pageFaults' \in 0..MaxPageFaults
  BY PageLeaves
<1>2. reloads' = reloads /\ reloads' \in 0..MaxReloads
  BY DEF Page!CardRead, Page!bounds, Page!discVars, Page!TypeOK
<1>3. page.view[c] = "pending" /\ page.view \in Page!Views
  BY PageType DEF Page!CardRead
<1>4. disc[c] # "none" /\ step[c] # "start"
  BY <1>3, PageHolds DEF ViewsOK, ViewOK
<1>5. PICK status \in Page!Statuses : status = Page!Status(c) /\ StatusOK(c, status)
  BY <1>4, StatusRead
<1>6. PICK card \in Page!Reads :
        /\ card = [Page!NoRead EXCEPT !.task = c, !.stage = "write", !.status = status]
        /\ card.task = c /\ card.stage = "write" /\ card.status = status /\ card.view = NoView
  <2> DEFINE card == [Page!NoRead EXCEPT !.task = c, !.stage = "write", !.status = status]
  <2>1. /\ card \in Page!Reads
        /\ card.task = c /\ card.stage = "write" /\ card.status = status /\ card.view = NoView
    BY NoReadType DEF Page!Reads
  <2> QED BY <2>1
<1>7. page' = [page EXCEPT !.card = card]
  BY <1>5, <1>6 DEF Page!CardRead
<1>8. /\ page' \in Page!Pages /\ page'.view = page.view /\ page'.card = card
      /\ page'.loading = page.loading /\ page'.poll = page.poll /\ page'.sending = page.sending
      /\ page'.asked = page.asked /\ page'.active = page.active
  BY <1>7, PageType DEF Page!Pages
<1>9. ReadsOK'
  <2>1. StatusOK(page.card.task, page.card.status)'
    BY <1>1, <1>5, <1>6, <1>8 DEF StatusOK
  <2> QED BY <1>2, <1>6, <1>8, <2>1 DEF ReadsOK
<1>10. Page!WaitingIsWatched'
  BY <1>2, <1>8 DEF Page!WaitingIsWatched
<1>11. \A v \in Page!Views :
         v \in {page'.view, page'.poll.view, page'.card.view, page'.loading.view} => Held(v)
  BY <1>6, <1>8, PageHolds DEF Page!PageAssumption
<1> HIDE DEF PageInv
<1> QED BY <1>1, <1>2, <1>8, <1>9, <1>10, <1>11, PageAlone

LEMMA CardWriteKeeps ==
  ASSUME Page!PageAssumption, PageInv, Page!CardWrite
  PROVE  PageInv'
<1> USE DEF PageInv
<1>1. /\ UNCHANGED <<emitted, late, last, job, step, reply, disc, ledger, discTries, found, watch, reloads, pageFaults>>
      /\ (conn.phase = "refused")' = (conn.phase = "refused")
      /\ page.card.stage = "write"
      /\ db' = Page!Refreshed(page.card.task, page.card.status)
      /\ page' = [page EXCEPT !.card.stage = "apply", !.card.view = db']
  BY DEF Page!CardWrite, Page!streamVars, Page!bounds, Page!discVars
<1>2. PICK c \in Tasks, status \in Page!Statuses :
        c = page.card.task /\ status = page.card.status /\ StatusOK(c, status)
  BY <1>1, PageType DEF ReadsOK, StatusOK, Page!Reads
<1>3. PICK v \in Page!Views : v = Page!Refreshed(c, status) /\ ViewOK(v)
  BY <1>2, RefreshedView
<1>4. db' = v
  BY <1>1, <1>2, <1>3
<1>5. PICK card \in Page!Reads :
        /\ card = [page.card EXCEPT !.stage = "apply", !.view = v]
        /\ card.stage = "apply" /\ card.view = v
  <2> DEFINE card == [page.card EXCEPT !.stage = "apply", !.view = v]
  <2>1. card \in Page!Reads /\ card.stage = "apply" /\ card.view = v
    BY PageType DEF Page!Reads
  <2> QED BY <2>1
<1>6. page' = [page EXCEPT !.card = card]
  BY <1>1, <1>4, <1>5, PageType DEF Page!Pages
<1>7. /\ page' \in Page!Pages /\ page'.view = page.view /\ page'.card = card
      /\ page'.loading = page.loading /\ page'.poll = page.poll /\ page'.sending = page.sending
      /\ page'.asked = page.asked /\ page'.active = page.active
  BY <1>6, PageType DEF Page!Pages
<1>8. ReadsOK'
  <2>1. /\ page'.poll.stage # "idle" => page'.poll.task \in Tasks
        /\ page'.poll.stage = "apply" => page'.poll.view \in Page!Views
        /\ page'.loading # Page!NoRead => page'.loading.view \in Page!Views /\ reloads' > 0
    BY <1>1, <1>7 DEF ReadsOK
  <2> QED BY <1>5, <1>7, <2>1 DEF ReadsOK
<1>9. Page!WaitingIsWatched'
  BY <1>1, <1>7 DEF Page!WaitingIsWatched
<1>10. \A w \in Page!Views :
         w \in {page'.view, page'.poll.view, page'.card.view, page'.loading.view}
           => Held(w) \/ w = db'
  BY <1>4, <1>5, <1>7, PageHolds
<1>11. /\ db' \in Page!Views /\ ViewOK(db')
  BY <1>3, <1>4
<1>12. /\ StreamOK'
       /\ reloads' \in 0..MaxReloads /\ pageFaults' \in 0..MaxPageFaults
       /\ job' \in [Tasks -> Page!Statuses \union {"needs_reconciliation"}]
  BY <1>1 DEF Page!TypeOK, StreamOK
<1>13. /\ emitted' \in [Tasks -> Seq(Page!PagePayloads)]
       /\ \A u \in Tasks : \A n \in 1..Len(emitted'[u]) :
            \/ emitted'[u][n].view = NoView
            \/ n \in 1..Len(emitted[u]) /\ emitted'[u][n] = emitted[u][n]
  BY <1>1, NothingPublished
<1>14. UNCHANGED <<step, disc, ledger, discTries, found, reply, watch>>
  BY <1>1
<1> HIDE DEF PageInv
<1> QED BY <1>7, <1>8, <1>9, <1>10, <1>11, <1>12, <1>13, <1>14, PageKeeps

LEMMA CardApplyKeeps ==
  ASSUME Page!PageAssumption, PageInv, Page!CardApply
  PROVE  PageInv'
<1> USE DEF PageInv
<1>1. /\ UNCHANGED <<db, job, emitted, step, disc, ledger, discTries, found, reply, watch>>
      /\ StreamOK'
      /\ pageFaults' \in 0..MaxPageFaults
  BY PageLeaves
<1>2. /\ reloads' = reloads /\ reloads' \in 0..MaxReloads
      /\ page' = [page EXCEPT !.view = page.card.view, !.card = Page!NoRead]
      /\ page.card.view \in Page!Views
  BY DEF Page!CardApply, Page!bounds, Page!discVars, Page!TypeOK, ReadsOK
<1>3. /\ page' \in Page!Pages /\ page'.view = page.card.view /\ page'.card = Page!NoRead
      /\ page'.loading = page.loading /\ page'.poll = page.poll /\ page'.sending = page.sending
      /\ page'.asked = page.asked /\ page'.active = page.active
  BY <1>2, PageType, NoReadType DEF Page!Pages
<1>4. ReadsOK'
  BY <1>2, <1>3, NoReadType DEF ReadsOK
<1>5. Page!WaitingIsWatched'
  BY <1>2, <1>3 DEF Page!WaitingIsWatched
<1>6. \A v \in Page!Views :
        v \in {page'.view, page'.poll.view, page'.card.view, page'.loading.view} => Held(v)
  BY <1>3, PageHolds, NoReadType
<1> HIDE DEF PageInv
<1> QED BY <1>1, <1>2, <1>3, <1>4, <1>5, <1>6, PageAlone

\* The refresh button.
LEMMA ReloadKeeps ==
  ASSUME Page!PageAssumption, PageInv, Page!Reload
  PROVE  PageInv'
<1> USE DEF PageInv
<1>1. /\ UNCHANGED <<db, job, emitted, step, disc, ledger, discTries, found, reply, watch>>
      /\ StreamOK'
      /\ pageFaults' \in 0..MaxPageFaults
  BY PageLeaves
<1>2. reloads' = reloads + 1 /\ reloads \in Nat /\ reloads' \in 0..MaxReloads
  BY DEF Page!Reload, Page!TypeOK, Page!PageAssumption
<1>3. PICK read \in Page!Reads :
        read = [Page!NoRead EXCEPT !.stage = "apply", !.view = db] /\ read.view = db
  <2> DEFINE read == [Page!NoRead EXCEPT !.stage = "apply", !.view = db]
  <2>1. read \in Page!Reads /\ read.view = db
    BY NoReadType DEF Page!Reads, Page!TypeOK
  <2> QED BY <2>1
<1>4. page' = [page EXCEPT !.loading = read]
  BY <1>3 DEF Page!Reload
<1>5. /\ page' \in Page!Pages /\ page'.view = page.view /\ page'.card = page.card
      /\ page'.loading = read /\ page'.poll = page.poll /\ page'.sending = page.sending
      /\ page'.asked = page.asked /\ page'.active = page.active
  BY <1>4, PageType DEF Page!Pages
<1>6. ReadsOK'
  <2>1. ASSUME page'.card.stage = "write"
        PROVE  StatusOK(page.card.task, page.card.status)'
    BY <1>1, <1>5, <2>1 DEF ReadsOK, StatusOK
  <2>2. read.view \in Page!Views
    BY <1>3 DEF Page!TypeOK
  <2> QED BY <1>2, <1>5, <2>1, <2>2 DEF ReadsOK
<1>7. Page!WaitingIsWatched'
  BY <1>2, <1>5 DEF Page!WaitingIsWatched
<1>8. \A v \in Page!Views :
        v \in {page'.view, page'.poll.view, page'.card.view, page'.loading.view} => Held(v)
  BY <1>3, <1>5, PageHolds
<1> HIDE DEF PageInv
<1> QED BY <1>1, <1>2, <1>5, <1>6, <1>7, <1>8, PageAlone

LEMMA ReloadApplyKeeps ==
  ASSUME Page!PageAssumption, PageInv, Page!ReloadApply
  PROVE  PageInv'
<1> USE DEF PageInv
<1>1. /\ UNCHANGED <<db, job, emitted, step, disc, ledger, discTries, found, reply, watch>>
      /\ StreamOK'
      /\ pageFaults' \in 0..MaxPageFaults
  BY PageLeaves
<1>2. /\ reloads' = reloads /\ reloads \in Nat /\ reloads' \in 0..MaxReloads /\ reloads > 0
      /\ page.loading.view \in Page!Views
  BY DEF Page!ReloadApply, Page!bounds, Page!discVars, Page!TypeOK, ReadsOK
<1>3. PICK poll \in {page.poll, Page!NoRead} :
        page' = [page EXCEPT !.view = page.loading.view, !.loading = Page!NoRead, !.poll = poll]
  <2>1. CASE conn.phase = "refused" /\ page.poll.stage = "armed"
    BY <2>1 DEF Page!ReloadApply
  <2>2. CASE ~(conn.phase = "refused" /\ page.poll.stage = "armed")
    BY <2>2 DEF Page!ReloadApply
  <2> QED BY <2>1, <2>2
<1>4. poll \in Page!Reads
  BY PageType, NoReadType
<1>5. /\ page' \in Page!Pages /\ page'.view = page.loading.view /\ page'.card = page.card
      /\ page'.loading = Page!NoRead /\ page'.poll = poll /\ page'.sending = page.sending
      /\ page'.asked = page.asked /\ page'.active = page.active
  BY <1>2, <1>3, <1>4, PageType, NoReadType DEF Page!Pages
<1>6. ReadsOK'
  <2>1. ASSUME page'.card.stage = "write"
        PROVE  StatusOK(page.card.task, page.card.status)'
    BY <1>1, <1>5, <2>1 DEF ReadsOK, StatusOK
  <2>2. page'.card.stage = "apply" => page'.card.view \in Page!Views
    BY <1>5 DEF ReadsOK
  <2>3. page'.loading = Page!NoRead
    BY <1>5
  <2> QED BY <1>5, <2>1, <2>2, <2>3, PollRests DEF ReadsOK, Page!NoRead
<1>7. Page!WaitingIsWatched'
  BY <1>2, <1>5 DEF Page!WaitingIsWatched
<1>8. \A v \in Page!Views :
        v \in {page'.view, page'.poll.view, page'.card.view, page'.loading.view} => Held(v)
  BY <1>5, PageHolds, NoReadType
<1> HIDE DEF PageInv
<1> QED BY <1>1, <1>2, <1>5, <1>6, <1>7, <1>8, PageAlone

\* The stream is refused, or nothing happens.
LEMMA StreamRests ==
  ASSUME Page!PageAssumption, PageInv, Page!StreamRefused \/ UNCHANGED Page!vars
  PROVE  PageInv'
<1> USE DEF PageInv
<1>1. /\ UNCHANGED <<db, job, emitted, late, last, step, disc, ledger, discTries, found, reply, watch, page, reloads>>
      /\ (conn.phase = "refused")' \in BOOLEAN
  BY DEF Page!StreamRefused, Page!GoesWrong, Page!Refuse, Page!vars, Page!streamVars, Page!backVars, Page!bounds, Page!discVars
<1>2. pageFaults' \in 0..MaxPageFaults
  BY DEF Page!StreamRefused, Page!GoesWrong, Page!vars, Page!bounds, Page!discVars, Page!TypeOK, Page!PageAssumption
<1>3. page' \in Page!Pages /\ StreamOK' /\ reloads' \in 0..MaxReloads
  BY <1>1 DEF Page!TypeOK, StreamOK
<1>4. ReadsOK'
  BY <1>1, PollMoves DEF ReadsOK
<1>5. Page!WaitingIsWatched'
  BY <1>1 DEF Page!WaitingIsWatched
<1>6. \A v \in Page!Views :
        v \in {page'.view, page'.poll.view, page'.card.view, page'.loading.view} => Held(v)
  BY <1>1, PageHolds
<1>7. UNCHANGED <<db, job, emitted, step, disc, ledger, discTries, found, reply, watch>>
  BY <1>1
<1> HIDE DEF PageInv
<1> QED BY <1>1, <1>2, <1>3, <1>4, <1>5, <1>6, <1>7, PageAlone

LEMMA PageStep ==
  ASSUME Page!PageAssumption, PageInv, [Page!Next]_Page!vars
  PROVE  PageInv'
<1>1. CASE UNCHANGED Page!vars
  BY <1>1, StreamRests
<1>2. ASSUME NEW t \in Tasks, Page!Submit(t)
      PROVE  PageInv'
  BY <1>2, SubmitKeeps
<1>3. ASSUME NEW t \in Tasks, Page!JobStep(t)
      PROVE  PageInv'
  BY <1>3, JobOnly, ReplyKeeps, PublishKeeps, WatchStartKeeps DEF Page!JobStep
<1>4. ASSUME NEW t \in Tasks, Page!DiscoveryStep(t) \/ Page!CloseDiscovery(t)
      PROVE  PageInv'
  BY <1>4, DiscoveryKeeps DEF Page!DiscoveryStep
<1>5. ASSUME NEW t \in Tasks, Page!WatchStep(t)
      PROVE  PageInv'
  BY <1>5, WatchReadKeeps, WatchWriteKeeps, WatchPublishKeeps DEF Page!WatchStep
<1>6. ASSUME NEW t \in Tasks, NEW n \in 1..Len(emitted[t]),
             Page!Receive(t, n) \/ Page!ReceiveLate(t, n)
      PROVE  PageInv'
  BY <1>6, ReceiveKeeps
<1>7. CASE Page!Answer \/ Page!PollStep \/ Page!CardStep
  BY <1>7, AnswerKeeps, PollKeeps, CardReadKeeps, CardWriteKeeps, CardApplyKeeps DEF Page!CardStep
<1>8. CASE Page!Reload \/ Page!ReloadApply
  BY <1>8, ReloadKeeps, ReloadApplyKeeps
<1>9. CASE Page!Fault
  BY <1>9, PublishKeeps, JobOnly, DiscoveryKeeps, WatchStartKeeps, AnswerLostKeeps, StreamRests
  DEF Page!Fault
<1> QED BY <1>1, <1>2, <1>3, <1>4, <1>5, <1>6, <1>7, <1>8, <1>9 DEF Page!Next

LEMMA PageInvAlways == ASSUME Page!PageAssumption PROVE Page!Spec => []PageInv
<1>1. Page!Init => PageInv
  BY PageInit
<1>2. PageInv /\ [Page!Next]_Page!vars => PageInv'
  BY PageStep
<1> QED BY <1>1, <1>2, PTL DEF Page!Spec

\* Every reachable state of a dialogue session is well typed: the tasks that answer its
\* messages (DialogueTaskService), their discoveries, the watch and the page.
THEOREM PageTypes == ASSUME Page!PageAssumption PROVE Page!Spec => []Page!TypeOK
<1>1. PageInv => Page!TypeOK
  BY DEF PageInv
<1> QED BY <1>1, PageInvAlways, PTL

\* What the page shows of a task was true of it: a card shown pending has a discovery, one
\* shown filled needs none or its songs were found, one shown failed was tried, though the
\* ledger may run a discovery again after its row said completed (_run_job, job_status,
\* refresh_recommendation_card, _watch_discovery, handleStreamEvent and the page's polls).
THEOREM PageShowsTheTruth == ASSUME Page!PageAssumption PROVE Page!Spec => []Page!CardsAreTrue
<1>1. PageInv => Page!CardsAreTrue
  BY PageType, PageHolds DEF PageInv, ViewsOK, ViewOK, Page!CardsAreTrue
<1> QED BY <1>1, PageInvAlways, PTL

\* While nobody clicks refresh, a page that waits for a message waits for the answer to its
\* POST or has a poll that follows the task (sendMessage, armTaskReconciliation).
THEOREM PageIsNotForgotten == ASSUME Page!PageAssumption PROVE Page!Spec => []Page!WaitingIsWatched
<1>1. PageInv => Page!WaitingIsWatched
  BY DEF PageInv
<1> QED BY <1>1, PageInvAlways, PTL
=============================================================================
