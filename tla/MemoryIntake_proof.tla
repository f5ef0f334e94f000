-------------------------- MODULE MemoryIntake_proof --------------------------
(* Proofs about MemoryIntake, for every log, every number of workers, callers,    *)
(* memories and tool calls, and any number of schedules, crashes and errors.      *)
(*                                                                                *)
(* What makes the checkpoint safe is that a report, once made, holds a proposal   *)
(* for every event up to its end that nobody has handled: a stale worker may put  *)
(* the checkpoint back or forward, but only to an end all of whose events its own *)
(* report has disposed of.  An event a memory names as its source counts as       *)
(* handled, because sources come from proposals that were logged.                 *)
EXTENDS MemoryIntake, SequenceTheorems, TLAPS

Entry == [id : Ids, of : Memories, after : Record]

\* The event a proposal was made for.
Tells(p, e) == p.id.from = "event" /\ p.id.what = e

SourcesOK(p) == \A e \in p.sources : Handled(e) \/ Tells(p, e)

JobOK ==
  /\ job.status = "pending" => job.attempts < MaxAttempts
  /\ \A w \in Workers : worker[w].attempts <= MaxAttempts /\ worker[w].upto <= events

RecordsOK ==
  /\ \A m \in Memories : \A e \in mem[m].sources : Handled(e)
  /\ \A i \in 1..Len(log) : \A e \in log[i].after.sources : Handled(e)

\* A memory the log knows has a last entry.
LastOK ==
  \A m \in Memories : Entries(m) # {} => \E i \in Entries(m) : \A j \in Entries(m) : j <= i

CallersOK == \A c \in Callers : caller[c] # Nothing => caller[c].sources = {}

Working == {"next", "checked", "review"}

\* What a report has still to do about an event.
Planned(report, e) == report[e] # Nothing /\ Tells(report[e], e)

PlanOK(u) ==
  /\ \A i \in Places : u.plan[i] # Nothing => SourcesOK(u.plan[i])
  /\ u.pc \in Working =>
       \A e \in 1..u.upto : Kind[e] # "chat" => Handled(e) \/ Planned(u.plan, e)

PlansOK == \A w \in Workers : PlanOK(worker[w])

\* The inductive invariant.
IInv ==
  /\ TypeOK /\ JobOK /\ RecordsOK /\ LastOK /\ CallersOK /\ PlansOK
  /\ NothingSkipped /\ ReplayRebuilds

-----------------------------------------------------------------------------
(* What the operators return. *)

LEMMA ProposalIsSomething ==
  ASSUME NEW p \in Proposal
  PROVE  p # Nothing
<1>1. "of" \in DOMAIN p
  BY DEF Proposal
<1>2. "of" \notin DOMAIN Nothing
  BY DEF Nothing
<1> QED BY <1>1, <1>2

LEMMA Constants ==
  /\ Last \in Nat /\ Events \subseteq Places /\ Events = 1..Last
  /\ MaxAttempts \in Nat /\ MaxAttempts > 0
  /\ Absent \in Record /\ Absent.sources = {}
  /\ Out \in Worker /\ Out.pc = "out" /\ Out.attempts = 0 /\ Out.upto = 0
  /\ \A i \in Places : Out.plan[i] = Nothing
<1>1. Last \in Nat /\ MaxAttempts \in Nat /\ MaxAttempts > 0 /\ Events = 1..Last
  BY ConstantsAssumption DEF Events
<1>2. Events \subseteq Places
  BY <1>1 DEF Places
<1>3. Absent \in Record /\ Absent.sources = {}
  BY DEF Absent, Record
<1>4. 0 \in 0..Last /\ [i \in Places |-> Nothing] \in Report
  BY <1>1 DEF Report
<1>5. Out \in Worker
  BY <1>4 DEF Out, Worker
<1>6. Out.pc = "out" /\ Out.attempts = 0 /\ Out.upto = 0 /\ \A i \in Places : Out.plan[i] = Nothing
  BY DEF Out
<1> QED BY <1>1, <1>2, <1>3, <1>5, <1>6

LEMMA ProposalFields ==
  ASSUME NEW p \in Proposal
  PROVE  /\ p.id \in Ids /\ p.of \in Memories /\ p.status \in {"active", "archived"}
         /\ p.sources \in SUBSET Events
  BY DEF Proposal

\* A proposal makes a record of a record.
LEMMA AfterIsRecord ==
  ASSUME NEW p \in Proposal, mem \in [Memories -> Record]
  PROVE  /\ After(p) \in Record
         /\ After(p).sources \subseteq mem[p.of].sources \cup p.sources
<1>1. mem[p.of] \in Record
  BY ProposalFields
<1>2. /\ mem[p.of].version \in Nat /\ mem[p.of].version + 1 \in Nat
      /\ mem[p.of].sources \in SUBSET Events
  BY <1>1 DEF Record
<1> DEFINE gone == [mem[p.of] EXCEPT !.status = "superseded", !.version = @ + 1]
           kept == [status |-> p.status, version |-> mem[p.of].version + 1,
                    sources |-> mem[p.of].sources \cup p.sources]
<1>3. gone \in Record /\ gone.sources = mem[p.of].sources
  BY <1>1, <1>2 DEF Record
<1>4. kept \in Record /\ kept.sources = mem[p.of].sources \cup p.sources
  BY <1>2, ProposalFields DEF Record
<1>5. After(p) = IF p.id.action = "delete" THEN Absent
                 ELSE IF p.id.action = "supersede" THEN gone ELSE kept
  BY DEF After
<1> HIDE DEF gone, kept
<1> QED BY <1>3, <1>4, <1>5, Constants

-----------------------------------------------------------------------------
(* The log only grows, so what was handled stays handled. *)

Grows == log' = log \/ \E x \in Entry : log' = Append(log, x)

LEMMA LogGrows ==
  ASSUME log \in Seq(Entry), Grows
  PROVE  /\ log' \in Seq(Entry) /\ Len(log) \in Nat /\ Len(log) <= Len(log')
         /\ \A i \in 1..Len(log) : log'[i] = log[i]
<1>1. CASE log' = log
  BY <1>1
<1>2. CASE \E x \in Entry : log' = Append(log, x)
  BY <1>2
<1> QED BY <1>1, <1>2 DEF Grows

LEMMA HandledStays ==
  ASSUME log \in Seq(Entry), Grows, reviews \subseteq reviews',
         NEW e, Handled(e)
  PROVE  Handled(e)'
<1>1. CASE \E i \in DOMAIN log : log[i].id.from = "event" /\ log[i].id.what = e
  <2>1. PICK i \in 1..Len(log) : log[i].id.from = "event" /\ log[i].id.what = e
    BY <1>1
  <2>2. i \in 1..Len(log') /\ log'[i] = log[i]
    BY <2>1, LogGrows
  <2>3. DOMAIN log' = 1..Len(log')
    BY LogGrows
  <2> QED BY <2>1, <2>2, <2>3 DEF Handled
<1>2. CASE \E id \in reviews : id.from = "event" /\ id.what = e
  BY <1>2 DEF Handled
<1> QED BY <1>1, <1>2 DEF Handled

\* A proposal that is logged, or filed for review, has its event handled.
LEMMA LoggedIsHandled ==
  ASSUME NEW p, NEW e, Tells(p, e), Logged(p.id) \/ p.id \in reviews
  PROVE  Handled(e)
  BY DEF Tells, Logged, Handled

-----------------------------------------------------------------------------
(* What a step leaves alone. *)

LEMMA Typed ==
  ASSUME TypeOK
  PROVE  /\ events \in 0..Last /\ checkpoint \in 0..events
         /\ job.status \in {"absent", "pending", "running", "succeeded", "dead_letter"}
         /\ job.attempts \in 0..MaxAttempts
         /\ mem \in [Memories -> Record] /\ log \in Seq(Entry)
         /\ worker \in [Workers -> Worker]
         /\ \A w \in Workers : /\ worker[w] \in Worker
                               /\ worker[w].attempts \in Nat /\ worker[w].upto \in 0..Last
                               /\ worker[w].plan \in Report
  BY DEF TypeOK, Entry, Worker

LEMMA UnchangedTables ==
  ASSUME TypeOK, RecordsOK, LastOK, ReplayRebuilds, UNCHANGED tables, reviews \subseteq reviews'
  PROVE  Grows /\ RecordsOK' /\ LastOK' /\ ReplayRebuilds'
<1>1. /\ mem' = mem /\ tomb' = tomb /\ log' = log /\ raced' = raced
      /\ unlogged' = unlogged
  BY DEF tables
<1>2. Grows
  BY <1>1 DEF Grows
<1>3. RecordsOK'
  BY <1>1, <1>2, Typed, HandledStays DEF RecordsOK
<1>4. LastOK'
  BY <1>1 DEF LastOK, Entries
<1>5. ReplayRebuilds'
  <2>1. Replayed' = Replayed /\ Deleted' = Deleted
    BY <1>1 DEF Replayed, Deleted, Entries
  <2> QED BY <1>1, <2>1 DEF ReplayRebuilds
<1> QED BY <1>2, <1>3, <1>4, <1>5

-----------------------------------------------------------------------------
(* The transaction of a proposal, whoever asks for it. *)

LEMMA Applied ==
  ASSUME TypeOK, RecordsOK, LastOK, ReplayRebuilds,
         NEW p \in Proposal, SourcesOK(p), Apply(p), reviews' = reviews
  PROVE  /\ mem' \in [Memories -> Record] /\ tomb' \subseteq Memories
         /\ raced' \in BOOLEAN /\ unlogged' \subseteq Memories /\ Grows
         /\ Answer(p) = "succeeded" => Logged(p.id)'
         /\ RecordsOK' /\ LastOK' /\ ReplayRebuilds'
<1> DEFINE x == [id |-> p.id, of |-> p.of, after |-> After(p)]
<1>1. /\ log \in Seq(Entry) /\ Len(log) \in Nat /\ DOMAIN log = 1..Len(log)
      /\ mem \in [Memories -> Record] /\ tomb \subseteq Memories /\ raced \in BOOLEAN
      /\ unlogged \subseteq Memories
  BY DEF TypeOK, Entry
<1>2. /\ x \in Entry /\ x.id = p.id /\ x.of = p.of /\ x.after = After(p)
      /\ p.of \in Memories
  BY <1>1, ProposalFields, AfterIsRecord DEF Entry
<1> HIDE DEF x
<1>3. CASE Answer(p) # "succeeded"
  <2>1. UNCHANGED tables
    BY <1>3 DEF Apply
  <2>2. mem' = mem /\ tomb' = tomb /\ raced' = raced /\ unlogged' = unlogged
    BY <2>1 DEF tables
  <2>3. Grows /\ RecordsOK' /\ LastOK' /\ ReplayRebuilds'
    BY <2>1, UnchangedTables
  <2> QED BY <1>1, <1>3, <2>2, <2>3
<1>4. CASE Answer(p) = "succeeded"
  <2>1. /\ mem' = [mem EXCEPT ![p.of] = After(p)]
        /\ tomb' = IF p.id.action = "delete" THEN tomb \cup {p.of} ELSE tomb
        /\ raced' = (raced \/ Logged(p.id)) /\ unlogged' = unlogged \ {p.of}
        /\ log' = IF Logged(p.id) THEN log ELSE Append(log, x)
    BY <1>4 DEF Apply, Logs, x
  <2>2. /\ mem' \in [Memories -> Record] /\ tomb' \subseteq Memories /\ raced' \in BOOLEAN
        /\ unlogged' \subseteq Memories
    BY <1>1, <1>2, <2>1, AfterIsRecord
  <2>3. Grows
    BY <1>2, <2>1 DEF Grows
  <2>4. Logged(p.id)'
    <3>1. CASE Logged(p.id)
      BY <2>1, <3>1 DEF Logged
    <3>2. CASE ~Logged(p.id)
      <4>1. log' = Append(log, x)
        BY <2>1, <3>2
      <4>2. Len(log) + 1 \in DOMAIN log' /\ log'[Len(log) + 1] = x
        BY <1>1, <1>2, <4>1
      <4> QED BY <1>2, <4>2 DEF Logged
    <3> QED BY <3>1, <3>2
  <2>5. \A e \in After(p).sources : Handled(e)'
    <3> SUFFICES ASSUME NEW e \in After(p).sources
                 PROVE  Handled(e)'
      OBVIOUS
    <3>1. e \in mem[p.of].sources \/ e \in p.sources
      BY <1>1, AfterIsRecord
    <3>2. Handled(e) \/ Tells(p, e)
      BY <1>2, <3>1 DEF RecordsOK, SourcesOK
    <3>3. CASE Handled(e)
      BY <1>1, <2>3, <3>3, HandledStays
    <3>4. CASE Tells(p, e)
      BY <2>4, <3>4 DEF Tells, Logged, Handled
    <3> QED BY <3>2, <3>3, <3>4
  <2>6. RecordsOK'
    <3>1. ASSUME NEW m \in Memories, NEW e \in mem'[m].sources
          PROVE  Handled(e)'
      <4>1. CASE m = p.of
        <5>1. mem'[m] = After(p)
          BY <1>1, <2>1, <4>1
        <5> QED BY <2>5, <3>1, <5>1
      <4>2. CASE m # p.of
        <5>1. mem'[m] = mem[m]
          BY <1>1, <2>1, <4>2
        <5>2. Handled(e)
          BY <3>1, <5>1 DEF RecordsOK
        <5> QED BY <1>1, <2>3, <5>2, HandledStays
      <4> QED BY <4>1, <4>2
    <3>2. ASSUME NEW i \in 1..Len(log'), NEW e \in log'[i].after.sources
          PROVE  Handled(e)'
      <4>1. CASE i \in 1..Len(log)
        <5>1. log'[i] = log[i]
          BY <1>1, <2>3, <4>1, LogGrows
        <5>2. Handled(e)
          BY <3>2, <4>1, <5>1 DEF RecordsOK
        <5> QED BY <1>1, <2>3, <5>2, HandledStays
      <4>2. CASE i \notin 1..Len(log)
        <5>0. log' = Append(log, x)
          <6>1. log' # log
            BY <3>2, <4>2
          <6> QED BY <2>1, <6>1
        <5>1. i = Len(log) + 1
          BY <1>1, <3>2, <4>2, <5>0
        <5>2. log'[i].after = After(p)
          BY <1>1, <1>2, <5>0, <5>1
        <5> QED BY <2>5, <3>2, <5>2
      <4> QED BY <4>1, <4>2
    <3> QED BY <3>1, <3>2 DEF RecordsOK
  <2>7. ReplayRebuilds'
    <3> SUFFICES ASSUME ~raced'
                 PROVE  /\ \A m \in Memories \ unlogged' : mem'[m] = Replayed'[m]
                        /\ tomb' = Deleted'
      BY DEF ReplayRebuilds
    <3>1. ~raced /\ ~Logged(p.id)
      BY <1>1, <2>1
    <3>2. (\A m \in Memories \ unlogged : mem[m] = Replayed[m]) /\ tomb = Deleted
      BY <3>1 DEF ReplayRebuilds
    <3>3. log' = Append(log, x)
      BY <2>1, <3>1
    <3> DEFINE n == Len(log) + 1
    <3>4. /\ n \in Nat /\ n >= 1 /\ DOMAIN log' = 1..n /\ log'[n] = x
          /\ \A i \in 1..Len(log) : log'[i] = log[i]
      BY <1>1, <1>2, <3>3
    <3> HIDE DEF n
    <3>5. ASSUME NEW m \in Memories \ unlogged'
          PROVE  mem'[m] = Replayed'[m]
      <4>1. CASE m = p.of
        <5>1. n \in Entries(m)' /\ \A i \in Entries(m)' : i <= n
          BY <1>2, <3>4, <4>1 DEF Entries
        <5>2. \A i \in Entries(m)' : (\A j \in Entries(m)' : j <= i) => i = n
          BY <3>4, <5>1 DEF Entries
        <5>3. (CHOOSE i \in Entries(m)' : \A j \in Entries(m)' : j <= i) = n
          BY <5>1, <5>2
        <5>4. Replayed'[m] = log'[n].after
          BY <5>1, <5>3 DEF Replayed
        <5>5. mem'[m] = After(p)
          BY <1>1, <2>1, <4>1
        <5> QED BY <1>2, <3>4, <5>4, <5>5
      <4>2. CASE m # p.of
        <5>1. Entries(m)' = Entries(m)
          BY <1>1, <1>2, <3>4, <4>2 DEF Entries, n
        <5>2. \A i \in Entries(m) : log'[i] = log[i]
          BY <1>1, <3>4 DEF Entries
        <5>3. Replayed'[m] = Replayed[m]
          <6>1. CASE Entries(m) = {}
            BY <5>1, <6>1 DEF Replayed
          <6>2. CASE Entries(m) # {}
            <7> DEFINE k == CHOOSE i \in Entries(m) : \A j \in Entries(m) : j <= i
            <7>1. Replayed[m] = log[k].after
              BY <6>2 DEF Replayed
            <7>2. Replayed'[m] = log'[k].after
              BY <5>1, <6>2 DEF Replayed
            <7>3. k \in Entries(m)
              BY <6>2 DEF LastOK
            <7> HIDE DEF k
            <7> QED BY <5>2, <7>1, <7>2, <7>3
          <6> QED BY <6>1, <6>2
        <5>4. mem'[m] = mem[m]
          BY <1>1, <2>1, <4>2
        <5>5. m \in Memories \ unlogged
          BY <2>1, <4>2
        <5> QED BY <3>2, <5>3, <5>4, <5>5
      <4> QED BY <4>1, <4>2
    <3>6. tomb' = Deleted'
      <4>1. CASE p.id.action = "delete"
        <5>1. Deleted' = Deleted \cup {p.of}
          BY <1>1, <1>2, <3>4, <4>1 DEF Deleted, n
        <5> QED BY <2>1, <3>2, <4>1, <5>1
      <4>2. CASE p.id.action # "delete"
        <5>1. Deleted' = Deleted
          BY <1>1, <1>2, <3>4, <4>2 DEF Deleted, n
        <5> QED BY <2>1, <3>2, <4>2, <5>1
      <4> QED BY <4>1, <4>2
    <3> QED BY <3>5, <3>6
  <2>8. LastOK'
    <3>1. CASE log' = log
      BY <3>1 DEF LastOK, Entries
    <3>2. CASE log' = Append(log, x)
      <4> DEFINE n == Len(log) + 1
      <4>1. /\ n \in Nat /\ DOMAIN log' = 1..n /\ log'[n] = x
            /\ \A i \in 1..Len(log) : log'[i] = log[i]
        BY <1>1, <1>2, <3>2
      <4>2. ASSUME NEW m \in Memories, Entries(m)' # {}
            PROVE  \E i \in Entries(m)' : \A j \in Entries(m)' : j <= i
        <5>1. CASE m = p.of
          BY <1>1, <1>2, <4>1, <5>1 DEF Entries
        <5>2. CASE m # p.of
          <6>1. Entries(m)' = Entries(m)
            BY <1>1, <1>2, <4>1, <5>2 DEF Entries
          <6> QED BY <4>2, <6>1 DEF LastOK
        <5> QED BY <5>1, <5>2
      <4> QED BY <4>2 DEF LastOK
    <3> QED BY <2>1, <3>1, <3>2
  <2> QED BY <2>2, <2>3, <2>4, <2>6, <2>7, <2>8
<1> QED BY <1>3, <1>4

-----------------------------------------------------------------------------
(* What the checkpoint and a plan keep. *)

LEMMA SkippedStays ==
  ASSUME TypeOK, NothingSkipped, Grows, reviews \subseteq reviews', checkpoint' = checkpoint
  PROVE  NothingSkipped'
  BY Typed, HandledStays DEF NothingSkipped

LEMMA PlanStays ==
  ASSUME TypeOK, Grows, reviews \subseteq reviews',
         NEW w \in Workers, PlanOK(worker[w]), worker'[w] = worker[w]
  PROVE  PlanOK(worker[w])'
<1>1. ASSUME NEW i \in Places, worker'[w].plan[i] # Nothing, NEW e \in worker'[w].plan[i].sources
      PROVE  Handled(e)' \/ Tells(worker'[w].plan[i], e)
  <2>1. Handled(e) \/ Tells(worker[w].plan[i], e)
    BY <1>1 DEF PlanOK, SourcesOK
  <2> QED BY <2>1, Typed, HandledStays
<1>2. ASSUME worker'[w].pc \in Working, NEW e \in 1..worker'[w].upto, Kind[e] # "chat"
      PROVE  Handled(e)' \/ Planned(worker'[w].plan, e)
  <2>1. Handled(e) \/ Planned(worker[w].plan, e)
    BY <1>2 DEF PlanOK
  <2> QED BY <2>1, Typed, HandledStays
<1> QED BY <1>1, <1>2 DEF PlanOK, SourcesOK, Planned, Tells

LEMMA PlansStay ==
  ASSUME TypeOK, Grows, reviews \subseteq reviews', PlansOK, worker' = worker
  PROVE  PlansOK'
  BY PlanStays DEF PlansOK

\* A worker that is out has no report.
LEMMA PlansLeft ==
  ASSUME TypeOK, Grows, reviews \subseteq reviews', PlansOK,
         NEW w \in Workers, NEW u \in Worker, worker' = [worker EXCEPT ![w] = u],
         u.pc \notin Working, \A i \in Places : u.plan[i] = Nothing
  PROVE  PlansOK'
<1> SUFFICES ASSUME NEW v \in Workers
             PROVE  PlanOK(worker[v])'
  BY DEF PlansOK
<1>1. CASE v = w
  <2>1. worker'[v] = u
    BY <1>1, Typed
  <2> QED BY <2>1 DEF PlanOK
<1>2. CASE v # w
  <2>1. worker'[v] = worker[v]
    BY <1>2, Typed
  <2> QED BY <2>1, PlanStays DEF PlansOK
<1> QED BY <1>1, <1>2

\* A worker that goes on from place i, whose proposal is logged or filed, keeps its report.
LEMMA PlansOnward ==
  ASSUME TypeOK, Grows, reviews \subseteq reviews', PlansOK,
         NEW w \in Workers, NEW i \in Places, worker[w].pc \in Working, Onward(w, i),
         \A e \in Events : Tells(worker[w].plan[i], e) => Handled(e)'
  PROVE  worker' \in [Workers -> Worker] /\ PlansOK'
         /\ \A v \in Workers : /\ worker'[v].attempts = worker[v].attempts
                               /\ worker'[v].upto = worker[v].upto
<1> DEFINE u == [worker[w] EXCEPT !.pc = "next", !.plan[i] = Nothing]
<1>1. worker' = [worker EXCEPT ![w] = u]
  BY DEF Onward
<1>2. /\ u.pc = "next" /\ u.attempts = worker[w].attempts /\ u.upto = worker[w].upto
      /\ u.plan = [worker[w].plan EXCEPT ![i] = Nothing] /\ u \in Worker
  <2>1. [worker[w].plan EXCEPT ![i] = Nothing] \in Report
    BY Typed DEF Report
  <2> QED BY <2>1, Typed DEF Worker
<1>3. /\ u.plan[i] = Nothing
      /\ \A j \in Places : j # i => u.plan[j] = worker[w].plan[j]
  BY <1>2, Typed DEF Report
<1> HIDE DEF u
<1>4. ASSUME NEW v \in Workers
      PROVE  /\ PlanOK(worker[v])'
             /\ worker'[v].attempts = worker[v].attempts /\ worker'[v].upto = worker[v].upto
  <2>1. CASE v # w
    <3>1. worker'[v] = worker[v]
      BY <1>1, <2>1, Typed
    <3> QED BY <3>1, PlanStays DEF PlansOK
  <2>2. CASE v = w
    <3>1. worker'[v] = u
      BY <1>1, <2>2, Typed
    <3>2. PlanOK(worker[w])
      BY DEF PlansOK
    <3>3. ASSUME NEW j \in Places, u.plan[j] # Nothing, NEW e \in u.plan[j].sources
          PROVE  Handled(e)' \/ Tells(u.plan[j], e)
      <4>1. u.plan[j] = worker[w].plan[j]
        BY <1>3, <3>3
      <4>2. Handled(e) \/ Tells(worker[w].plan[j], e)
        BY <3>2, <3>3, <4>1 DEF PlanOK, SourcesOK
      <4> QED BY <4>1, <4>2, Typed, HandledStays
    <3>4. ASSUME NEW e \in 1..u.upto, Kind[e] # "chat"
          PROVE  Handled(e)' \/ Planned(u.plan, e)
      <4>1. e \in Events /\ e \in Places
        BY <1>2, Typed, Constants
      <4>2. Handled(e) \/ Planned(worker[w].plan, e)
        BY <1>2, <3>2, <3>4 DEF PlanOK
      <4>3. CASE Handled(e)
        BY <4>3, Typed, HandledStays
      <4>4. CASE Planned(worker[w].plan, e) /\ e = i
        BY <4>1, <4>4 DEF Planned
      <4>5. CASE Planned(worker[w].plan, e) /\ e # i
        BY <1>3, <4>1, <4>5 DEF Planned
      <4> QED BY <4>2, <4>3, <4>4, <4>5
    <3> QED BY <1>2, <2>2, <3>1, <3>3, <3>4 DEF PlanOK, SourcesOK, Planned, Tells
  <2> QED BY <2>1, <2>2
<1>5. worker' \in [Workers -> Worker]
  BY <1>1, <1>2, Typed
<1> QED BY <1>4, <1>5 DEF PlansOK

-----------------------------------------------------------------------------
(* The first report: what Analyze finds covers every event up to its end. *)

LEMMA EventProposals ==
  ASSUME TypeOK, NEW e \in Events, NEW action \in {"create", "merge", "supersede", "ignore"}
  PROVE  /\ EventProposal(e, action) \in Proposal
         /\ EventProposal(e, action).sources = {e}
         /\ Tells(EventProposal(e, action), e)
<1> DEFINE m == About[e]
<1>1. m \in Memories /\ mem[m] \in Record /\ mem[m].version \in Nat
  BY ConstantsAssumption, Typed DEF Record
<1>2. [from |-> "event", what |-> e, action |-> action,
       target |-> IF Active(mem[m]) THEN m ELSE NoMemory] \in Ids
  BY <1>1 DEF Ids
<1> QED BY <1>1, <1>2 DEF EventProposal, Proposal, Tells

LEMMA Proposed ==
  ASSUME TypeOK, NEW e \in Events, NEW p \in Proposes(e)
  PROVE  p \in Proposal /\ p.sources = {e} /\ Tells(p, e)
<1>1. PICK action \in Said(e) \cup Missing(e) : p = EventProposal(e, action)
  BY DEF Proposes
<1>2. action \in {"create", "merge", "supersede", "ignore"}
  BY <1>1 DEF Said, Missing
<1> QED BY <1>1, <1>2, EventProposals

\* An event that says something is proposed, unless a memory already has it as a source.
LEMMA SomethingProposed ==
  ASSUME NEW e \in Events, Kind[e] # "chat", Proposes(e) = {}
  PROVE  \E m \in Memories : e \in mem[m].sources
<1>1. Kind[e] \in {"remember", "revise", "forget", "typed"}
  BY ConstantsAssumption
<1>2. Said(e) \cup Missing(e) = {}
  BY DEF Proposes
<1>3. CASE Kind[e] # "typed"
  <2>1. Said(e) # {}
    BY <1>1, <1>3 DEF Said
  <2> QED BY <1>2, <2>1
<1>4. CASE Kind[e] = "typed"
  BY <1>2, <1>4 DEF Missing
<1> QED BY <1>3, <1>4

LEMMA PairProposals ==
  ASSUME TypeOK, RecordsOK, NEW t \in Memories, NEW s \in Memories,
         NEW action \in {"create", "merge", "ignore"}, NEW status \in {"active", "archived"}
  PROVE  /\ PairProposal(t, s, action, status) \in Proposal
         /\ \A e \in PairProposal(t, s, action, status).sources : Handled(e)
<1>1. /\ mem[t] \in Record /\ mem[t].version \in Nat
      /\ mem[s] \in Record /\ mem[s].sources \in SUBSET Events
  BY Typed DEF Record
<1>2. [from |-> "pair", what |-> s, action |-> action, target |-> t] \in Ids
  BY DEF Ids
<1>3. PairProposal(t, s, action, status) \in Proposal
  BY <1>1, <1>2 DEF PairProposal, Proposal
<1>4. PairProposal(t, s, action, status).sources = mem[s].sources
  BY DEF PairProposal
<1> QED BY <1>3, <1>4 DEF RecordsOK

LEMMA GroupedProposals ==
  ASSUME TypeOK, RecordsOK, NEW pair \in Grouped, NEW k \in {1, 2}
  PROVE  /\ pair[k] \in Proposal \cup {Nothing}
         /\ pair[k] # Nothing => \A e \in pair[k].sources : Handled(e)
<1>1. Kept \in Memories /\ Duplicate \in Memories
  BY ConstantsAssumption
<1> DEFINE m1 == PairProposal(Kept, Duplicate, "merge", "active")
           m2 == PairProposal(Duplicate, Kept, "merge", "archived")
           g1 == PairProposal(Duplicate, Kept, "ignore", "active")
           g2 == PairProposal(Duplicate, Kept, "create", "active")
<1>2. \A q \in {m1, m2, g1, g2} : q \in Proposal /\ \A e \in q.sources : Handled(e)
  BY <1>1, PairProposals
<1>3. pair \in {<<Nothing, Nothing>>, <<m1, m2>>, <<g1, Nothing>>, <<g2, Nothing>>}
  BY DEF Grouped
<1>4. pair[k] \in {Nothing, m1, m2, g1, g2}
  BY <1>3
<1> HIDE DEF m1, m2, g1, g2
<1> QED BY <1>2, <1>4

-----------------------------------------------------------------------------
(* The invariant holds at the start and is kept by each action. *)

LEMMA InitInvariant == Init => IInv
<1> SUFFICES ASSUME Init
             PROVE  IInv
  OBVIOUS
<1>1. TypeOK
  <2>1. <<>> \in Seq([id : Ids, of : Memories, after : Record])
    OBVIOUS
  <2>2. mem \in [Memories -> Record] /\ worker \in [Workers -> Worker]
    BY Constants DEF Init
  <2>3. job \in [status : {"absent", "pending", "running", "succeeded", "dead_letter"},
                 attempts : 0..MaxAttempts]
    BY Constants DEF Init
  <2>4. events \in 0..Last /\ checkpoint \in 0..events /\ schedules \in 0..MaxSchedules
        /\ calls \in 0..MaxCalls /\ faults \in 0..MaxFaults
    BY ConstantsAssumption DEF Init
  <2>5. /\ log \in Seq([id : Ids, of : Memories, after : Record]) /\ tomb \subseteq Memories
        /\ reviews \subseteq Ids /\ caller \in [Callers -> Proposal \cup {Nothing}]
        /\ raced \in BOOLEAN /\ unlogged \subseteq Memories
    BY <2>1 DEF Init
  <2>6. retention \in Retention /\ cycles \in 0..MaxCycles
    BY ConstantsAssumption DEF Init, NoPlan, Retention
  <2> QED BY <2>2, <2>3, <2>4, <2>5, <2>6 DEF TypeOK
<1>2. JobOK
  BY Constants DEF Init, JobOK
<1>3. RecordsOK
  BY Constants DEF Init, RecordsOK
<1>4. LastOK /\ CallersOK /\ NothingSkipped
  BY DEF Init, LastOK, Entries, CallersOK, NothingSkipped
<1>5. PlansOK
  BY Constants DEF Init, PlansOK, PlanOK, Working
<1>6. ReplayRebuilds
  <2>1. \A m \in Memories : Entries(m) = {}
    BY DEF Init, Entries
  <2>2. \A m \in Memories : mem[m] = Absent /\ Replayed[m] = Absent
    BY <2>1 DEF Init, Replayed
  <2>3. Deleted = {}
    BY DEF Init, Deleted
  <2> QED BY <2>2, <2>3 DEF Init, ReplayRebuilds
<1> QED BY <1>1, <1>2, <1>3, <1>4, <1>5, <1>6 DEF IInv

LEMMA IngestStep ==
  ASSUME IInv, Ingest
  PROVE  IInv'
<1>1. /\ events' = events + 1 /\ events < Last
      /\ UNCHANGED <<queue, tables, reviews, worker, caller, keeper, bounds>>
  BY DEF Ingest
<1>2. TypeOK'
  BY <1>1, Typed, Constants DEF IInv, TypeOK, queue, tables, bounds, keeper
<1>3. JobOK'
  BY <1>1, Typed, Constants DEF IInv, JobOK, queue
<1>4. Grows /\ RecordsOK' /\ LastOK' /\ ReplayRebuilds'
  BY <1>1, UnchangedTables DEF IInv
<1>5. NothingSkipped' /\ PlansOK'
  BY <1>1, <1>4, SkippedStays, PlansStay DEF IInv, queue
<1>6. CallersOK'
  BY <1>1 DEF IInv, CallersOK
<1> QED BY <1>2, <1>3, <1>4, <1>5, <1>6 DEF IInv

LEMMA ScheduleStep ==
  ASSUME IInv, Schedule
  PROVE  IInv'
<1>1. /\ schedules < MaxSchedules /\ schedules' = schedules + 1
      /\ job' = [status |-> "pending", attempts |-> 0]
      /\ UNCHANGED <<events, checkpoint, tables, reviews, worker, caller, keeper, calls, faults>>
  BY DEF Schedule
<1>2. TypeOK'
  BY <1>1, Typed, Constants, ConstantsAssumption DEF IInv, TypeOK, tables, keeper
<1>3. JobOK'
  BY <1>1, Typed, Constants DEF IInv, JobOK
<1>4. Grows /\ RecordsOK' /\ LastOK' /\ ReplayRebuilds'
  BY <1>1, UnchangedTables DEF IInv
<1>5. NothingSkipped' /\ PlansOK'
  BY <1>1, <1>4, SkippedStays, PlansStay DEF IInv
<1>6. CallersOK'
  BY <1>1 DEF IInv, CallersOK
<1> QED BY <1>2, <1>3, <1>4, <1>5, <1>6 DEF IInv

LEMMA ReplayStep ==
  ASSUME IInv, Replay
  PROVE  IInv'
<1>1. /\ mem' = Replayed /\ tomb' = Deleted /\ unlogged' = {}
      /\ UNCHANGED <<events, queue, log, raced, reviews, worker, caller, keeper, bounds>>
  BY DEF Replay
<1>2. log \in Seq(Entry) /\ \A i \in DOMAIN log : log[i] \in Entry
  BY Typed DEF IInv
<1>3. ASSUME NEW m \in Memories
      PROVE  /\ Replayed[m] \in Record
             /\ \A e \in Replayed[m].sources : Handled(e)
  <2>1. CASE Entries(m) = {}
    <3>1. Replayed[m] = Absent
      BY <2>1 DEF Replayed
    <3> QED BY <3>1, Constants
  <2>2. CASE Entries(m) # {}
    <3> DEFINE k == CHOOSE i \in Entries(m) : \A j \in Entries(m) : j <= i
    <3>1. k \in Entries(m)
      BY <2>2 DEF IInv, LastOK
    <3>2. Replayed[m] = log[k].after
      BY <2>2 DEF Replayed
    <3> HIDE DEF k
    <3>3. k \in 1..Len(log) /\ log[k] \in Entry
      BY <1>2, <3>1 DEF Entries
    <3> QED BY <3>2, <3>3 DEF IInv, RecordsOK, Entry
  <2> QED BY <2>1, <2>2
<1>4. mem' \in [Memories -> Record]
  BY <1>1, <1>3 DEF Replayed
<1>5. tomb' \subseteq Memories
  BY <1>1, <1>2 DEF Deleted, Entry
<1>6. TypeOK'
  BY <1>1, <1>4, <1>5 DEF IInv, TypeOK, queue, bounds, keeper
<1>7. JobOK'
  BY <1>1 DEF IInv, JobOK, queue
<1>8. Grows
  BY <1>1 DEF Grows
<1>9. RecordsOK'
  <2>1. ASSUME NEW m \in Memories, NEW e \in mem'[m].sources
        PROVE  Handled(e)'
    <3>1. Handled(e)
      BY <1>1, <1>3, <2>1
    <3> QED BY <1>1, <3>1 DEF Handled
  <2>2. ASSUME NEW i \in 1..Len(log'), NEW e \in log'[i].after.sources
        PROVE  Handled(e)'
    <3>1. Handled(e)
      BY <1>1, <2>2 DEF IInv, RecordsOK
    <3> QED BY <1>1, <3>1 DEF Handled
  <2> QED BY <2>1, <2>2 DEF RecordsOK
<1>10. LastOK'
  BY <1>1 DEF IInv, LastOK, Entries
<1>11. ReplayRebuilds'
  <2>1. Replayed' = Replayed /\ Deleted' = Deleted
    BY <1>1 DEF Replayed, Deleted, Entries
  <2> QED BY <1>1, <2>1 DEF ReplayRebuilds
<1>12. NothingSkipped' /\ PlansOK'
  BY <1>1, <1>8, SkippedStays, PlansStay DEF IInv, queue
<1>13. CallersOK'
  BY <1>1 DEF IInv, CallersOK
<1> QED BY <1>6, <1>7, <1>9, <1>10, <1>11, <1>12, <1>13 DEF IInv

LEMMA AskStep ==
  ASSUME IInv, NEW c \in Callers, NEW r \in Requests, Ask(c, r)
  PROVE  IInv'
<1>1. /\ calls < MaxCalls /\ calls' = calls + 1
      /\ caller' = [caller EXCEPT ![c] = Asked(r)]
      /\ UNCHANGED <<events, queue, tables, reviews, worker, keeper, schedules, faults>>
  BY DEF Ask
<1>2. Asked(r) \in Proposal /\ Asked(r).sources = {}
  <2>1. /\ Of[r] \in Memories /\ Asks[r] \in {"save", "revise", "replace", "archive", "delete"}
        /\ mem[Of[r]] \in Record /\ mem[Of[r]].version \in Nat
    BY ConstantsAssumption, Typed DEF IInv, Record
  <2>2. Verb(Asks[r]) \in {"create", "merge", "supersede", "delete"}
    BY <2>1 DEF Verb
  <2>3. [from |-> "tool", what |-> r, action |-> Verb(Asks[r]), target |-> Of[r]] \in Ids
    BY <2>1, <2>2 DEF Ids
  <2> QED BY <2>1, <2>3 DEF Asked, Proposal
<1>3. caller \in [Callers -> Proposal \cup {Nothing}]
  BY DEF IInv, TypeOK
<1>4. caller' \in [Callers -> Proposal \cup {Nothing}]
  BY <1>1, <1>2, <1>3
<1>5. TypeOK'
  BY <1>1, <1>4, ConstantsAssumption DEF IInv, TypeOK, queue, tables, keeper
<1>6. JobOK'
  BY <1>1 DEF IInv, JobOK, queue
<1>7. Grows /\ RecordsOK' /\ LastOK' /\ ReplayRebuilds'
  BY <1>1, UnchangedTables DEF IInv
<1>8. NothingSkipped' /\ PlansOK'
  BY <1>1, <1>7, SkippedStays, PlansStay DEF IInv, queue
<1>9. CallersOK'
  BY <1>1, <1>2, <1>3 DEF IInv, CallersOK
<1> QED BY <1>5, <1>6, <1>7, <1>8, <1>9 DEF IInv

LEMMA WriteStep ==
  ASSUME IInv, NEW c \in Callers, Write(c)
  PROVE  IInv'
<1>1. /\ caller[c] # Nothing /\ Apply(caller[c])
      /\ caller' = [caller EXCEPT ![c] = Nothing]
      /\ UNCHANGED <<events, queue, reviews, worker, keeper, bounds>>
  BY DEF Write
<1>2. caller \in [Callers -> Proposal \cup {Nothing}]
  BY DEF IInv, TypeOK
<1>3. caller[c] \in Proposal /\ caller[c].sources = {}
  BY <1>1, <1>2 DEF IInv, CallersOK
<1>4. SourcesOK(caller[c])
  BY <1>3 DEF SourcesOK
<1>5. /\ mem' \in [Memories -> Record] /\ tomb' \subseteq Memories /\ raced' \in BOOLEAN
      /\ unlogged' \subseteq Memories /\ Grows
      /\ RecordsOK' /\ LastOK' /\ ReplayRebuilds'
  BY <1>1, <1>3, <1>4, Applied DEF IInv
<1>6. log' \in Seq(Entry)
  BY <1>5, Typed, LogGrows DEF IInv
<1>7. caller' \in [Callers -> Proposal \cup {Nothing}]
  BY <1>1, <1>2
<1>8. TypeOK'
  BY <1>1, <1>5, <1>6, <1>7 DEF IInv, TypeOK, Entry, queue, bounds, keeper
<1>9. JobOK'
  BY <1>1 DEF IInv, JobOK, queue
<1>10. NothingSkipped' /\ PlansOK'
  BY <1>1, <1>5, SkippedStays, PlansStay DEF IInv, queue
<1>11. CallersOK'
  BY <1>1, <1>2 DEF IInv, CallersOK
<1> QED BY <1>5, <1>8, <1>9, <1>10, <1>11 DEF IInv

LEMMA ClaimStep ==
  ASSUME IInv, NEW w \in Workers, Claim(w)
  PROVE  IInv'
<1> DEFINE u == [Out EXCEPT !.pc = "claimed", !.attempts = job.attempts + 1]
<1>1. /\ job.status = "pending"
      /\ job' = [status |-> "running", attempts |-> job.attempts + 1]
      /\ worker' = [worker EXCEPT ![w] = u]
      /\ UNCHANGED <<events, checkpoint, tables, reviews, caller, keeper, bounds>>
  BY DEF Claim
<1>2. job.attempts + 1 \in 0..MaxAttempts /\ job.attempts + 1 \in Nat
  BY <1>1, Typed, Constants DEF IInv, JobOK
<1>3. /\ u \in Worker /\ u.pc = "claimed" /\ u.attempts = job.attempts + 1 /\ u.upto = 0
      /\ \A i \in Places : u.plan[i] = Nothing
  BY <1>2, Constants DEF Worker
<1> HIDE DEF u
<1>4. worker' \in [Workers -> Worker]
  BY <1>1, <1>3, Typed DEF IInv
<1>5. TypeOK'
  BY <1>1, <1>2, <1>4 DEF IInv, TypeOK, tables, bounds, keeper
<1>6. JobOK'
  <2>1. ASSUME NEW v \in Workers
        PROVE  worker'[v].attempts <= MaxAttempts /\ worker'[v].upto <= events'
    <3>1. CASE v = w
      BY <1>1, <1>2, <1>3, <3>1, Typed DEF IInv
    <3>2. CASE v # w
      BY <1>1, <3>2, Typed DEF IInv, JobOK
    <3> QED BY <3>1, <3>2
  <2> QED BY <1>1, <2>1 DEF JobOK
<1>7. Grows /\ RecordsOK' /\ LastOK' /\ ReplayRebuilds'
  BY <1>1, UnchangedTables DEF IInv
<1>8. NothingSkipped'
  BY <1>1, <1>7, SkippedStays DEF IInv
<1>9. PlansOK'
  BY <1>1, <1>3, <1>7, PlansLeft DEF IInv, Working
<1>10. CallersOK'
  BY <1>1 DEF IInv, CallersOK
<1> QED BY <1>5, <1>6, <1>7, <1>8, <1>9, <1>10 DEF IInv

LEMMA AnalyzeStep ==
  ASSUME IInv, NEW w \in Workers, Analyze(w)
  PROVE  IInv'
<1>1. /\ worker[w].pc = "claimed"
      /\ UNCHANGED <<events, queue, tables, reviews, caller, keeper, bounds>>
  BY DEF Analyze
<1>2. PICK pair \in Grouped, said \in [Events -> UNION {Analyses(e) : e \in Events}] :
        /\ \A e \in Events : said[e] \in Analyses(e)
        /\ worker' = [worker EXCEPT ![w] =
             [@ EXCEPT !.pc = "next", !.upto = events,
                       !.plan = [i \in Places |-> IF i \in Events THEN said[i] ELSE pair[i - Last]]]]
  BY DEF Analyze
<1> DEFINE report == [i \in Places |-> IF i \in Events THEN said[i] ELSE pair[i - Last]]
           u == [worker[w] EXCEPT !.pc = "next", !.upto = events, !.plan = report]
<1>3. ASSUME NEW e \in Events
      PROVE  /\ said[e] \in Proposal \cup {Nothing}
             /\ said[e] # Nothing => said[e].sources = {e} /\ Tells(said[e], e)
             /\ e \in 1..events /\ Kind[e] # "chat" => Handled(e) \/ said[e] # Nothing
  <2>1. said[e] \in Analyses(e)
    BY <1>2
  <2>2. CASE e \in (checkpoint + 1)..events /\ Proposes(e) # {}
    <3>1. said[e] \in Proposes(e)
      BY <2>1, <2>2 DEF Analyses
    <3>2. said[e] \in Proposal /\ said[e].sources = {e} /\ Tells(said[e], e)
      BY <3>1, Proposed DEF IInv
    <3> QED BY <3>2, ProposalIsSomething
  <2>3. CASE ~(e \in (checkpoint + 1)..events /\ Proposes(e) # {})
    <3>1. said[e] = Nothing
      BY <2>1, <2>3 DEF Analyses
    <3>2. ASSUME e \in 1..events, Kind[e] # "chat"
          PROVE  Handled(e)
      <4>1. CASE e \in 1..checkpoint
        BY <3>2, <4>1 DEF IInv, NothingSkipped
      <4>2. CASE e \notin 1..checkpoint
        <5>1. e \in (checkpoint + 1)..events
          BY <3>2, <4>2, Typed DEF IInv
        <5>2. Proposes(e) = {}
          BY <2>3, <5>1
        <5> QED BY <3>2, <5>2, SomethingProposed DEF IInv, RecordsOK
      <4> QED BY <4>1, <4>2
    <3> QED BY <3>1, <3>2
  <2> QED BY <2>2, <2>3
<1>4. ASSUME NEW i \in Places
      PROVE  /\ report[i] \in Proposal \cup {Nothing}
             /\ report[i] # Nothing =>
                  \A e \in report[i].sources : Handled(e) \/ Tells(report[i], e)
  <2>1. CASE i \in Events
    BY <1>3, <2>1
  <2>2. CASE i \notin Events
    <3>1. i - Last \in {1, 2}
      BY <2>2, Constants DEF Places
    <3>2. report[i] = pair[i - Last]
      BY <2>2
    <3> QED BY <3>1, <3>2, GroupedProposals DEF IInv
  <2> QED BY <2>1, <2>2
<1>5. report \in Report
  BY <1>4 DEF Report
<1>6. \A e \in Events : report[e] = said[e]
  BY Constants
<1> HIDE DEF report
<1>7. /\ u \in Worker /\ u.pc = "next" /\ u.upto = events /\ u.plan = report
      /\ u.attempts = worker[w].attempts
  BY <1>5, Typed DEF IInv, Worker
<1>8. worker' = [worker EXCEPT ![w] = u]
  BY <1>2 DEF report
<1> HIDE DEF u
<1>9. worker' \in [Workers -> Worker]
  BY <1>7, <1>8, Typed DEF IInv
<1>10. TypeOK'
  BY <1>1, <1>9 DEF IInv, TypeOK, queue, tables, bounds, keeper
<1>11. JobOK'
  <2>1. ASSUME NEW v \in Workers
        PROVE  worker'[v].attempts <= MaxAttempts /\ worker'[v].upto <= events'
    <3>1. CASE v = w
      BY <1>1, <1>7, <1>8, <3>1, Typed DEF IInv, JobOK
    <3>2. CASE v # w
      BY <1>1, <1>8, <3>2, Typed DEF IInv, JobOK
    <3> QED BY <3>1, <3>2
  <2> QED BY <1>1, <2>1 DEF IInv, JobOK, queue
<1>12. Grows /\ RecordsOK' /\ LastOK' /\ ReplayRebuilds'
  BY <1>1, UnchangedTables DEF IInv
<1>13. NothingSkipped'
  BY <1>1, <1>12, SkippedStays DEF IInv, queue
<1>14. \A e : Handled(e) => Handled(e)'
  BY <1>1, <1>12, Typed, HandledStays DEF IInv
<1>15. PlansOK'
  <2> SUFFICES ASSUME NEW v \in Workers
               PROVE  PlanOK(worker[v])'
    BY DEF PlansOK
  <2>1. CASE v # w
    <3>1. worker'[v] = worker[v]
      BY <1>8, <2>1, Typed DEF IInv
    <3> QED BY <1>1, <1>12, <3>1, PlanStays DEF IInv, PlansOK
  <2>2. CASE v = w
    <3>1. worker'[v] = u
      BY <1>8, <2>2, Typed DEF IInv
    <3>2. ASSUME NEW i \in Places, report[i] # Nothing, NEW e \in report[i].sources
          PROVE  Handled(e)' \/ Tells(report[i], e)
      BY <1>4, <1>14, <3>2
    <3>3. ASSUME NEW e \in 1..events, Kind[e] # "chat"
          PROVE  Handled(e)' \/ Planned(report, e)
      <4>1. e \in Events
        BY <3>3, Typed, Constants DEF IInv
      <4> QED BY <1>3, <1>6, <1>14, <3>3, <4>1 DEF Planned
    <3> QED BY <1>7, <3>1, <3>2, <3>3 DEF PlanOK, SourcesOK, Planned, Tells
  <2> QED BY <2>1, <2>2
<1>16. CallersOK'
  BY <1>1 DEF IInv, CallersOK
<1> QED BY <1>10, <1>11, <1>12, <1>13, <1>15, <1>16 DEF IInv

\* The next proposal of a report.
LEMMA NextProposal ==
  ASSUME TypeOK, NEW w \in Workers, NEW i \in NextPlace(w)
  PROVE  i \in Places /\ worker[w].plan[i] # Nothing /\ worker[w].plan[i] \in Proposal
  BY Typed DEF NextPlace, Todo, Report

\* A worker that only moves within the loop.
LEMMA PlansMove ==
  ASSUME TypeOK, Grows, reviews \subseteq reviews', PlansOK,
         NEW w \in Workers, NEW step \in {"checked", "review"}, worker[w].pc \in Working,
         worker' = [worker EXCEPT ![w].pc = step]
  PROVE  worker' \in [Workers -> Worker] /\ PlansOK'
         /\ \A v \in Workers : /\ worker'[v].attempts = worker[v].attempts
                               /\ worker'[v].upto = worker[v].upto
<1> DEFINE u == [worker[w] EXCEPT !.pc = step]
<1>1. worker' = [worker EXCEPT ![w] = u]
  OBVIOUS
<1>2. /\ u.pc = step /\ u.attempts = worker[w].attempts /\ u.upto = worker[w].upto
      /\ u.plan = worker[w].plan /\ u \in Worker
  BY Typed DEF Worker
<1> HIDE DEF u
<1>3. ASSUME NEW v \in Workers
      PROVE  /\ PlanOK(worker[v])'
             /\ worker'[v].attempts = worker[v].attempts /\ worker'[v].upto = worker[v].upto
  <2>1. CASE v # w
    <3>1. worker'[v] = worker[v]
      BY <1>1, <2>1, Typed
    <3> QED BY <3>1, PlanStays DEF PlansOK
  <2>2. CASE v = w
    <3>1. worker'[v] = u
      BY <1>1, <2>2, Typed
    <3>2. PlanOK(worker[w])
      BY DEF PlansOK
    <3>3. \A e : Handled(e) => Handled(e)'
      BY Typed, HandledStays
    <3>4. ASSUME NEW j \in Places, u.plan[j] # Nothing, NEW e \in u.plan[j].sources
          PROVE  Handled(e)' \/ Tells(u.plan[j], e)
      BY <1>2, <3>2, <3>3, <3>4 DEF PlanOK, SourcesOK
    <3>5. ASSUME NEW e \in 1..u.upto, Kind[e] # "chat"
          PROVE  Handled(e)' \/ Planned(u.plan, e)
      BY <1>2, <3>2, <3>3, <3>5 DEF PlanOK
    <3> QED BY <1>2, <2>2, <3>1, <3>4, <3>5 DEF PlanOK, SourcesOK, Planned, Tells
  <2> QED BY <2>1, <2>2
<1>4. worker' \in [Workers -> Worker]
  BY <1>1, <1>2, Typed
<1> QED BY <1>3, <1>4 DEF PlansOK

LEMMA LookupStep ==
  ASSUME IInv, NEW w \in Workers, Lookup(w)
  PROVE  IInv'
<1>1. worker[w].pc = "next" /\ UNCHANGED <<events, queue, tables, reviews, caller, keeper, bounds>>
  BY DEF Lookup
<1>2. PICK i \in NextPlace(w) :
        IF Logged(worker[w].plan[i].id) THEN Onward(w, i)
        ELSE worker' = [worker EXCEPT ![w].pc = "checked"]
  BY DEF Lookup
<1>3. Grows /\ RecordsOK' /\ LastOK' /\ ReplayRebuilds'
  BY <1>1, UnchangedTables DEF IInv
<1>4. /\ worker' \in [Workers -> Worker] /\ PlansOK'
      /\ \A v \in Workers : /\ worker'[v].attempts = worker[v].attempts
                            /\ worker'[v].upto = worker[v].upto
  <2>1. CASE Logged(worker[w].plan[i].id)
    <3>1. Onward(w, i) /\ i \in Places
      BY <1>2, <2>1, NextProposal DEF IInv
    <3>2. \A e \in Events : Tells(worker[w].plan[i], e) => Handled(e)'
      <4>1. \A e \in Events : Tells(worker[w].plan[i], e) => Handled(e)
        BY <2>1 DEF Tells, Logged, Handled
      <4> QED BY <1>1, <1>3, <4>1, Typed, HandledStays DEF IInv
    <3> QED BY <1>1, <1>3, <3>1, <3>2, PlansOnward DEF IInv, Working
  <2>2. CASE ~Logged(worker[w].plan[i].id)
    BY <1>1, <1>2, <1>3, <2>2, PlansMove DEF IInv, Working
  <2> QED BY <2>1, <2>2
<1>5. TypeOK'
  BY <1>1, <1>4 DEF IInv, TypeOK, queue, tables, bounds, keeper
<1>6. JobOK'
  BY <1>1, <1>4 DEF IInv, JobOK, queue
<1>7. NothingSkipped'
  BY <1>1, <1>3, SkippedStays DEF IInv, queue
<1>8. CallersOK'
  BY <1>1 DEF IInv, CallersOK
<1> QED BY <1>3, <1>4, <1>5, <1>6, <1>7, <1>8 DEF IInv

LEMMA ApplyStepStep ==
  ASSUME IInv, NEW w \in Workers, ApplyStep(w)
  PROVE  IInv'
<1>1. worker[w].pc = "checked" /\ UNCHANGED <<events, queue, reviews, caller, keeper, bounds>>
  BY DEF ApplyStep
<1>2. PICK i \in NextPlace(w) :
        /\ Apply(worker[w].plan[i])
        /\ IF Answer(worker[w].plan[i]) = "succeeded" THEN Onward(w, i)
           ELSE worker' = [worker EXCEPT ![w].pc = "review"]
  BY DEF ApplyStep
<1> PICK p : p = worker[w].plan[i]
  OBVIOUS
<1>3. i \in Places /\ p # Nothing /\ p \in Proposal
  BY NextProposal DEF IInv
<1>4. SourcesOK(p) /\ Apply(p) /\ reviews' = reviews
  BY <1>1, <1>2, <1>3 DEF IInv, PlansOK, PlanOK
<1>5. /\ mem' \in [Memories -> Record] /\ tomb' \subseteq Memories /\ raced' \in BOOLEAN
      /\ unlogged' \subseteq Memories /\ Grows
      /\ RecordsOK' /\ LastOK' /\ ReplayRebuilds'
      /\ Answer(p) = "succeeded" => Logged(p.id)'
  BY <1>3, <1>4, Applied DEF IInv
<1>6. log' \in Seq(Entry)
  BY <1>5, Typed, LogGrows DEF IInv
<1>7. /\ worker' \in [Workers -> Worker] /\ PlansOK'
      /\ \A v \in Workers : /\ worker'[v].attempts = worker[v].attempts
                            /\ worker'[v].upto = worker[v].upto
  <2>1. CASE Answer(p) = "succeeded"
    <3>1. Onward(w, i)
      BY <1>2, <2>1
    <3>2. \A e \in Events : Tells(worker[w].plan[i], e) => Handled(e)'
      BY <1>5, <2>1 DEF Tells, Logged, Handled
    <3> QED BY <1>1, <1>3, <1>5, <3>1, <3>2, PlansOnward DEF IInv, Working
  <2>2. CASE Answer(p) # "succeeded"
    BY <1>1, <1>2, <1>5, <2>2, PlansMove DEF IInv, Working
  <2> QED BY <2>1, <2>2
<1>8. TypeOK'
  BY <1>1, <1>5, <1>6, <1>7 DEF IInv, TypeOK, Entry, queue, bounds, keeper
<1>9. JobOK'
  BY <1>1, <1>7 DEF IInv, JobOK, queue
<1>10. NothingSkipped'
  BY <1>1, <1>5, SkippedStays DEF IInv, queue
<1>11. CallersOK'
  BY <1>1 DEF IInv, CallersOK
<1> QED BY <1>5, <1>7, <1>8, <1>9, <1>10, <1>11 DEF IInv

LEMMA ReviewStep ==
  ASSUME IInv, NEW w \in Workers, Review(w)
  PROVE  IInv'
<1>1. /\ worker[w].pc \in {"next", "review"}
      /\ UNCHANGED <<events, queue, tables, caller, keeper, bounds>>
  BY DEF Review
<1>2. PICK i \in NextPlace(w) : reviews' = reviews \cup {worker[w].plan[i].id} /\ Onward(w, i)
  BY DEF Review
<1>3. i \in Places /\ worker[w].plan[i] \in Proposal
  BY NextProposal DEF IInv
<1>4. reviews' \subseteq Ids /\ reviews \subseteq reviews'
  BY <1>2, <1>3, ProposalFields DEF IInv, TypeOK
<1>5. Grows /\ RecordsOK' /\ LastOK' /\ ReplayRebuilds'
  BY <1>1, <1>4, UnchangedTables DEF IInv
<1>6. \A e \in Events : Tells(worker[w].plan[i], e) => Handled(e)'
  BY <1>2 DEF Tells, Handled
<1>7. /\ worker' \in [Workers -> Worker] /\ PlansOK'
      /\ \A v \in Workers : /\ worker'[v].attempts = worker[v].attempts
                            /\ worker'[v].upto = worker[v].upto
  BY <1>1, <1>2, <1>3, <1>4, <1>5, <1>6, PlansOnward DEF IInv, Working
<1>8. TypeOK'
  BY <1>1, <1>4, <1>7 DEF IInv, TypeOK, queue, tables, bounds, keeper
<1>9. JobOK'
  BY <1>1, <1>7 DEF IInv, JobOK, queue
<1>10. NothingSkipped'
  BY <1>1, <1>4, <1>5, SkippedStays DEF IInv, queue
<1>11. CallersOK'
  BY <1>1 DEF IInv, CallersOK
<1> QED BY <1>5, <1>7, <1>8, <1>9, <1>10, <1>11 DEF IInv

\* A worker that leaves: what is left of the argument for Complete, Fail and Crash.
LEMMA WorkerLeaves ==
  ASSUME IInv, NEW w \in Workers, worker' = [worker EXCEPT ![w] = Out],
         UNCHANGED <<events, tables, reviews, caller>>
  PROVE  /\ Grows /\ RecordsOK' /\ LastOK' /\ ReplayRebuilds' /\ PlansOK' /\ CallersOK'
         /\ worker' \in [Workers -> Worker]
         /\ \A v \in Workers : worker'[v].attempts <= MaxAttempts /\ worker'[v].upto <= events'
<1>1. Grows /\ RecordsOK' /\ LastOK' /\ ReplayRebuilds'
  BY UnchangedTables DEF IInv
<1>2. PlansOK'
  BY <1>1, Constants, PlansLeft DEF IInv, Working
<1>3. CallersOK'
  BY DEF IInv, CallersOK
<1>4. worker' \in [Workers -> Worker]
  BY Constants, Typed DEF IInv
<1>5. ASSUME NEW v \in Workers
      PROVE  worker'[v].attempts <= MaxAttempts /\ worker'[v].upto <= events'
  <2>1. CASE v = w
    BY <2>1, Constants, Typed DEF IInv
  <2>2. CASE v # w
    BY <2>2, Typed DEF IInv, JobOK
  <2> QED BY <2>1, <2>2
<1> QED BY <1>1, <1>2, <1>3, <1>4, <1>5

LEMMA CompleteStep ==
  ASSUME IInv, NEW w \in Workers, Complete(w)
  PROVE  IInv'
<1>1. /\ worker[w].pc = "next" /\ Todo(w) = {}
      /\ job' = [status |-> "succeeded", attempts |-> worker[w].attempts]
      /\ checkpoint' = worker[w].upto
      /\ worker' = [worker EXCEPT ![w] = Out]
      /\ UNCHANGED <<events, tables, reviews, caller, keeper, bounds>>
  BY DEF Complete
<1>2. /\ Grows /\ RecordsOK' /\ LastOK' /\ ReplayRebuilds' /\ PlansOK' /\ CallersOK'
      /\ worker' \in [Workers -> Worker]
      /\ \A v \in Workers : worker'[v].attempts <= MaxAttempts /\ worker'[v].upto <= events'
  BY <1>1, WorkerLeaves
<1>3. worker[w].attempts \in 0..MaxAttempts /\ worker[w].upto \in 0..events
  BY Typed, Constants DEF IInv, JobOK
<1>4. TypeOK'
  BY <1>1, <1>2, <1>3 DEF IInv, TypeOK, tables, bounds, keeper
<1>5. JobOK'
  BY <1>1, <1>2 DEF JobOK
<1>6. NothingSkipped'
  <2> SUFFICES ASSUME NEW e \in 1..worker[w].upto, Kind[e] # "chat"
               PROVE  Handled(e)'
    BY <1>1 DEF NothingSkipped
  <2>1. e \in Places
    BY Typed, Constants DEF IInv
  <2>2. worker[w].plan[e] = Nothing
    BY <1>1, <2>1 DEF Todo
  <2>3. Handled(e)
    BY <1>1, <2>2 DEF IInv, PlansOK, PlanOK, Working, Planned
  <2> QED BY <1>1, <1>2, <2>3, Typed, HandledStays DEF IInv
<1> QED BY <1>2, <1>4, <1>5, <1>6 DEF IInv

LEMMA FailStep ==
  ASSUME IInv, NEW w \in Workers, Fail(w)
  PROVE  IInv'
<1>1. /\ faults < MaxFaults /\ faults' = faults + 1
      /\ job' = [status |-> IF worker[w].attempts < MaxAttempts THEN "pending" ELSE "dead_letter",
                 attempts |-> worker[w].attempts]
      /\ worker' = [worker EXCEPT ![w] = Out]
      /\ UNCHANGED <<events, checkpoint, tables, reviews, caller, keeper, schedules, calls>>
  BY DEF Fail
<1>2. /\ Grows /\ RecordsOK' /\ LastOK' /\ ReplayRebuilds' /\ PlansOK' /\ CallersOK'
      /\ worker' \in [Workers -> Worker]
      /\ \A v \in Workers : worker'[v].attempts <= MaxAttempts /\ worker'[v].upto <= events'
  BY <1>1, WorkerLeaves
<1>3. worker[w].attempts \in 0..MaxAttempts
  BY Typed, Constants DEF IInv, JobOK
<1>4. TypeOK'
  BY <1>1, <1>2, <1>3, ConstantsAssumption DEF IInv, TypeOK, tables, keeper
<1>5. JobOK'
  BY <1>1, <1>2 DEF JobOK
<1>6. NothingSkipped'
  BY <1>1, <1>2, SkippedStays DEF IInv
<1> QED BY <1>2, <1>4, <1>5, <1>6 DEF IInv

LEMMA CrashStep ==
  ASSUME IInv, NEW w \in Workers, Crash(w)
  PROVE  IInv'
<1>1. /\ faults < MaxFaults /\ faults' = faults + 1
      /\ worker' = [worker EXCEPT ![w] = Out]
      /\ UNCHANGED <<events, queue, tables, reviews, caller, keeper, schedules, calls>>
  BY DEF Crash
<1>2. /\ Grows /\ RecordsOK' /\ LastOK' /\ ReplayRebuilds' /\ PlansOK' /\ CallersOK'
      /\ worker' \in [Workers -> Worker]
      /\ \A v \in Workers : worker'[v].attempts <= MaxAttempts /\ worker'[v].upto <= events'
  BY <1>1, WorkerLeaves
<1>3. TypeOK'
  BY <1>1, <1>2, ConstantsAssumption DEF IInv, TypeOK, queue, tables, keeper
<1>4. JobOK'
  BY <1>1, <1>2 DEF IInv, JobOK, queue
<1>5. NothingSkipped'
  BY <1>1, <1>2, SkippedStays DEF IInv, queue
<1> QED BY <1>2, <1>3, <1>4, <1>5 DEF IInv

\* What retention does to the table: it leaves the sources, the log and the tombstones
\* alone, and remembers whom it changed.
LEMMA Retained ==
  ASSUME TypeOK, RecordsOK, LastOK, ReplayRebuilds, NEW p \in Retention, Retains(p),
         reviews' = reviews
  PROVE  /\ mem' \in [Memories -> Record] /\ unlogged' \subseteq Memories
         /\ tomb' = tomb /\ log' = log /\ raced' = raced /\ Grows
         /\ RecordsOK' /\ LastOK' /\ ReplayRebuilds'
<1> DEFINE aged(m) == [mem[m] EXCEPT !.version = @ + 1,
                                     !.status = IF p[m] = "archive" THEN "archived" ELSE @]
<1>1. /\ mem' = [m \in Memories |-> IF m \notin Touched(p) THEN mem[m] ELSE aged(m)]
      /\ unlogged' = unlogged \cup Touched(p)
      /\ tomb' = tomb /\ log' = log /\ raced' = raced
  BY DEF Retains
<1>2. Touched(p) \subseteq Memories /\ unlogged \subseteq Memories
  BY DEF Touched, TypeOK
<1>3. Grows
  BY <1>1 DEF Grows
<1>4. ASSUME NEW m \in Memories
      PROVE  aged(m) \in Record /\ aged(m).sources = mem[m].sources
  <2>1. mem[m] \in Record
    BY Typed
  <2>2. /\ mem[m].version + 1 \in Nat /\ mem[m].sources \in SUBSET Events
        /\ mem[m].status \in {"absent", "active", "archived", "superseded"}
    BY <2>1 DEF Record
  <2>3. CASE p[m] = "archive"
    <3>1. aged(m) = [mem[m] EXCEPT !.version = @ + 1, !.status = "archived"]
      BY <2>3
    <3> QED BY <2>1, <2>2, <3>1 DEF Record
  <2>4. CASE p[m] # "archive"
    <3>1. aged(m) = [mem[m] EXCEPT !.version = @ + 1]
      BY <2>1, <2>4 DEF Record
    <3> QED BY <2>1, <2>2, <3>1 DEF Record
  <2> QED BY <2>3, <2>4
<1> HIDE DEF aged
<1>5. mem' \in [Memories -> Record] /\ \A m \in Memories : mem'[m].sources = mem[m].sources
  BY <1>1, <1>4, Typed
<1>6. \A e : Handled(e)' <=> Handled(e)
  BY <1>1 DEF Handled
<1>7. RecordsOK'
  BY <1>1, <1>5, <1>6 DEF RecordsOK
<1>8. LastOK'
  BY <1>1 DEF LastOK, Entries
<1>9. ReplayRebuilds'
  <2>1. Replayed' = Replayed /\ Deleted' = Deleted
    BY <1>1 DEF Replayed, Deleted, Entries
  <2>2. \A m \in Memories \ unlogged' : m \in Memories \ unlogged /\ mem'[m] = mem[m]
    BY <1>1
  <2> QED BY <1>1, <2>1, <2>2 DEF ReplayRebuilds
<1> QED BY <1>1, <1>2, <1>3, <1>5, <1>7, <1>8, <1>9

LEMMA RunCycleStep ==
  ASSUME IInv, RunCycle
  PROVE  IInv'
<1>1. /\ cycles < MaxCycles /\ cycles' = cycles + 1
      /\ UNCHANGED <<events, queue, reviews, worker, caller, retention, bounds>>
  BY DEF RunCycle
<1>2. PICK p \in Plans : Retains(p)
  BY DEF RunCycle
<1>3. p \in Retention
  BY DEF Plans
<1>4. /\ mem' \in [Memories -> Record] /\ unlogged' \subseteq Memories
      /\ tomb' = tomb /\ log' = log /\ raced' = raced /\ Grows
      /\ RecordsOK' /\ LastOK' /\ ReplayRebuilds'
  BY <1>1, <1>2, <1>3, Retained DEF IInv
<1>5. TypeOK'
  BY <1>1, <1>4, ConstantsAssumption DEF IInv, TypeOK, queue, bounds
<1>6. JobOK' /\ CallersOK'
  BY <1>1 DEF IInv, JobOK, CallersOK, queue
<1>7. NothingSkipped' /\ PlansOK'
  BY <1>1, <1>4, SkippedStays, PlansStay DEF IInv, queue
<1> QED BY <1>4, <1>5, <1>6, <1>7 DEF IInv

LEMMA PlanRetentionStep ==
  ASSUME IInv, PlanRetention
  PROVE  IInv'
<1>1. /\ cycles < MaxCycles /\ cycles' = cycles + 1 /\ retention' \in Plans
      /\ UNCHANGED <<events, queue, tables, reviews, worker, caller, bounds>>
  BY DEF PlanRetention
<1>2. retention' \in Retention
  BY <1>1 DEF Plans
<1>3. Grows /\ RecordsOK' /\ LastOK' /\ ReplayRebuilds'
  BY <1>1, UnchangedTables DEF IInv
<1>4. TypeOK'
  BY <1>1, <1>2, ConstantsAssumption DEF IInv, TypeOK, queue, tables, bounds
<1>5. JobOK' /\ CallersOK'
  BY <1>1 DEF IInv, JobOK, CallersOK, queue
<1>6. NothingSkipped' /\ PlansOK'
  BY <1>1, <1>3, SkippedStays, PlansStay DEF IInv, queue
<1> QED BY <1>3, <1>4, <1>5, <1>6 DEF IInv

LEMMA ApplyRetentionStep ==
  ASSUME IInv, ApplyRetention
  PROVE  IInv'
<1>1. /\ retention' = NoPlan /\ Retains(retention)
      /\ UNCHANGED <<events, queue, reviews, worker, caller, cycles, bounds>>
  BY DEF ApplyRetention
<1>2. retention \in Retention /\ NoPlan \in Retention
  BY DEF IInv, TypeOK, NoPlan, Retention
<1>3. /\ mem' \in [Memories -> Record] /\ unlogged' \subseteq Memories
      /\ tomb' = tomb /\ log' = log /\ raced' = raced /\ Grows
      /\ RecordsOK' /\ LastOK' /\ ReplayRebuilds'
  BY <1>1, <1>2, Retained DEF IInv
<1>4. TypeOK'
  BY <1>1, <1>2, <1>3 DEF IInv, TypeOK, queue, bounds
<1>5. JobOK' /\ CallersOK'
  BY <1>1 DEF IInv, JobOK, CallersOK, queue
<1>6. NothingSkipped' /\ PlansOK'
  BY <1>1, <1>3, SkippedStays, PlansStay DEF IInv, queue
<1> QED BY <1>3, <1>4, <1>5, <1>6 DEF IInv

LEMMA StutterStep ==
  ASSUME IInv, UNCHANGED vars
  PROVE  IInv'
<1>1. UNCHANGED <<events, queue, tables, reviews, worker, caller, keeper, bounds>>
  BY DEF vars
<1>2. TypeOK' /\ JobOK' /\ CallersOK'
  BY <1>1 DEF IInv, TypeOK, JobOK, CallersOK, queue, tables, bounds, keeper
<1>3. Grows /\ RecordsOK' /\ LastOK' /\ ReplayRebuilds'
  BY <1>1, UnchangedTables DEF IInv
<1>4. NothingSkipped' /\ PlansOK'
  BY <1>1, <1>3, SkippedStays, PlansStay DEF IInv, queue
<1> QED BY <1>2, <1>3, <1>4 DEF IInv

THEOREM Invariance == Spec => []IInv
<1>1. Init => IInv
  BY InitInvariant
<1>2. IInv /\ [Next]_vars => IInv'
  <2> SUFFICES ASSUME IInv, [Next]_vars
               PROVE  IInv'
    OBVIOUS
  <2>1. CASE \/ Ingest \/ Schedule \/ Replay
             \/ RunCycle \/ PlanRetention \/ ApplyRetention
    BY <2>1, IngestStep, ScheduleStep, ReplayStep, RunCycleStep, PlanRetentionStep,
       ApplyRetentionStep
  <2>2. CASE \E c \in Callers : Write(c) \/ \E r \in Requests : Ask(c, r)
    BY <2>2, WriteStep, AskStep
  <2>3. ASSUME NEW w \in Workers,
               \/ Claim(w) \/ Analyze(w) \/ Lookup(w) \/ ApplyStep(w) \/ Review(w)
               \/ Complete(w) \/ Fail(w) \/ Crash(w)
        PROVE  IInv'
    BY <2>3, ClaimStep, AnalyzeStep, LookupStep, ApplyStepStep, ReviewStep, CompleteStep,
       FailStep, CrashStep
  <2>4. CASE UNCHANGED vars
    BY <2>4, StutterStep
  <2> QED BY <2>1, <2>2, <2>3, <2>4 DEF Next
<1> QED BY <1>1, <1>2, PTL DEF Spec

-----------------------------------------------------------------------------

\* The tables, the workers and the callers stay well typed, and the checkpoint within the log.
THEOREM TypeCorrect == Spec => []TypeOK
<1>1. IInv => TypeOK
  BY DEF IInv
<1> QED BY <1>1, Invariance, PTL

\* AutoDreamWorker.run_once: no event that says something is passed over by the checkpoint,
\* whatever is scheduled again, fails, crashes or races, for any number of workers.
THEOREM NoEventIsSkipped == Spec => []NothingSkipped
<1>1. IInv => NothingSkipped
  BY DEF IInv
<1> QED BY <1>1, Invariance, PTL

\* replay_memory_audit: the audit log rebuilds the memories and the tombstones, but for what
\* retention made of a memory since its last entry, and unless two writers passed the lookup
\* of one proposal together.
THEOREM LogRebuildsMemories == Spec => []ReplayRebuilds
<1>1. IInv => ReplayRebuilds
  BY DEF IInv
<1> QED BY <1>1, Invariance, PTL
=============================================================================
