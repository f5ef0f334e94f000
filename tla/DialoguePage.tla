---------------------------- MODULE DialoguePage ----------------------------
(* One dialogue session: the tasks that answer its messages, the discovery jobs  *)
(* that fill their recommendation cards, the watch that follows them, and the    *)
(* page that shows the session.  Of the events it assumes what EventStream says.  *)
(*                                                                               *)
(* A session is what became of each task's reply: absent, with a card that still *)
(* waits for discovery, or settled.  Events that only set a label (progress, the *)
(* "discovery running" notice) are left out, and so are other sessions: the page *)
(* cannot leave a session while it is sending.                                   *)
EXTENDS EventStream, FiniteSets

CONSTANTS
  NoTask,      \* activeTaskId is ''
  NoView,      \* an event without a session
  MaxAttempts, \* attempts of a discovery job (8 in the code)
  Cards,       \* bound: how a reply's card may come, pending or full
  MaxFaults,   \* bound: failures, crashes, lost answers, refusals
  MaxReloads,  \* bound: clicks on the refresh button
  Mixed        \* bound: whether a click may follow a fault, and a fault a click

Settled == {"failed", "full"}
Unfinished == {"none", "queued", "running"}
Views == [Tasks -> {"none", "pending"} \union Settled]
Types == {"task", "session", "discovery", "done", "error"}

ASSUME PageAssumption ==
  /\ NoTask \notin Tasks
  /\ NoView \notin Views
  /\ MaxAttempts \in Nat \ {0}
  /\ Cards \subseteq {"pending", "full"}
  /\ MaxFaults \in Nat
  /\ MaxReloads \in Nat
  /\ Mixed \in BOOLEAN

VARIABLES
  db,         \* the session in SQLite
  job,        \* durable_jobs.status of the task
  step,       \* how far the running job is
  reply,      \* what send_message returned
  disc,       \* discovery_jobs.status, the row the discovery writes
  ledger,     \* durable_jobs.status of the discovery; "closed": failed, its last attempt runs
  discTries,  \* attempts of the discovery job
  found,      \* history: the tasks whose discovery has once written "completed"
  watch,      \* the watch job: its step and what it holds
  page,       \* the page's state
  reloads,
  faults

discVars == <<disc, ledger, discTries, found>>
backVars == <<db, job, step, reply, discVars, watch>>
bounds == <<reloads, faults>>
vars == <<streamVars, backVars, page, bounds>>

\* What an event carries (the value of Payloads).
PagePayloads == [type : Types, view : Views \union {NoView}]

\* No read outstanding.
NoRead == [task |-> NoTask, stage |-> "idle", status |-> "none", view |-> NoView]

Absent == [t \in Tasks |-> "none"]

NoWatch == [stage |-> "none", card |-> NoTask, status |-> "none", printed |-> Absent,
            current |-> NoView]

\* _run enqueues the watch with the reply as the session it starts from.
NewWatch(t) == [NoWatch EXCEPT !.stage = "look", !.current = reply[t]]

Init ==
  /\ StreamInit
  /\ db = Absent
  /\ job = [t \in Tasks |-> "none"]
  /\ step = [t \in Tasks |-> "start"]
  /\ reply = [t \in Tasks |-> NoView]
  /\ disc = [t \in Tasks |-> "none"]
  /\ ledger = [t \in Tasks |-> "none"]
  /\ discTries = [t \in Tasks |-> 0]
  /\ found = {}
  /\ watch = [t \in Tasks |-> NoWatch]
  /\ page = [view |-> db, sending |-> FALSE, asked |-> NoTask, active |-> NoTask,
             accepted |-> {}, completed |-> {}, poll |-> NoRead, card |-> NoRead,
             loading |-> NoRead]
  /\ reloads = 0
  /\ faults = 0

\* Bound: one more fault may happen, and it does.
GoesWrong ==
  /\ faults < MaxFaults /\ (Mixed \/ reloads = 0)
  /\ faults' = faults + 1

Publish(t, type, view) == Emit(t, [type |-> type, view |-> view])

-----------------------------------------------------------------------------
(* The dialogue job: DialogueTaskService._run. *)

\* A worker claims the job; the session's lane runs one at a time.
StartJob(t) ==
  /\ job[t] = "queued"
  /\ \A u \in Tasks : job[u] # "running"
  /\ job' = [job EXCEPT ![t] = "running"]
  /\ UNCHANGED <<streamVars, db, step, reply, discVars, watch, page, bounds>>

\* send_message: the reply is stored, with or without a card that a queued discovery fills.
Reply(t) ==
  /\ job[t] = "running" /\ step[t] = "start"
  /\ step' = [step EXCEPT ![t] = "session"]
  /\ \E card \in Cards :
       /\ db' = [db EXCEPT ![t] = card]
       /\ disc' = [disc EXCEPT ![t] = IF card = "pending" THEN "queued" ELSE "none"]
       /\ ledger' = [ledger EXCEPT ![t] = disc'[t]]
  /\ reply' = [reply EXCEPT ![t] = db']
  /\ UNCHANGED <<streamVars, job, discTries, found, watch, page, bounds>>

PublishSession(t) ==
  /\ job[t] = "running" /\ step[t] = "session"
  /\ Publish(t, "session", reply[t])
  /\ step' = [step EXCEPT ![t] = IF \E u \in Tasks : reply[t][u] = "pending"
                                 THEN "watch" ELSE "done"]
  /\ UNCHANGED <<db, job, reply, discVars, watch, page, bounds>>

EnqueueWatch(t) ==
  /\ job[t] = "running" /\ step[t] = "watch"
  /\ watch' = [watch EXCEPT ![t] = NewWatch(t)]
  /\ step' = [step EXCEPT ![t] = "done"]
  /\ UNCHANGED <<streamVars, db, job, reply, discVars, page, bounds>>

PublishDone(t) ==
  /\ job[t] = "running" /\ step[t] = "done"
  /\ Publish(t, "done", reply[t])
  /\ step' = [step EXCEPT ![t] = "finish"]
  /\ UNCHANGED <<db, job, reply, discVars, watch, page, bounds>>

FinishJob(t) ==
  /\ job[t] = "running" /\ step[t] \in {"finish", "raised"}
  /\ job' = [job EXCEPT ![t] = IF step[t] = "finish" THEN "completed" ELSE "failed"]
  /\ UNCHANGED <<streamVars, db, step, reply, discVars, watch, page, bounds>>

\* Anything inside the try raises: the error is published and the job will fail.
JobRaises(t) ==
  /\ job[t] = "running" /\ step[t] \in {"start", "session", "watch", "done"}
  /\ GoesWrong
  /\ Publish(t, "error", NoView)
  /\ step' = [step EXCEPT ![t] = "raised"]
  /\ UNCHANGED <<db, job, reply, discVars, watch, page, reloads>>

\* The worker dies; the ledger parks the job, which is not safe to repeat.
JobCrashes(t) ==
  /\ job[t] = "running"
  /\ GoesWrong
  /\ job' = [job EXCEPT ![t] = "needs_reconciliation"]
  /\ UNCHANGED <<streamVars,
                 db, step, reply, discVars, watch, page, reloads>>

-----------------------------------------------------------------------------
(* The discovery job: DiscoveryService._run_job under the durable ledger. *)

\* The claim, and the row that says running, whatever it said before.
StartDiscovery(t) ==
  /\ ledger[t] = "queued"
  /\ ledger' = [ledger EXCEPT ![t] = "running"]
  /\ disc' = [disc EXCEPT ![t] = "running"]
  /\ discTries' = [discTries EXCEPT ![t] = @ + 1]
  /\ UNCHANGED <<streamVars, db, job, step, reply, found, watch, page, bounds>>

Discovering(t) == ledger[t] \in {"running", "closed"}

\* The songs are found and the row says so; the job goes on.
CompleteDiscovery(t) ==
  /\ Discovering(t) /\ disc[t] = "running"
  /\ disc' = [disc EXCEPT ![t] = "completed"]
  /\ found' = found \union {t}
  /\ UNCHANGED <<streamVars, db, job, step, reply, ledger, discTries, watch, page, bounds>>

\* finish: a job that was closed while it ran ends completed all the same.
FinishDiscovery(t) ==
  /\ Discovering(t) /\ disc[t] = "completed"
  /\ ledger' = [ledger EXCEPT ![t] = "completed"]
  /\ UNCHANGED <<streamVars, db, job, step, reply, disc, discTries, found, watch, page, bounds>>

\* A fault of the discovery's worker; the rest stays as it was.
DiscoveryFault ==
  /\ GoesWrong
  /\ UNCHANGED <<streamVars, db, job, step, reply, discTries, found, watch, page, reloads>>

\* A failed attempt: the job is retry-safe.
TriedAgain(t) ==
  ledger' = [ledger EXCEPT ![t] =
    IF @ = "running" /\ discTries[t] < MaxAttempts THEN "queued" ELSE "failed"]

\* _discover raises: the row says failed, whether or not the ledger will try the job again.
FailDiscovery(t) ==
  /\ Discovering(t) /\ disc[t] = "running"
  /\ disc' = [disc EXCEPT ![t] = "failed"]
  /\ TriedAgain(t)
  /\ DiscoveryFault

\* The worker dies, or what follows the row's "completed" raises: the row stays as it is.
DiscoveryDies(t) ==
  /\ Discovering(t)
  /\ TriedAgain(t)
  /\ disc' = disc
  /\ DiscoveryFault

\* The job's message arrives again while its last attempt runs.
CloseDiscovery(t) ==
  /\ ledger[t] = "running" /\ discTries[t] >= MaxAttempts
  /\ ledger' = [ledger EXCEPT ![t] = "closed"]
  /\ UNCHANGED <<streamVars, db, job, step, reply, disc, discTries, found, watch, page, bounds>>

\* job_status: what the ledger closed has failed; otherwise the row speaks.
Status(t) == IF ledger[t] \in {"failed", "closed"} THEN "failed" ELSE disc[t]

\* A plausible bug: only a discovery that runs keeps its card pending.
RefreshedQueuedFull(t, status) ==
  [db EXCEPT ![t] = CASE status = "running" -> "pending"
                      [] status = "failed" -> "failed"
                      [] OTHER -> "full"]

\* refresh_recommendation_card reads the status, and writes the card after it.
Refreshed(t, status) ==
  [db EXCEPT ![t] = CASE status \in Unfinished -> "pending"
                      [] status = "failed" -> "failed"
                      [] OTHER -> "full"]

-----------------------------------------------------------------------------
(* The watch: DialogueTaskService._watch_discovery. *)

WatchRead(t) ==
  /\ watch[t].stage = "look"
  /\ \E c \in Tasks :
       /\ watch[t].current[c] = "pending"
       /\ watch' = [watch EXCEPT ![t].stage = "write", ![t].card = c,
                                 ![t].status = Status(c)]
  /\ UNCHANGED <<streamVars, db, job, step, reply, discVars, page, bounds>>

\* The refreshed session is published when the card's fingerprint has changed.
WatchWrite(t) ==
  LET c == watch[t].card
  IN /\ watch[t].stage = "write"
     /\ db' = Refreshed(c, watch[t].status)
     /\ watch' = [watch EXCEPT ![t] =
          [stage |-> IF db'[c] = watch[t].printed[c] THEN "look" ELSE "tell",
           card |-> NoTask, status |-> "none",
           printed |-> [watch[t].printed EXCEPT ![c] = db'[c]], current |-> db']]
     /\ UNCHANGED <<streamVars, job, step, reply, discVars, page, bounds>>

WatchTell(t) ==
  /\ watch[t].stage = "tell"
  /\ Publish(t, "session", watch[t].current)
  /\ watch' = [watch EXCEPT ![t].stage = "look"]
  /\ UNCHANGED <<db, job, step, reply, discVars, page, bounds>>

\* Nothing is pending any more, or the 40 polls are over.
WatchEnd(t) ==
  /\ watch[t].stage = "look"
  /\ Publish(t, "discovery", watch[t].current)
  /\ watch' = [watch EXCEPT ![t] = [NoWatch EXCEPT !.stage = "over"]]
  /\ UNCHANGED <<db, job, step, reply, discVars, page, bounds>>

\* The worker dies; the ledger runs the watch again from its payload.
WatchCrashes(t) ==
  /\ watch[t].stage \in {"look", "write", "tell"}
  /\ GoesWrong
  /\ watch' = [watch EXCEPT ![t] = NewWatch(t)]
  /\ UNCHANGED <<streamVars,
                 db, job, step, reply, discVars, page, reloads>>

-----------------------------------------------------------------------------
(* The page: AgentDialogueView.vue and useDialogueTasks.ts. *)

\* finishActiveTask: an in-flight poll goes on, its timer does not.
Finished(p, t) ==
  IF p.active \notin {NoTask, t} THEN p
  ELSE [p EXCEPT !.active = NoTask, !.sending = FALSE,
                 !.poll = IF @.stage = "armed" THEN NoRead ELSE @]

\* sendMessage posts; the service queues the job and the "task" event in one transaction.
Submit(t) ==
  /\ job[t] = "none"
  /\ ~page.sending /\ page.asked = NoTask /\ page.loading = NoRead
  /\ page' = [page EXCEPT !.sending = TRUE, !.asked = t]
  /\ job' = [job EXCEPT ![t] = "queued"]
  /\ Publish(t, "task", NoView)
  /\ UNCHANGED <<db, step, reply, discVars, watch, bounds>>

\* The answer: the stream is connected again if it was refused, and the poll is armed
\* unless "done" came first.
Answer ==
  LET t == page.asked
  IN /\ t # NoTask
     /\ Reopen
     /\ page' = IF t \in page.completed
                THEN [page EXCEPT !.asked = NoTask, !.accepted = @ \union {t},
                                  !.completed = @ \ {t}, !.sending = FALSE]
                ELSE [page EXCEPT !.asked = NoTask, !.accepted = @ \union {t},
                                  !.active = t,
                                  !.poll = [NoRead EXCEPT !.task = t, !.stage = "armed"]]
     /\ UNCHANGED <<backVars, bounds>>

\* The request or its answer is lost; the task may have been accepted.
AnswerLost ==
  /\ page.asked # NoTask
  /\ GoesWrong
  /\ page' = [page EXCEPT !.asked = NoTask, !.sending = FALSE]
  /\ UNCHANGED <<streamVars, backVars, reloads>>

\* handleStreamEvent
Handled(p, t, payload) ==
  LET shown == IF payload.view = NoView THEN p ELSE [p EXCEPT !.view = payload.view]
  IN CASE payload.type = "task" /\ p.sending /\ p.active = NoTask ->
            [shown EXCEPT !.active = t]
       [] payload.type = "error" -> Finished(shown, t)
       [] payload.type = "done" -> Finished([shown EXCEPT !.completed = @ \union {t}], t)
       [] OTHER -> shown

\* An event arrives; the last one arrives again when its POST was repeated.
Receive(t, n) ==
  /\ Deliver(t, n)
  /\ IF n <= last[t] THEN GoesWrong ELSE faults' = faults
  /\ page' = Handled(page, t, emitted[t][n])
  /\ UNCHANGED <<backVars, reloads>>

\* An event that was given up under its POST arrives after later ones.
ReceiveLate(t, n) ==
  /\ ~refused /\ n < last[t]
  /\ GiveUp(t, n)
  /\ GoesWrong
  /\ page' = Handled(page, t, emitted[t][n])
  /\ UNCHANGED <<backVars, reloads>>

\* A plausible bug: the poll knows two terminal states of the three.
PollStatusTwo ==
  LET t == page.poll.task
  IN /\ page.poll.stage = "armed"
     /\ job[t] \in {"completed", "failed"}
     /\ page' = IF job[t] = "completed" THEN [page EXCEPT !.poll.stage = "fetch"]
                ELSE Finished(page, t)
     /\ UNCHANGED <<streamVars, backVars, bounds>>

\* armTaskReconciliation: every 3 s the task's status is read.
PollStatus ==
  LET t == page.poll.task
  IN /\ page.poll.stage = "armed"
     /\ job[t] \notin Unfinished
     /\ page' = IF job[t] = "completed" THEN [page EXCEPT !.poll.stage = "fetch"]
                ELSE Finished(page, t)
     /\ UNCHANGED <<streamVars, backVars, bounds>>

PollFetch ==
  /\ page.poll.stage = "fetch"
  /\ page' = [page EXCEPT !.poll.stage = "apply", !.poll.view = db]
  /\ UNCHANGED <<streamVars, backVars, bounds>>

\* A plausible bug: the task is finished and the fetched session is not shown.
PollApplyUnseen ==
  LET t == page.poll.task
  IN /\ page.poll.stage = "apply"
     /\ page' = IF page.active # t THEN [page EXCEPT !.poll = NoRead]
                ELSE Finished([page EXCEPT !.completed = @ \union {t}, !.poll = NoRead], t)
     /\ UNCHANGED <<streamVars, backVars, bounds>>

\* The answer is used if the task is still the active one.
PollApply ==
  LET t == page.poll.task
  IN /\ page.poll.stage = "apply"
     /\ page' = IF page.active # t THEN [page EXCEPT !.poll = NoRead]
                ELSE Finished([page EXCEPT !.view = page.poll.view,
                                           !.completed = @ \union {t},
                                           !.poll = NoRead], t)
     /\ UNCHANGED <<streamVars, backVars, bounds>>

\* reconcileDiscovery: every 2.5 s the discovery of a card that is shown pending is read;
\* one that has ended has its card refreshed.
CardRead(t) ==
  /\ page.card = NoRead
  /\ page.view[t] = "pending"
  /\ Status(t) \notin Unfinished
  /\ page' = [page EXCEPT !.card = [NoRead EXCEPT !.task = t, !.stage = "write",
                                                  !.status = Status(t)]]
  /\ UNCHANGED <<streamVars, backVars, bounds>>

CardWrite ==
  /\ page.card.stage = "write"
  /\ db' = Refreshed(page.card.task, page.card.status)
  /\ page' = [page EXCEPT !.card.stage = "apply", !.card.view = db']
  /\ UNCHANGED <<streamVars, job, step, reply, discVars, watch, bounds>>

CardApply ==
  /\ page.card.stage = "apply"
  /\ page' = [page EXCEPT !.view = page.card.view, !.card = NoRead]
  /\ UNCHANGED <<streamVars, backVars, bounds>>

\* The refresh button: loadSession reads the session, shows it and connects the stream.
Reload ==
  /\ reloads < MaxReloads /\ (Mixed \/ faults = 0 \/ refused)
  /\ page.loading = NoRead
  /\ reloads' = reloads + 1
  /\ page' = [page EXCEPT !.loading = [NoRead EXCEPT !.stage = "apply", !.view = db]]
  /\ UNCHANGED <<streamVars, backVars, faults>>

\* connectEventStream on a refused stream closes it first, and the poll's timer with it.
ReloadApply ==
  /\ page.loading # NoRead
  /\ Reopen
  /\ page' = [page EXCEPT !.view = page.loading.view,
                          !.loading = NoRead,
                          !.poll = IF refused /\ @.stage = "armed"
                                   THEN NoRead ELSE @]
  /\ UNCHANGED <<backVars, bounds>>

-----------------------------------------------------------------------------

JobStep(t) ==
  StartJob(t) \/ Reply(t) \/ PublishSession(t) \/ EnqueueWatch(t) \/ PublishDone(t)
  \/ FinishJob(t)

DiscoveryStep(t) == StartDiscovery(t) \/ CompleteDiscovery(t) \/ FinishDiscovery(t)

WatchStep(t) == WatchRead(t) \/ WatchWrite(t) \/ WatchTell(t) \/ WatchEnd(t)

StreamRefused ==
  /\ Refuse
  /\ GoesWrong
  /\ UNCHANGED <<backVars, page, reloads>>

PollStep == PollStatus \/ PollFetch \/ PollApply
CardStep == CardWrite \/ CardApply \/ \E t \in Tasks : CardRead(t)

Fault ==
  \/ \E t \in Tasks : JobRaises(t) \/ JobCrashes(t) \/ WatchCrashes(t)
                       \/ FailDiscovery(t) \/ DiscoveryDies(t)
  \/ AnswerLost
  \/ StreamRefused

Next ==
  \/ \E t \in Tasks :
       Submit(t) \/ JobStep(t) \/ DiscoveryStep(t) \/ CloseDiscovery(t) \/ WatchStep(t)
  \/ \E t \in Tasks : \E n \in 1..Len(emitted[t]) : Receive(t, n) \/ ReceiveLate(t, n)
  \/ Answer \/ PollStep \/ CardStep
  \/ Reload \/ ReloadApply
  \/ Fault

Spec == Init /\ [][Next]_vars

\* The workers of the two jobs and the page's own timers go on.  Events may never arrive,
\* the watch may never run, and the user may do nothing.
FairSpec ==
  /\ Spec
  /\ WF_vars(\E t \in Tasks : JobStep(t) \/ DiscoveryStep(t))
  /\ WF_vars(Answer \/ PollStep \/ CardStep)

-----------------------------------------------------------------------------
(* Properties. *)

Statuses == Unfinished \union {"failed", "completed"}

Reads == [task : Tasks \union {NoTask}, stage : {"idle", "armed", "fetch", "write", "apply"},
          status : Statuses, view : Views \union {NoView}]

Watches == [stage : {"none", "look", "write", "tell", "over"}, card : Tasks \union {NoTask},
            status : Statuses, printed : Views, current : Views \union {NoView}]

Pages == [view : Views, sending : BOOLEAN, asked : Tasks \union {NoTask},
          active : Tasks \union {NoTask}, accepted : SUBSET Tasks,
          completed : SUBSET Tasks, poll : Reads, card : Reads, loading : Reads]

TypeOK ==
  /\ emitted \in [Tasks -> Seq(PagePayloads)]
  /\ late \subseteq [task : Tasks, n : Nat]
  /\ last \in [Tasks -> Nat]
  /\ refused \in BOOLEAN
  /\ db \in Views
  /\ job \in [Tasks -> Statuses \union {"needs_reconciliation"}]
  /\ step \in [Tasks -> {"start", "session", "watch", "done", "finish", "raised"}]
  /\ reply \in [Tasks -> Views \union {NoView}]
  /\ disc \in [Tasks -> Statuses]
  /\ ledger \in [Tasks -> Statuses \union {"closed"}]
  /\ discTries \in [Tasks -> 0..MaxAttempts]
  /\ found \subseteq Tasks
  /\ watch \in [Tasks -> Watches]
  /\ page \in Pages
  /\ reloads \in 0..MaxReloads
  /\ faults \in 0..MaxFaults

\* What the page shows of a task was true of it: a card shown pending has a discovery, one
\* shown filled needs none or its songs were found, and one shown failed was tried.  Views
\* are read, carried and written back by two watchers, a poll, a refresh and the stream,
\* each with what it read earlier, while the discovery may be run again after its end.
CardsAreTrue ==
  \A t \in Tasks :
    /\ page.view[t] = "pending" => disc[t] # "none"
    /\ page.view[t] = "full" => disc[t] = "none" \/ t \in found
    /\ page.view[t] = "failed" => discTries[t] > 0

\* A page that waits is not left alone: until somebody clicks refresh, it waits for the
\* answer to a POST, or the poll follows the task it waits for.
WaitingIsWatched ==
  page.sending =>
    \/ page.asked # NoTask
    \/ page.active # NoTask /\ page.poll.task = page.active /\ page.poll.stage # "idle"
    \/ page.active # NoTask /\ reloads > 0

\* Where a refresh, clicked while the stream is refused, leaves an active task without a
\* poll, for ever if the new stream starts after the task's last event.
PollForgotten == page.active # NoTask /\ page.poll = NoRead /\ page.asked = NoTask

\* The page stops waiting for every message it sent: whatever happens to the stream, the
\* poll sees the job's end (or, forgotten, leaves it to an event that may never come).
TaskEnds == page.sending ~> (~page.sending \/ PollForgotten)

\* A page that is not refreshed by hand ends up showing the reply of every task it was
\* told is accepted and that completed, with its card filled or given up.
PageCatchesUp ==
  \A t \in Tasks :
    (t \in page.accepted /\ job[t] = "completed")
      ~> (reloads > 0 \/ [](reloads = 0 => page.view[t] \in Settled))
=============================================================================
