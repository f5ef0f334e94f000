----------------------------- MODULE EventStream -----------------------------
(* What a page may expect of a session's event stream, and all that DialoguePage  *)
(* assumes of it: the events of one task arrive in the order they were published, *)
(* but for those whose job the ledger gave up under its running POST.  Some never *)
(* arrive, some arrive again, and the stream may be refused, after which nothing   *)
(* arrives until the page opens it again.  EventGateway shows that the ledger, the *)
(* gateway and EventSource keep this promise.                                      *)
EXTENDS Naturals, Sequences

CONSTANTS
  Tasks,     \* tasks of the session
  Payloads   \* what an event can carry

VARIABLES
  emitted,  \* emitted[t]: the events published for t, in the order of their rows
  late,     \* events whose job was closed while its POST was running
  last,     \* last[t]: the number of t's event the page received last, but for the late ones
  refused   \* EventSource gave up (readyState CLOSED)

streamVars == <<emitted, late, last, refused>>

StreamInit ==
  /\ emitted = [t \in Tasks |-> <<>>]
  /\ late = {}
  /\ last = [t \in Tasks |-> 0]
  /\ refused = FALSE

\* SSEEventPublisher.publish: a row at the end of the task's lane.
Emit(t, p) ==
  /\ emitted' = [emitted EXCEPT ![t] = Append(@, p)]
  /\ UNCHANGED <<late, last, refused>>

\* The ledger closes the n-th job of t while its last POST is running.
GiveUp(t, n) ==
  /\ n \in 1..Len(emitted[t])
  /\ late' = late \union {[task |-> t, n |-> n]}
  /\ UNCHANGED <<emitted, last, refused>>

\* The page receives the n-th event of t: the last one again or a later one, or one that
\* was given up, at any time.
Deliver(t, n) ==
  /\ ~refused
  /\ n \in 1..Len(emitted[t])
  /\ IF [task |-> t, n |-> n] \in late THEN last' = last
     ELSE n >= last[t] /\ last' = [last EXCEPT ![t] = n]
  /\ UNCHANGED <<emitted, late, refused>>

Refuse == refused' = TRUE /\ UNCHANGED <<emitted, late, last>>

Reopen == refused' = FALSE /\ UNCHANGED <<emitted, late, last>>

StreamNext ==
  \/ \E t \in Tasks, p \in Payloads : Emit(t, p)
  \/ \E t \in Tasks : \E n \in 1..Len(emitted[t]) : GiveUp(t, n) \/ Deliver(t, n)
  \/ Refuse \/ Reopen

StreamSpec == StreamInit /\ [][StreamNext]_streamVars
=============================================================================
