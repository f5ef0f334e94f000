------------------------------ MODULE LaneQueue ------------------------------
(***************************************************************************)
(* What the job ledger promises the users of a serial lane.  A lane is a   *)
(* FIFO queue: only its head is ever started, with nothing held, and each  *)
(* item no more often than it has tries.  The head gives way when it is    *)
(* settled, or held because its outcome is unknown; a held item stops the  *)
(* lane until somebody decides.  One thing the lane does not promise: the  *)
(* head may be given up WHILE its last try is still executing, and the     *)
(* next item is then started beside it.  DurableJobs implements this.      *)
(***************************************************************************)
EXTENDS Sequences, Naturals

CONSTANTS
  LaneNames,
  ItemsOf,    \* per lane, the items that may join it
  Tries       \* how often an item may be started

VARIABLES
  line,       \* per lane, the items waiting or being worked on, in order
  held,       \* per lane, the items whose outcome is unknown
  doing,      \* per lane, the items that somebody is executing
  starts,     \* per lane and item, how often it was started
  accepted    \* the items ever accepted: an item joins its lane once

laneVars == <<line, held, doing, starts, accepted>>

LaneInit ==
  /\ line = [l \in LaneNames |-> <<>>]
  /\ held = [l \in LaneNames |-> {}]
  /\ doing = [l \in LaneNames |-> {}]
  /\ starts = [l \in LaneNames |-> [i \in ItemsOf[l] |-> 0]]
  /\ accepted = {}

Unstarted(l) == starts'[l] = starts[l]
First(l) == Head(line[l])

Join(l) ==
  /\ \E i \in ItemsOf[l] \ accepted : line'[l] = Append(line[l], i) /\ i \in accepted'
  /\ held'[l] = held[l] /\ doing'[l] = doing[l] /\ Unstarted(l)

Begin(l) ==
  /\ line[l] # <<>> /\ held[l] = {}
  /\ First(l) \notin doing[l] /\ starts[l][First(l)] < Tries[First(l)]
  /\ doing'[l] = doing[l] \cup {First(l)}
  /\ starts'[l] = [starts[l] EXCEPT ![First(l)] = @ + 1]
  /\ line'[l] = line[l] /\ held'[l] = held[l]

\* Who executes it stops, and what was decided about the item stands.
Stop(l) ==
  /\ \E i \in doing[l] : doing'[l] = doing[l] \ {i}
  /\ line'[l] = line[l] /\ held'[l] = held[l] /\ Unstarted(l)

HeadGoes(l) ==
  /\ line[l] # <<>> /\ starts[l][First(l)] > 0
  /\ line'[l] = Tail(line[l]) /\ Unstarted(l)

Settle(l) == HeadGoes(l) /\ held'[l] = held[l] /\ doing'[l] = doing[l] \ {First(l)}

Hold(l) ==
  HeadGoes(l) /\ held'[l] = held[l] \cup {First(l)} /\ doing'[l] = doing[l] \ {First(l)}

\* The head is given up under its last try, which goes on.
GiveUp(l) ==
  /\ HeadGoes(l) /\ held'[l] = held[l] /\ doing'[l] = doing[l]
  /\ First(l) \in doing[l] /\ starts[l][First(l)] >= Tries[First(l)]

\* The try of an item that was given up ends, with an unknown outcome.
HoldLate(l) ==
  /\ \E i \in doing[l] : /\ line[l] = <<>> \/ i # First(l)
                         /\ starts[l][i] >= Tries[i]
                         /\ doing'[l] = doing[l] \ {i} /\ held'[l] = held[l] \cup {i}
  /\ line'[l] = line[l] /\ Unstarted(l)

Decide(l) ==
  /\ \E i \in held[l] : held'[l] = held[l] \ {i}
  /\ line'[l] = line[l] /\ doing'[l] = doing[l] /\ Unstarted(l)

Rest(l) ==
  line'[l] = line[l] /\ held'[l] = held[l] /\ doing'[l] = doing[l] /\ Unstarted(l)

(* Lanes are independent: one step may concern several of them. *)
LaneNext ==
  /\ accepted \subseteq accepted'
  /\ \A l \in LaneNames :
       \/ Join(l) \/ Begin(l) \/ Stop(l) \/ Settle(l) \/ Hold(l) \/ GiveUp(l)
       \/ HoldLate(l) \/ Decide(l) \/ Rest(l)

LaneSpec == LaneInit /\ [][LaneNext]_laneVars
=============================================================================
