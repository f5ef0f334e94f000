----------------------------- MODULE ToolLedger -----------------------------
(***************************************************************************)
(* What a run promises about its tool calls, whatever executes it: they    *)
(* are made one at a time in the order the model asked for them, each no   *)
(* more often than it may be, each gets one result, and the final answer   *)
(* comes when there is nothing left to call.  One exception: a call whose  *)
(* effect may be undone, and that may be repeated, may be made again       *)
(* behind its own result.                                                  *)
(***************************************************************************)
EXTENDS Integers, Sequences

CONSTANTS
  Calls,
  MayMake(_),   \* how often a call may be made
  Undoable      \* calls that may be repeated and whose effect may be undone

VARIABLES
  asked,   \* the calls, in the order they were asked for
  told,    \* how many of them have their result
  made,    \* how often each was made
  closed   \* the final answer is there

vars == <<asked, told, made, closed>>

Init == asked = <<>> /\ told = 0 /\ made = [c \in Calls |-> 0] /\ closed = FALSE

Idle == told = Len(asked) /\ ~closed

Ask ==
  /\ Idle
  /\ \E new \in UNION {[1..n -> Calls] : n \in 1..2} : asked' = asked \o new
  /\ UNCHANGED <<told, made, closed>>

Make ==
  /\ told < Len(asked)
  /\ made[asked[told + 1]] < MayMake(asked[told + 1])
  /\ made' = [made EXCEPT ![asked[told + 1]] = @ + 1]
  /\ UNCHANGED <<asked, told, closed>>

Again(c) ==
  /\ c \in Undoable
  /\ \E i \in 1..told : asked[i] = c
  /\ made[c] > 0 /\ made[c] < MayMake(c)
  /\ made' = [made EXCEPT ![c] = @ + 1]
  /\ UNCHANGED <<asked, told, closed>>

Tell == told < Len(asked) /\ told' = told + 1 /\ UNCHANGED <<asked, made, closed>>

Close == Idle /\ closed' = TRUE /\ UNCHANGED <<asked, told, made>>

Next == Ask \/ Make \/ (\E c \in Calls : Again(c)) \/ Tell \/ Close

Spec == Init /\ [][Next]_vars
=============================================================================
