\* One task with one fault or one click on refresh (both, when the fault is that the stream
\* was refused): every event of the task, its watch and its discovery.
SPECIFICATION FairSpec
CONSTANTS
  task1 = task1
  NoTask = NoTask
  NoView = NoView
  Tasks = {task1}
  Payloads <- PagePayloads
  MaxAttempts = 2
  Cards = {"pending", "full"}
  MaxFaults = 1
  MaxReloads = 1
  Mixed = FALSE
CHECK_DEADLOCK FALSE
INVARIANTS CardsAreTrue
PROPERTIES TaskEnds PageCatchesUp
