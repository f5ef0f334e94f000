\* One call, one fault, fair processes and leases. An orchestration really stops: it has ended, or waits for a reviewer.
SPECIFICATION FairSpec
CONSTANTS
  a = a  b = b  w1 = w1  w2 = w2
  NoWorker = NoWorker
  Tasks = {a, b}
  DependsOn <- ChainDepends
  Layer <- ChainLayer
  Budget = 1
  Workers = {w1, w2}
  MaxWaits = 1
  MaxCalls = 1
  MaxFaults = 1
CHECK_DEADLOCK FALSE
INVARIANTS DependenciesFirst RecordsAreTrue CompletedIsComplete
PROPERTIES VerdictStays EverySettles
