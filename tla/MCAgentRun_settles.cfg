\* Fair executions and leases, two calls of four, the reviewer may never come. A run really stops: it has ended, or waits for a reviewer.
SPECIFICATION FairSpec
CONSTANTS
  a = a  b = b  x = x  y = y  w1 = w1  w2 = w2
  NoCall = NoCall  NoWorker = NoWorker
  Calls = {a, b, x, y}
  Once = {a}
  Blocking = {b}
  Gated = {a}
  Unexposed = {x}
  Compensable = {a}
  Invalid = {y}
  Workers = {w1}
  MaxAttempts = 2
  MaxCalls = 2
  MaxFaults = 2
CHECK_DEADLOCK FALSE
INVARIANTS ApprovedFirst
PROPERTY EverySettles
