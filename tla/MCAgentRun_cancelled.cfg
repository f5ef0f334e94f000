\* The caller cancels a run whose last turn is being saved. A run really stops: it has ended, or waits for a reviewer.
SPECIFICATION Spec
CONSTANTS
  a = a  b = b  x = x  y = y  w1 = w1  w2 = w2
  NoCall = NoCall  NoWorker = NoWorker
  Calls = {a}
  Once = {a}
  Blocking = {}
  Gated = {}
  Unexposed = {}
  Compensable = {}
  Invalid = {}
  Workers = {w1, w2}
  MaxAttempts = 1
  MaxCalls = 1
  MaxFaults = 0
CHECK_DEADLOCK FALSE
SYMMETRY WorkerSymmetry
PROPERTY TerminalIsFinal
