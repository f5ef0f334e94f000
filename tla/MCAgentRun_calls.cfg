\* A call that may not be repeated and one that may, whose effect can be compensated, asked for together or in turn, by two executions. A run really stops: it has ended, or waits for a reviewer.
SPECIFICATION Spec
CONSTANTS
  a = a  b = b  x = x  y = y  w1 = w1  w2 = w2
  NoCall = NoCall  NoWorker = NoWorker
  Calls = {a, b}
  Once = {a}
  Blocking = {}
  Gated = {}
  Unexposed = {}
  Compensable = {b}
  Invalid = {}
  Workers = {w1, w2}
  MaxAttempts = 2
  MaxCalls = 2
  MaxFaults = 2
CHECK_DEADLOCK FALSE
SYMMETRY WorkerSymmetry
INVARIANTS EffectOnce KnownResult EveryCallAnswered
PROPERTIES UnknownHeld ConversationGrows CallsInOrder
