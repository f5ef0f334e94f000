\* One task at a time: three events, channels of one, replays of at most two, two faults.
\* The stream rests when every event has been written.
SPECIFICATION FairGatewaySpec
CONSTANTS
  t = t  u = u  p = p
  Tasks = {t}
  Payloads = {p}
  MaxAttempts = 2
  Buffer = 1
  ReplayLimit = 2
  MaxEvents = 3
  MaxFaults = 2
CHECK_DEADLOCK FALSE
INVARIANTS NoGap
PROPERTIES StreamKept EventsArrive
