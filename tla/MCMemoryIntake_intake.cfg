\* Two calls of two tools and one run of the retention race two dream workers over two events.
SPECIFICATION Spec
CONSTANTS
  k = k
  d = d
  Memories = {k, d}
  NoMemory = NoMemory
  Kept = k
  Duplicate = d
  Last = 2
  Kind <- MCKind
  About <- MCAbout
  Risky = {}
  Fading = {d}
  ArchiveAfter = 2
  CoolAfter = 2
  Requests = {"save", "forget"}
  Asks <- MCAsks
  Of <- MCOf
  Workers = {w1, w2}
  Callers = {c1}
  MaxAttempts = 2
  MaxSchedules = 2
  MaxCalls = 2
  MaxFaults = 1
  MaxCycles = 1
INVARIANTS NothingSkipped ReplayRebuilds
SYMMETRY Symmetry
CHECK_DEADLOCK FALSE
