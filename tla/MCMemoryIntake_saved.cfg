\* A user saves a memory, forgets it and saves it again.
SPECIFICATION Spec
CONSTANTS
  k = k
  d = d
  Memories = {k, d}
  NoMemory = NoMemory
  Kept = k
  Duplicate = d
  Last = 1
  Kind <- MCChat
  About <- MCAboutOne
  Risky = {}
  Fading = {}
  ArchiveAfter = 2
  CoolAfter = 2
  Requests = {"save", "forget", "again"}
  Asks <- MCAsksAgain
  Of <- MCOfAgain
  Workers = {w1}
  Callers = {c1}
  MaxAttempts = 2
  MaxSchedules = 1
  MaxCalls = 3
  MaxFaults = 0
  MaxCycles = 0
INVARIANT SavedIsVisible
CHECK_DEADLOCK FALSE
