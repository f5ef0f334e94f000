\* Two requests for two tracks, a cache of one entry that lives one clock step.
SPECIFICATION FairSpec
CONSTANTS
  c1 = c1  c2 = c2  k1 = k1  k2 = k2  i1 = i1  i2 = i2
  None = None
  Calls = {c1, c2}
  Tracks = {k1, k2}
  Identities = {i1, i2}
  MaxEntries = 1
  TTL = 0
  MaxFetches = 3
  MaxTime = 1
INVARIANTS CacheKept DroppedStaysOut
PROPERTIES StoredInOrder EveryRequestEnds
