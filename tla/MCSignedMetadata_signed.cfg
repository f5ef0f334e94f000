\* Two requests for two videos or a space, keys that are rotated twice, caches of one entry.
SPECIFICATION FairSpec
CONSTANTS
  c1 = c1  c2 = c2  v1 = v1  v2 = v2
  Keys = Keys  Space = Space  None = None
  Calls = {c1, c2}
  Videos = {v1, v2}
  MaxEntries = 1
  MaxRotations = 2
INVARIANT OneLoader
PROPERTIES GoodKeysStay EveryCallEnds Recovers
