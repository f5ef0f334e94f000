\* Two workers on a generation that is registered, activated and retired beside another;
\* every write may race a backfill or an activation.  Fair workers and deadlines;
\* writers and administrator may stop at any time.
SPECIFICATION FairSpec
CONSTANTS
  p = p  x = x  y = y  old = old  new = new  w1 = w1  w2 = w2
  NoContent = NoContent  NoWorker = NoWorker
  Memories = {p}
  Contents = {x, y}
  Gens = {old, new}
  Bootstrapped = {old}
  Workers = {w1, w2}
  GenOf <- BothNew
  MaxAttempts = 2
  BatchSize = 2
  MaxOps = 3
INVARIANTS ReadyIsCurrent Covered
PROPERTIES PublishedUnderLease ActivationIsComplete EveryMemorySettles
\* Idle when the bound on operations is reached and no job is left.
CHECK_DEADLOCK FALSE
