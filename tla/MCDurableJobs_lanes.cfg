\* Fair dispatcher, clock, broker and workers; the operator may never come.
\* A lane of a job that may not be replayed and one that is retry-safe; both ask for
\* reconciliation, as the jobs of the dialogue and of the discovery lanes do.
SPECIFICATION FairSpec
CONSTANTS
  a = a  b = b  u = u  lane = lane  w1 = w1  w2 = w2
  NoJob = NoJob  NoLane = NoLane
  Jobs = {a, b}
  Users = {u}
  UserOf <- OneUser
  LaneOf <- OneLane
  RetrySafe = {b}
  AgentJobs = {a, b}
  Workers = {w1, w2}
  Limit = 2
  MaxAttempts = 2
  LeaseTime = 2
  RunLimit = 1
  ReserveTime = 1
  BackoffOf <- DoublingBackoff
  Batch = 2
  MaxCopies = 2
INVARIANTS ExecutionBudget AuditMatchesLedger SingleExecution LiveClaims
PROPERTIES LanesAreQueues EverySettles
