SPECIFICATION FairSpec
CONSTANTS
  Goals = {p, q, a}
  Dependencies <- SharedDependency
  Evidenced = {q, a}
  NoRun = NoRun
  Client = Client
  p = p
  a = a
  q = q
  MaxRequests = 2
  MaxRetries = 1
  MaxCrashes = 1
CHECK_DEADLOCK FALSE
INVARIANT TypeOK
INVARIANT RunTree
INVARIANT OutcomeRecorded
PROPERTY OlderRunsStand
PROPERTY RunEnds
