SPECIFICATION FairSpec
CONSTANTS
  p = p
  a = a
  b = b
  w1 = w1
  c1 = c1
  c2 = c2
  retryAgent = retryAgent
  NoValue = NoValue
  Goals = {p, a, b}
  Witnesses = {w1}
  Clients = {c1, c2}
  Dependencies <- SharedDependencies
  NumEvidence <- TopEvidence
  BadWitness = {b}
  Retryable = {p, a}
  Queried = {b}
  JobOutcomes = {"success", "failure"}
  CheckOutcomes = {"exists", "missing", "throws"}
  MaxResends = 0
  MaxRetries = 1
  ForceModes = {TRUE}
  Abortable = {p}
  MaxAborts = 1
  Restartable = {}
CHECK_DEADLOCK FALSE
INVARIANT RunningHasJob
INVARIANT NoLostReply
INVARIANT NoLostDependency
PROPERTY EventuallyAnswered
PROPERTY EventuallyRetried
