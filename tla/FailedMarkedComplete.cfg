SPECIFICATION Spec
CONSTANTS
  p = p
  a = a
  b = b
  w1 = w1
  c1 = c1
  c2 = c2
  retryAgent = retryAgent
  NoValue = NoValue
  Goals = {p, a}
  Witnesses = {w1}
  Clients = {c1}
  Dependencies <- PairDependencies
  NumEvidence <- SomeEvidence
  BadWitness = {}
  Retryable = {}
  Queried = {}
  JobOutcomes = {"success", "failure"}
  CheckOutcomes = {"exists", "missing"}
  MaxResends = 0
  MaxRetries = 0
  ForceModes = {TRUE}
  Abortable = {}
  MaxAborts = 0
  Restartable = {}
CHECK_DEADLOCK FALSE
INVARIANT CompletedMeansSucceeded
