SPECIFICATION Spec
CONSTANTS
  p = p
  a = a
  b = b
  w1 = w1
  c1 = c1
  c2 = c2
  retryAgent = retryAgent
  NoValue = NoValue
  Goals = {p, a, b}
  Witnesses = {w1}
  Clients = {c1}
  Dependencies <- PairDependencies
  NumEvidence <- SomeEvidence
  BadWitness = {}
  Retryable = {a, b}
  Queried = {}
  JobOutcomes = {"success", "failure"}
  CheckOutcomes = {"exists", "missing"}
  MaxResends = 1
  MaxRetries = 1
  ForceModes = {TRUE, FALSE}
  Abortable = {a}
  MaxAborts = 1
  Restartable = {}
CHECK_DEADLOCK FALSE
INVARIANT SingleExecution
INVARIANT DependencyOrder
INVARIANT RunningHasJob
INVARIANT NoLostDependency
PROPERTY SatisfiedIsFinal
