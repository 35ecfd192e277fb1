SPECIFICATION FairSpec
CONSTANTS
  p = p
  a = a
  b = b
  w1 = w1
  c1 = c1
  c2 = c2
  retryAgent = retryAgent
  NoValue = NoValue
  Goals = {p, a, b}
  Witnesses = {w1}
  Clients = {c1, c2}
  Dependencies <- PairDependencies
  NumEvidence <- SomeEvidence
  BadWitness = {}
  Retryable = {}
  Queried = {p}
  JobOutcomes = {"success", "failure", "markFailure"}
  CheckOutcomes = {"exists", "missing"}
  MaxResends = 0
  MaxRetries = 0
  ForceModes = {TRUE}
  Abortable = {}
  MaxAborts = 0
  Restartable = {p}
CHECK_DEADLOCK FALSE
INVARIANT TypeOK
INVARIANT AnswerIsTrue
INVARIANT DependencyOrder
PROPERTY ImplementsService
