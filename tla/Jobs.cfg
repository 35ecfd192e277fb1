SPECIFICATION FairSpec
CONSTANTS
  Jobs = {j1, j2, j3, j4}
  Mixes <- AllMixes
  Partitions = {p1, p2}
  Witness <- OwnPartition
  Satisfiers = {s1}
  Satisfier <- SharedSatisfier
  Evidence = {e1, e2}
  NumStatements = 2
  CorePoolSize = 1
  MaxPoolSize = 2
  QueueSize = 1
  Abortable = {j1}
  MaxReports = 2
  NoPartition = NoPartition
  NoCopy = NoCopy
  j1 = j1
  j2 = j2
  j3 = j3
  j4 = j4
  p1 = p1
  p2 = p2
  s1 = s1
INVARIANT TypeOK
INVARIANT DriversReleased
INVARIANT OneSession
INVARIANT SuccessIsMarked
PROPERTY RefusedOnlyWhenFull
PROPERTY EveryJobReports
PROPERTY SuccessIsLast
PROPERTY DataArrives
CHECK_DEADLOCK FALSE
