SPECIFICATION Spec
CONSTANTS
  Tracks = {prod}
  NameOf <- OneName
  Plain = {prod}
  MaxVersion = 2
  Schedule <- SecondNone
  Callers = {w1, starter}
  Starter = starter
  MaxFires = 1
  NoJob = NoJob
  MaxAge = 2
  MaxFetch = 1
  MaxTime = 3
  MaxRevision = 1
  NoList = NoList
  NoTrack = NoTrack
  prod = prod
  test = test
INVARIANT TypeOK
PROPERTY NewestIsFound
PROPERTY RefreshFindsNewest
