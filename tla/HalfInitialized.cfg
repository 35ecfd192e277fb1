SPECIFICATION Spec
CONSTANTS
  Tracks = {prod}
  NameOf <- OneName
  Plain = {prod}
  MaxVersion = 1
  Schedule <- AllValid
  Callers = {w1, w2, starter}
  Starter = starter
  MaxFires = 0
  NoJob = NoJob
  MaxAge = 2
  MaxFetch = 1
  MaxTime = 0
  MaxRevision = 1
  NoList = NoList
  NoTrack = NoTrack
  prod = prod
  test = test
INVARIANT ReturnedIsReady
