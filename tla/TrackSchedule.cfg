SPECIFICATION FairSpec
CONSTANTS
  Tracks = {prod, test}
  NameOf <- OneName
  Plain = {prod}
  MaxVersion = 1
  Schedule <- TestInvalid
  Callers = {w1, starter}
  Starter = starter
  MaxFires = 2
  NoJob = NoJob
  MaxAge = 2
  MaxFetch = 1
  MaxTime = 0
  MaxRevision = 1
  NoList = NoList
  NoTrack = NoTrack
  prod = prod
  test = test
INVARIANT EntryHasJob
INVARIANT JobIsKnown
PROPERTY CallsReturn
