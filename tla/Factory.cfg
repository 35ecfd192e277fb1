SPECIFICATION FairSpec
CONSTANTS
  Names = {n1}
  Requesters = {r1, r2}
  History = TRUE
  Notified = {n1}
  MaxActors = 4
  MaxRequests = 4
  MaxRetries = 1
  NoActor = NoActor
CHECK_DEADLOCK FALSE
INVARIANT TypeOK
INVARIANT MapIsLive
INVARIANT OnlySucceededStop
INVARIANT NeverRecovers
PROPERTY EventuallyAcquired
PROPERTY EventuallyReleased
