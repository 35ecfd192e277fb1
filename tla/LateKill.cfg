SPECIFICATION Spec
CONSTANTS
  Names = {n1}
  Requesters = {r1}
  History = TRUE
  Notified = {n1}
  MaxActors = 3
  MaxRequests = 3
  MaxRetries = 1
  NoActor = NoActor
CHECK_DEADLOCK FALSE
INVARIANT OnlyThisActorStops
