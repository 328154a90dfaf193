SPECIFICATION FairSpec
CONSTANTS
  Calls = {c1, c2}
  Types <- MCTypes
  Keys <- MCKeys
  Events <- MCEvents
  Subs <- DedupeSubs
  Batches <- SameEvent
  MaxAttempts = 2
  Sink = "failing"
  MaxInFlight = 2
INVARIANTS
  TypeOK
  DedupeLosesNothing
  AttemptsExact
PROPERTIES
  EveryPublishSettles
  ImplementsDelivery
