SPECIFICATION Spec
CONSTANTS
  Calls = {c1, c2}
  Types <- MCTypes
  Keys <- MCKeys
  Events <- MCEvents
  Subs <- MixedSubs
  Batches <- MixedBatches
  MaxAttempts = 0
  Sink = "none"
  MaxInFlight = 1
INVARIANTS
  HandledAtMostOnce
  FanOutOrder
  FanOutComplete
PROPERTIES
  UnsubscribeStopsDelivery
