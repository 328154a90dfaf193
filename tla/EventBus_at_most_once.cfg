SPECIFICATION Spec
CONSTANTS
  Calls = {c1, c2}
  Types <- MCTypes
  Keys <- MCKeys
  Events <- MCEvents
  Subs <- DedupeSubs
  Batches <- SameEvent
  MaxAttempts = 1
  Sink = "reliable"
  MaxInFlight = 2
INVARIANTS
  HandledAtMostOnce
