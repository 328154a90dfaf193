SPECIFICATION Spec
CONSTANTS
  Focus = {"server"}
  Crowd = 2
  Scripts <- MCScripts
  FirstRows <- MCFirstRows
  Accounts = {"a", "b"}
  Ttls = {0, 1}
  Dedupings <- MCDedupings
  MaxNow = 2
  Notices = {1, 2}
  Channels <- MCChannels
  Templates = {"digest"}
  Preferences <- MCPreferences
  Reminders = {"r1", "r2"}
  MaxClock = 2
  Limit = 2
  WindowMs = 2
  Costs = {1, 2, 3}
  SessionTtlMs = 2
  Tokens = {"t1", "t2"}
  Verifiers = {"v1", "v2"}
  MaxReading = 3
  MaxVisits = 2
  Trackers = {"db", "ai"}
  Others = {"disk"}
  failureThreshold = 2
  MaxOutcomes <- MCMaxOutcomes
  MaxDepth = 4
  Posts = {1}
  Listeners = {"phone", "desk", "robot"}
  maxAttempts = 2
INVARIANTS
  ReactionsObserved
CHECK_DEADLOCK FALSE
