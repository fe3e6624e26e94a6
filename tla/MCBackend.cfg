SPECIFICATION BackendSpec
CONSTANTS
  Calls = {c1, c2, c3}
  Backends = {"asyncio", "trio"}
  Tasks = {t1, t2, t3}
  Scopes = {s1, s2}
  MaxDeliveries = 2
  Submitted = 3
  Workers = 2
INVARIANTS BackendTypeOK NothingLeftBehind MutualExclusion CancelledInItsScope RequestsWithdrawn
PROPERTIES CancelReachesTask NobodyWaitsForEver BothAreFairMutexes
