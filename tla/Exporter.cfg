SPECIFICATION mcSpec
CONSTANTS
  Hashes = {"h1", "h2", "h3"}
  Databases = {"d1", "d2"}
  Cardinalities = {0, 1, 2}
  MaxEmissions = 3
  Families = {"query_last_seen_seconds", "query_executions"}
  Queries = {"q1"}
  interval = 1
  MinTimeout = 2
  MaxCalls = 2
  MaxTime = 9
  Polls = {0, 2, 3}
  MinStaleness = 4
  MaxPass = 2
  MaxUptime = 10
  MaxEdits = 2
INVARIANT EvictionIsWhole
INVARIANT ScrapeIsOneMoment
INVARIANT NeverServedStale
INVARIANT HealthyStaysReady
PROPERTY ReloadIsApplied
CHECK_DEADLOCK FALSE
