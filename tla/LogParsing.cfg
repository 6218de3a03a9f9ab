SPECIFICATION mcFairSpec
CONSTANTS
  Texts = {"t1", "t2", "t3"}
  Databases = {"app"}
  NoDatabase = NoDatabase
  FingerprintOf <- MCFingerprintOf
  Timestamps = {1, 2, 3, 4}
  Durations = {1, 2}
  NFiles = 3
  Contents <- MCContents
  Compressed = {2}
  Window = {2, 3, 4}
  MaxCallbacks = 1
  MaxFailures = 1
  MaxPanics = 1
  Messages = {"text", "two_lines", "long_line", "subscript", "array", "json", "query_json", "refused_text", "refused_json", "error", "bad_stamp"}
  MaxMessages = 3
  LogDatabases = {"d1", "d2"}
  max_line_bytes = 1
  max_entry_bytes = 9
  Caps = {0, 2}
  BLOCK = 2
  TS_SHAPE <- MCShape
  MaxFraction = 2
  MaxZone = 3
  MaxEdits = 2
  MAX_PLAN_DEPTH = 3
  MaxSteps = 3
INVARIANT ResultsAreBatch
INVARIANT ScreenMatchesFiles
INVARIANT OneEntryEach
INVARIANT EveryPlanIsAccounted
INVARIANT ScannersAgree
INVARIANT TextKeepsTheTree
INVARIANT FormatsAgree
PROPERTY ParsingSettles
CHECK_DEADLOCK FALSE
