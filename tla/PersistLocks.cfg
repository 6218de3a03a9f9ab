SPECIFICATION mcFairSpec
CONSTANTS
  worker = worker
  backend = backend
  Writers = {worker, backend}
  Fingerprints = {1, 2}
  BatchMinutes = {2, 3}
  OldMinutes = {1}
  Calls <- MCOneCall
  MaxClock = 2
  MaxTxns = 3
  Captures <- MCCaptures
  Bounds <- MCBounds
  slo_threshold_ms = 2
  MinutesPerHour = 2
  MaxCaptures = 3
  MaxCutoff = 1
INVARIANT BatchingIsInvisible
PROPERTY EveryWriterCommits
PROPERTY PurgeKeepsTheWindow
CHECK_DEADLOCK FALSE
