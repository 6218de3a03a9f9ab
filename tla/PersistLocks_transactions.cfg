SPECIFICATION mcSpec
CONSTANTS
  worker = worker
  backend = backend
  Writers = {worker, backend}
  Fingerprints = {1, 2}
  BatchMinutes = {3}
  OldMinutes = {}
  Calls <- MCBackendInTransaction
  MaxClock = 1
  MaxTxns = 2
  Captures <- MCCaptures
  Bounds <- MCBounds
  slo_threshold_ms = 2
  MinutesPerHour = 2
  MaxCaptures = 3
  MaxCutoff = 1
INVARIANT NoDeadlock
CHECK_DEADLOCK FALSE
