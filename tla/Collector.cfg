SPECIFICATION Spec
CONSTANTS
  MaxFileLines = 3
  ReadBudget = 2
  MaxQueries = 1
  BadEntries = {2}
  MaxEntries = 3
  MaxLines = 4
  MaxRotations = 1
  MaxTruncations = 1
  MaxErrors = 2
  MaxRestarts = 1
  MaxRests = 1
INVARIANT EmittedOncePerCheckpoint
INVARIANT NothingSkipped
CHECK_DEADLOCK FALSE
