SPECIFICATION Spec
CONSTANTS
  MaxFileLines = 0
  ReadBudget = 2
  MaxQueries = 0
  BadEntries = {3}
  MaxEntries = 3
  MaxLines = 3
  MaxRotations = 1
  MaxTruncations = 0
  MaxErrors = 0
  MaxRestarts = 0
  MaxRests = 0
INVARIANT SkippedStaysSkipped
CHECK_DEADLOCK FALSE
