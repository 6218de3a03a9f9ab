SPECIFICATION FairSpec
CONSTANTS
  MaxFileLines = 0
  ReadBudget = 1
  MaxQueries = 0
  BadEntries = {}
  MaxEntries = 4
  MaxLines = 3
  MaxRotations = 1
  MaxTruncations = 0
  MaxErrors = 1
  MaxRestarts = 1
  MaxRests = 0
INVARIANT ResumesInItsFile
PROPERTY EveryEntryIsExported
CHECK_DEADLOCK FALSE
