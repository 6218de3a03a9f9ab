SPECIFICATION FairSpec
CONSTANTS
  MaxReadLines = 3
  MaxEntries = 5
  MaxLines = 5
  MaxRotations = 2
  MaxFailures = 2
INVARIANT OffsetIsLedger
PROPERTY ShortEntriesDrain
CHECK_DEADLOCK FALSE
