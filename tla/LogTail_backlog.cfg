SPECIFICATION FairSpec
CONSTANTS
  MaxReadLines = 2
  MaxEntries = 4
  MaxLines = 4
  MaxRotations = 1
  MaxFailures = 1
PROPERTY BacklogDrains
CHECK_DEADLOCK FALSE
