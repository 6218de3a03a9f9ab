SPECIFICATION FairSpec
CONSTANTS
  b1 = b1
  b2 = b2
  appDb = appDb
  otherDb = otherDb
  Backends = {b1, b2}
  Databases = {appDb, otherDb}
  noDb = noDb
  Missing = {noDb}
  BackendDb <- MCBackendDb
  RingCap = 2
  MaxCaptures = 3
  Costs = {1, 3}
  U64Max = 5
  U128Max = 12
INVARIANT RingIsFifo
INVARIANT DatabaseIsolation
INVARIANT OverheadIsASample
PROPERTY KeepsPromise
PROPERTY RingIsDrained
CHECK_DEADLOCK FALSE
