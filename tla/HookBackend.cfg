SPECIFICATION Spec
CONSTANTS
  a1 = a1
  a2 = a2
  a3 = a3
  a4 = a4
  Addrs = {a1, a2, a3}
  QueryIds = {0, 7, 8}
  Gucs <- MCGucs
  SampleMapCap = 2
  SeenCap = 1
  MaxExecs = 3
INVARIANT NestingIsDepth
INVARIANT CapturesAreTheUsers
INVARIANT EntryOfItsQuery
INVARIANT IdleIsClean
SYMMETRY AddrSymmetry
CHECK_DEADLOCK FALSE
