CONSTANTS
  Main = m
  NoThread = none
  MinPages = 1
  Threads = {m, t1, t2}
  Growers = {m, t1, t2}
  MaxPages = 3
  GrowSizes = {0, 1}
SPECIFICATION MFairSpec
INVARIANTS
  NoStalePointer
  AllocationMatchesSize
PROPERTIES
  SizeOnlyGrows
  GrowReturns
CHECK_DEADLOCK FALSE
