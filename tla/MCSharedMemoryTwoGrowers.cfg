CONSTANTS
  Main = m
  NoThread = none
  MinPages = 1
  Threads = {m, t1}
  Growers = {m, t1}
  MaxPages = 3
  GrowSizes = {1}
SPECIFICATION MSpec
INVARIANTS
  SomebodyUnparked
CHECK_DEADLOCK FALSE
