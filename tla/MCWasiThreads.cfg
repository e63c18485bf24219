CONSTANTS
  Main = m
  Threads = {m, t1, t2, t3}
  NoThread = none
  MaxTid = 2
  Codes = {0, 1}
SPECIFICATION WSpec
SYMMETRY Symmetry
INVARIANTS
  TidsMatchThreads
  ResultIsFirstTrap
