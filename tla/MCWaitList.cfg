CONSTANTS
  Threads = {t1, t2, t3}
  Idents = {a}
  Values = {0, 1}
  Timeouts = {2}
  Forever = forever
  Interval = 1
  MaxCount = 2
  MaxWaiters = 2
SPECIFICATION FairSpec
INVARIANTS
  ListsMatchWaiters
  WakeupsConserved
PROPERTIES
  NeverEarly
  TimedWaitEnds
  ChangeIsSeen
