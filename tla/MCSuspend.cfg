CONSTANTS
  Main = m
  Threads = {m, t1, t2, t3}
  NoThread = none
SPECIFICATION FairSpec
INVARIANTS
  WorldStopped
  CountersAgree
  NoLostWakeup
PROPERTIES
  ImplementsStopTheWorld
  SuspendCompletes
  ParkedReleased
  JoinCompletes
