CONSTANTS
  Threads = {t1, t2, t3}
  Users = {t1}
  Infos = {i1, i2}
  Null = null
  MaxFds = 2
  ReservedSlots = 1
  Garbage = {null}
SPECIFICATION FairSpec
INVARIANTS
  RefcountExact
  OpenWhileReachable
  OneDescriptorPerFile
PROPERTIES
  CloseEnds
