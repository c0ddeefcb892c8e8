CONSTANTS
  Sets = {{k1}, {k1, k2}}
  Pers = {1, 2}
  DefaultPer = 1
  Threads = {t1, t2}
  Nobody = Nobody
  MetaFaults = FALSE
  Bounds <- Short
SPECIFICATION FairSpec
INVARIANTS DocIsReadable SearchIsCurrent
PROPERTIES SearchesReturn EventuallyPublished
CHECK_DEADLOCK FALSE
