CONSTANTS
  Sets = {{k1}, {k1, k2}}
  Pers = {1, 2}
  DefaultPer = 1
  Threads = {t1, t2}
  Nobody = Nobody
  MetaFaults = TRUE
  Bounds <- OneFault
SPECIFICATION Spec
INVARIANTS DocIsReadable
CHECK_DEADLOCK FALSE
