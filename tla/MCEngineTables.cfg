SPECIFICATION FairSpec
CONSTANTS
  t1 = t1
  t2 = t2
  Threads = {t1, t2}
  Names = {"n", "g", "h"}
  Modules = {"M", "C"}
  Items <- MCItems
  Programs <- MCPrograms
  Absent = absent
  Nobody = nobody
INVARIANTS
  ActiveIsComplete
PROPERTIES
  GlobalsKept
  CallsReturn
CHECK_DEADLOCK FALSE
